---------------------------- MODULE ConsoleProofs -----------------------------
(***************************************************************************)
(* The shell with its two volumes: every safety property of Console, for   *)
(* any lines and files, any sizes, and whatever is started and stopped     *)
(* between the scripts.                                                    *)
(***************************************************************************)
EXTENDS Console, StrsubProofs

-----------------------------------------------------------------------------
(***************************************************************************)
(* corshell_cmd_split: whatever was substituted, no word holds a zero, and *)
(* there are no more words than argv takes.                                *)
(***************************************************************************)
Plain == Chars \ {"nul"}
Modes == {"dull", "string", "word", "wordString"}
SplitStates ==
    {a \in [mode : Modes, quote : {"dq", "sq"}, word : Seq(Plain),
            words : Seq(Seq(Plain)), stop : BOOLEAN] : Len(a.words) <= ArgMax}

Closed(a) == [a EXCEPT !.mode = "dull", !.words = Append(@, a.word), !.word = <<>>]
Grown(a, c) == [a EXCEPT !.word = Append(@, c)]

\* A word is closed.
LEMMA ClosedSplits ==
    ASSUME NEW a \in SplitStates, Len(a.words) # ArgMax
    PROVE  Closed(a) \in SplitStates
<1> DEFINE w == a.word
           ws == a.words
           b == Closed(a)
<1>1. /\ w \in Seq(Plain) /\ ws \in Seq(Seq(Plain)) /\ a.mode \in Modes
      /\ a.quote \in {"dq", "sq"} /\ a.stop \in BOOLEAN /\ Len(ws) <= ArgMax
  BY DEF SplitStates
<1>2. ArgMax \in Nat /\ Len(ws) \in Nat
  BY <1>1, LimitsAssumption, LenProperties
<1> DEFINE vs == Append(ws, w)
<1>3. vs \in Seq(Seq(Plain)) /\ Len(vs) = Len(ws) + 1
  BY <1>1, AppendProperties
<1>4. b = [mode |-> "dull", quote |-> a.quote, word |-> <<>>, words |-> vs,
           stop |-> a.stop]
  <2>1. a \in [mode : Modes, quote : {"dq", "sq"}, word : Seq(Plain),
               words : Seq(Seq(Plain)), stop : BOOLEAN]
    BY DEF SplitStates
  <2> DEFINE d == [a EXCEPT !.mode = "dull"]
             f == [d EXCEPT !.words = vs]
  <2>2. d = [mode |-> "dull", quote |-> a.quote, word |-> a.word, words |-> a.words,
             stop |-> a.stop]
    BY <2>1
  <2>3. b = [f EXCEPT !.word = <<>>]
    BY <2>2 DEF Closed
  <2> HIDE DEF d, b, vs
  <2>4. f = [mode |-> "dull", quote |-> a.quote, word |-> a.word, words |-> vs,
             stop |-> a.stop]
    BY <2>2
  <2> HIDE DEF f
  <2>5. QED
    BY <2>3, <2>4
<1>5. <<>> \in Seq(Plain) /\ "dull" \in Modes
  BY DEF Modes
<1> HIDE DEF b, w, ws, vs
<1>6. Len(vs) <= ArgMax
  <2>1. Len(ws) # ArgMax
    BY DEF ws
  <2>2. QED
    BY <1>1, <1>2, <1>3, <2>1
<1>7. b \in SplitStates
  BY <1>1, <1>3, <1>4, <1>5, <1>6 DEF SplitStates
<1>8. QED
  BY <1>7 DEF b

\* A word grows.
LEMMA GrownSplits ==
    ASSUME NEW a \in SplitStates, NEW c \in Plain
    PROVE  Grown(a, c) \in SplitStates
<1> DEFINE v == Append(a.word, c)
<1>1. v \in Seq(Plain)
  BY AppendProperties DEF SplitStates
<1>2. Grown(a, c) = [a EXCEPT !.word = v]
  BY DEF Grown
<1> HIDE DEF v
<1>3. QED
  BY <1>1, <1>2 DEF SplitStates

\* Only the mode changes.
LEMMA ModeSplits ==
    ASSUME NEW a \in SplitStates, NEW m \in Modes
    PROVE  [a EXCEPT !.mode = m] \in SplitStates
BY DEF SplitStates

\* Every step of the split.
LEMMA SplitStepSplits ==
    ASSUME NEW a \in SplitStates, NEW c \in Chars
    PROVE  SplitStep(a, c) \in SplitStates
<1> DEFINE b == SplitStep(a, c)
<1>1. a.mode \in Modes /\ a.stop \in BOOLEAN /\ a.quote \in {"dq", "sq"}
  BY DEF SplitStates
<1>2. CASE a.stop
  <2>1. b = a
    BY <1>2, Zenon DEF SplitStep
  <2>2. QED
    BY <2>1
<1>3. CASE ~a.stop /\ SplitStops(a, c)
  <2>1. b = [a EXCEPT !.stop = TRUE]
    BY <1>3, Zenon DEF SplitStep
  <2>2. QED
    BY <2>1 DEF SplitStates
<1>4. CASE ~a.stop /\ ~SplitStops(a, c)
  <2>0. c \in Plain /\ Len(a.words) # ArgMax
    BY <1>4 DEF SplitStops, Plain
  <2>1. Closed(a) \in SplitStates /\ Grown(a, c) \in SplitStates
    BY <2>0, ClosedSplits, GrownSplits
  <2>2. /\ "dull" # "string" /\ "dull" # "word" /\ "dull" # "wordString"
        /\ "string" # "word" /\ "string" # "wordString" /\ "word" # "wordString"
        /\ "sp" # "dq" /\ "sp" # "sq"
    OBVIOUS
  <2>3. CASE a.mode = "dull"
    <3>1. c = "sp" => b = a
      BY <1>4, <2>2, <2>3, Zenon DEF SplitStep
    <3>2. c \in {"dq", "sq"} => b = [a EXCEPT !.mode = "string", !.quote = c]
      <4>1. c \in {"dq", "sq"} => c # "sp"
        BY <2>2
      <4>2. QED
        BY <1>4, <2>2, <2>3, <4>1, Zenon DEF SplitStep
    <3>3. c # "sp" /\ c \notin {"dq", "sq"} => b = [Grown(a, c) EXCEPT !.mode = "word"]
      BY <1>4, <2>2, <2>3, Zenon DEF SplitStep, Grown
    <3> HIDE DEF b
    <3>4. c \in {"dq", "sq"} => [a EXCEPT !.mode = "string", !.quote = c] \in SplitStates
      BY DEF SplitStates, Modes
    <3>5. [Grown(a, c) EXCEPT !.mode = "word"] \in SplitStates
      BY <2>1, ModeSplits DEF Modes
    <3>6. b \in SplitStates
      BY <3>1, <3>2, <3>3, <3>4, <3>5
    <3>7. QED
      BY <3>6 DEF b
  <2>4. CASE a.mode = "string"
    <3>1. b = IF c = a.quote THEN Closed(a) ELSE Grown(a, c)
      BY <1>4, <2>2, <2>4, Zenon DEF SplitStep, Closed, Grown
    <3>2. QED
      BY <2>1, <3>1
  <2>5. CASE a.mode = "word"
    <3>1. c = "sp" => b = Closed(a)
      BY <1>4, <2>2, <2>5, Zenon DEF SplitStep, Closed, Grown
    <3>2. c = "dq" => b = [Grown(a, c) EXCEPT !.mode = "wordString"]
      BY <1>4, <2>2, <2>5, Zenon DEF SplitStep, Closed, Grown
    <3>3. c # "sp" /\ c # "dq" => b = Grown(a, c)
      BY <1>4, <2>2, <2>5, Zenon DEF SplitStep, Closed, Grown
    <3>4. [Grown(a, c) EXCEPT !.mode = "wordString"] \in SplitStates
      BY <2>1, ModeSplits DEF Modes
    <3> HIDE DEF b
    <3>5. b \in SplitStates
      BY <2>1, <3>1, <3>2, <3>3, <3>4
    <3>6. QED
      BY <3>5 DEF b
  <2>6. CASE a.mode = "wordString"
    <3>1. b = IF c = "dq" THEN [Grown(a, c) EXCEPT !.mode = "word"] ELSE Grown(a, c)
      BY <1>4, <2>2, <2>6, Zenon DEF SplitStep, Grown
    <3>2. [Grown(a, c) EXCEPT !.mode = "word"] \in SplitStates
      BY <2>1, ModeSplits DEF Modes
    <3>3. QED
      BY <2>1, <3>1, <3>2
  <2>7. QED
    BY <1>1, <2>3, <2>4, <2>5, <2>6 DEF Modes
<1>5. QED
  BY <1>1, <1>2, <1>3, <1>4

\* The words a text is split into have no zero in them.
THEOREM SplitIntoWords ==
    ASSUME NEW s \in Seq(Chars)
    PROVE  \A words \in Split(s) : words \in Seq(Seq(Plain)) /\ Len(words) <= ArgMax
<1> DEFINE n == Len(s)
           S == [i \in 0 .. n |-> SplitStates]
           g == [i \in 1 .. n |-> [x \in SplitStates |-> SplitStep(x, s[i])]]
           Eq(f) == f = [i \in 0 .. n |->
                            IF i = 0 THEN SplitStart
                            ELSE CHOOSE r \in {SplitStep(a, s[i]) : a \in {f[i - 1]}} : TRUE]
           F == CHOOSE f : Eq(f)
           a == F[n]
           rest == IF Len(s) = SubMax - 1 /\ ~a.stop THEN {<<>>, <<"junk">>} ELSE {<<>>}
<1>1. n \in Nat
  BY LenProperties
<1>2. Split(s) = IF a.mode = "dull" \/ Len(a.words) = ArgMax THEN {a.words}
                 ELSE {Append(a.words, a.word \o r) : r \in rest}
  BY DEF Split, Steps
<1>3. SplitStart \in SplitStates
  BY LimitsAssumption DEF SplitStart, SplitStates, Modes
<1>4. \A i \in 1 .. n : \A x \in SplitStates : SplitStep(x, s[i]) \in SplitStates
  BY SplitStepSplits
<1>5. \A x, i : (CHOOSE r \in {SplitStep(y, s[i]) : y \in {x}} : TRUE) = SplitStep(x, s[i])
  OBVIOUS
<1>6. \E f : Eq(f)
  <2>1. Leads(g, n, S)
    BY <1>4 DEF Leads
  <2>2. SplitStart \in S[0]
    BY <1>1, <1>3
  <2>3. \A i \in 1 .. n : \A x \in S[i - 1] : g[i][x] = SplitStep(x, s[i])
    BY <1>1
  <2> HIDE DEF S, g, n
  <2>4. PICK f : Iterates(f, n, SplitStart, g)
    BY <1>1, <2>1, <2>2, IterationExists
  <2>5. \A i \in 0 .. n : f[i] \in S[i]
    BY <1>1, <2>1, <2>2, <2>4, IterationStays
  <2>6. f = [i \in 0 .. n |-> f[i]]
    BY <2>4 DEF Iterates
  <2>7. ASSUME NEW i \in 0 .. n
        PROVE  f[i] = IF i = 0 THEN SplitStart
                      ELSE CHOOSE r \in {SplitStep(y, s[i]) : y \in {f[i - 1]}} : TRUE
    <3>1. f[i] = IF i = 0 THEN SplitStart ELSE g[i][f[i - 1]]
      BY <2>4 DEF Iterates
    <3>2. CASE i = 0
      BY <3>1, <3>2
    <3>3. CASE i # 0
      <4>1. i \in 1 .. n /\ i - 1 \in 0 .. n
        BY <1>1, <3>3
      <4>2. f[i] = SplitStep(f[i - 1], s[i])
        BY <2>3, <2>5, <3>1, <3>3, <4>1
      <4>3. QED
        BY <1>5, <3>3, <4>2
    <3>4. QED
      BY <3>2, <3>3
  <2>8. Eq(f)
    BY <2>6, <2>7, Zenon
  <2> HIDE DEF Eq
  <2>9. QED
    BY <2>8
<1>7. Eq(F)
  <2> HIDE DEF Eq
  <2>1. QED
    BY <1>6
<1> HIDE DEF F
<1>8. F[0] = SplitStart
  BY <1>1, <1>7
<1>9. ASSUME NEW i \in 1 .. n PROVE F[i] = SplitStep(F[i - 1], s[i])
  <2>1. i \in 0 .. n /\ i # 0
    BY <1>1
  <2>2. F[i] = CHOOSE r \in {SplitStep(y, s[i]) : y \in {F[i - 1]}} : TRUE
    BY <1>7, <2>1
  <2>3. QED
    BY <1>5, <2>2
<1>10. a \in SplitStates
  <2> DEFINE T == {i \in 0 .. n : F[i] \in SplitStates}
  <2>1. 0 \in T
    BY <1>1, <1>3, <1>8
  <2>2. ASSUME NEW i \in 1 .. n, i - 1 \in T PROVE i \in T
    BY <1>1, <1>4, <1>9, <2>2
  <2> HIDE DEF T, Eq, n
  <2>3. 0 .. n \subseteq T
    BY <1>1, <2>1, <2>2, UpTo
  <2>4. n \in T
    BY <1>1, <2>3
  <2>5. QED
    BY <2>4 DEF T
<1> HIDE DEF a
<1>11. /\ a.words \in Seq(Seq(Plain)) /\ Len(a.words) <= ArgMax /\ a.word \in Seq(Plain)
       /\ Len(a.words) \in Nat /\ ArgMax \in Nat
  BY <1>10, LimitsAssumption, LenProperties DEF SplitStates
<1>12. ASSUME NEW words \in Split(s), ~(a.mode = "dull" \/ Len(a.words) = ArgMax)
       PROVE  words \in Seq(Seq(Plain)) /\ Len(words) <= ArgMax
  <2>1. PICK r \in {<<>>, <<"junk">>} : words = Append(a.words, a.word \o r)
    BY <1>2, <1>12
  <2>2. r \in Seq(Plain)
    <3>1. "junk" \in Plain
      BY JunkAssumption DEF Plain
    <3>2. <<"junk">> \in Seq(Plain) /\ <<>> \in Seq(Plain)
      BY <3>1
    <3>3. QED
      BY <2>1, <3>2
  <2> DEFINE w == a.word \o r
  <2>3. w \in Seq(Plain)
    BY <1>11, <2>2, ConcatProperties
  <2> HIDE DEF w
  <2>4. /\ Append(a.words, w) \in Seq(Seq(Plain))
        /\ Len(Append(a.words, w)) = Len(a.words) + 1
    BY <1>11, <2>3, AppendProperties
  <2>5. Len(a.words) + 1 <= ArgMax
    BY <1>11, <1>12
  <2>6. QED
    BY <2>1, <2>4, <2>5 DEF w
<1>13. QED
  BY <1>2, <1>11, <1>12

-----------------------------------------------------------------------------
(***************************************************************************)
(* The inductive invariant of the shell.                                   *)
(***************************************************************************)
Frames ==
    [rest : Seq(Chars), status : Int, lasterror : {n \in Int : n <= EOK},
     estate : {"normal", "inHandler", "inError"},
     failed : BOOLEAN, cleared : BOOLEAN, sticky : BOOLEAN]

\* Where the scripts are.
ShellTypes ==
    /\ pc \in {"idle", "fetch", "run", "ret", "end"}
    /\ stack \in Seq(Frames)
    /\ (pc = "idle") = (stack = <<>>)
    /\ corshellStatus \in Int /\ corshellStatus <= EOK
    /\ ret \in Int
    /\ ended \in [res : Int, failed : BOOLEAN, cleared : BOOLEAN, sticky : BOOLEAN,
                  some : BOOLEAN]

\* The line under way.
LineTypes ==
    /\ pc # "run" => argv = <<>> /\ line = <<>> /\ text = <<>>
    /\ line \in Seq(Chars) /\ Len(line) <= LineMax
    /\ text \in Seq(Chars) /\ Len(text) < SubMax
    /\ argv \in Seq(Seq(Plain)) /\ Len(argv) <= ArgMax

\* The volumes: what a command stored ends with its only zero.
IsValue(v) ==
    /\ v \in Seq(Chars) /\ Len(v) \in 1 .. ValueMax
    /\ \A i \in 1 .. Len(v) : v[i] = "nul" <=> i = Len(v)
IsMap(m) == m = [k \in DOMAIN m |-> m[k]] /\ \A k \in DOMAIN m : IsValue(m[k])
VolumeTypes ==
    /\ reg = [loaded |-> reg.loaded, map |-> reg.map] /\ reg.loaded \in BOOLEAN
    /\ str = [loaded |-> str.loaded, map |-> str.map] /\ str.loaded \in BOOLEAN
    /\ IsMap(reg.map) /\ IsMap(str.map)
    /\ \A k \in DOMAIN reg.map : Len(k) <= KeyLength
    /\ DOMAIN str.map \subseteq 0 .. Wide - 1

\* Handlers: none has one behind it, so what is taken out leaves nothing behind.
ListTypes ==
    /\ inited \in BOOLEAN
    /\ after \in [Handlers -> Handlers \cup {NoHandler}]
    /\ after["registry"] = NoHandler /\ after["strtab"] = NoHandler
    /\ head = [t \in Tokens |->
                 IF t = "square" /\ reg.loaded THEN "registry"
                 ELSE IF t = "angle" /\ inited THEN "strtab" ELSE NoHandler]
    /\ nextList \in [Lists \cup {"static"} -> Lists \cup {"static", NoList}]
\* Command lists: the five orders there are, link by link.
Links ==
    \/ /\ started = <<>> /\ ~reg.loaded /\ ~str.loaded
       /\ nextList["static"] = NoList
    \/ /\ started = <<"registry">> /\ reg.loaded /\ ~str.loaded
       /\ nextList["static"] = "registry" /\ nextList["registry"] = NoList
    \/ /\ started = <<"strtab">> /\ ~reg.loaded /\ str.loaded
       /\ nextList["static"] = "strtab" /\ nextList["strtab"] = NoList
    \/ /\ started = <<"registry", "strtab">> /\ reg.loaded /\ str.loaded
       /\ nextList["static"] = "registry" /\ nextList["registry"] = "strtab"
       /\ nextList["strtab"] = NoList
    \/ /\ started = <<"strtab", "registry">> /\ reg.loaded /\ str.loaded
       /\ nextList["static"] = "strtab" /\ nextList["strtab"] = "registry"
       /\ nextList["registry"] = NoList

\* An error that a script met and did not clear is in its lasterror or in the status
\* of the shell; a script that met none and was started without one has none, and
\* nor has the shell while it is the one that runs, but for what its command returned.
FrameKept(f, status) ==
    /\ f.failed /\ ~f.cleared => f.lasterror < EOK \/ status < EOK
    /\ ~f.failed /\ ~f.sticky => f.lasterror = EOK
ErrorsKept ==
    /\ \A i \in 1 .. Len(stack) : FrameKept(stack[i], corshellStatus)
    /\ stack # <<>> /\ ~Top.failed /\ ~Top.sticky =>
          corshellStatus = EOK \/ (pc = "ret" /\ ret < EOK)

ScriptInv == ShellTypes /\ LineTypes /\ ErrorsKept /\ ErrorsAreReported

ShellInv ==
    /\ ScriptInv /\ SubstitutionIsRight
    /\ VolumeTypes /\ ListTypes /\ Links

-----------------------------------------------------------------------------
(***************************************************************************)
(* The lists.                                                              *)
(***************************************************************************)
\* The two volumes have a handler and a list each.
LEMMA BothNames ==
    /\ {"registry", "strtab"} \subseteq Handlers /\ {"registry", "strtab"} \subseteq Lists
    /\ "registry" # "strtab" /\ "registry" # "static" /\ "strtab" # "static"
    /\ "registry" # NoHandler /\ "strtab" # NoHandler
    /\ "registry" # NoList /\ "strtab" # NoList /\ "static" # NoList
    /\ NoList \notin Lists \cup {"static"}
BY NamesAssumption, HandlerAssumption, ListAssumption

\* The walks along the lists may take three steps.
LEMMA BoundsSuffice ==
    /\ Cardinality(Handlers) + 1 \in Nat /\ Cardinality(Handlers) + 1 >= 3
    /\ Cardinality(Lists) + 2 \in Nat /\ Cardinality(Lists) + 2 >= 3
<1> DEFINE P == {"registry", "strtab"}
<1>1. IsFiniteSet({"registry"}) /\ Cardinality({"registry"}) = 1
  BY FS_Singleton
<1>2. P = {"registry"} \cup {"strtab"} /\ "strtab" \notin {"registry"}
  OBVIOUS
<1> HIDE DEF P
<1>3. Cardinality(P) = 2
  BY <1>1, <1>2, FS_AddElement
<1>4. IsFiniteSet(Handlers) /\ P \in SUBSET Handlers
  BY BothNames, HandlerAssumption DEF P
<1>5. Cardinality(Handlers) \in Nat /\ Cardinality(P) <= Cardinality(Handlers)
  BY <1>4, FS_Subset, FS_CardinalityType
<1>6. IsFiniteSet(Lists) /\ P \in SUBSET Lists
  BY BothNames, ListAssumption DEF P
<1>7. Cardinality(Lists) \in Nat /\ Cardinality(P) <= Cardinality(Lists)
  BY <1>6, FS_Subset, FS_CardinalityType
<1>8. QED
  BY <1>3, <1>5, <1>7

\* What the handlers of a token are.
LEMMA HandlerChains ==
    ASSUME ListTypes
    PROVE  /\ Chain("square") = IF reg.loaded THEN <<"registry">> ELSE <<>>
           /\ Chain("angle") = IF inited THEN <<"strtab">> ELSE <<>>
           /\ Chain("percent") = <<>>
<1> DEFINE n == Cardinality(Handlers) + 1
           W(x) == Walk(x, after, NoHandler, n)
<1>1. /\ after \in [Handlers -> Handlers \cup {NoHandler}] /\ NoHandler \notin Handlers
      /\ n \in Nat /\ n >= 3
  BY BoundsSuffice, HandlerAssumption DEF ListTypes
<1> HIDE DEF n
<1>2. /\ W(NoHandler) = <<>>
      /\ \A x \in Handlers : after[x] = NoHandler => W(x) = <<x>>
  BY <1>1, WalkOfShort
<1>3. W("registry") = <<"registry">> /\ W("strtab") = <<"strtab">>
  BY <1>2, BothNames DEF ListTypes
<1>4. \A t \in Tokens : Chain(t) = W(head[t])
  BY DEF Chain, n
<1>5. /\ head["square"] = IF reg.loaded THEN "registry" ELSE NoHandler
      /\ head["angle"] = IF inited THEN "strtab" ELSE NoHandler
      /\ head["percent"] = NoHandler
  BY DEF ListTypes, Tokens
<1>6. {"square", "percent", "angle"} = Tokens
  BY DEF Tokens
<1> HIDE DEF W
<1>7. Chain("square") = IF reg.loaded THEN <<"registry">> ELSE <<>>
  BY <1>2, <1>3, <1>4, <1>5, <1>6
<1>8. Chain("angle") = IF inited THEN <<"strtab">> ELSE <<>>
  BY <1>2, <1>3, <1>4, <1>5, <1>6
<1>9. Chain("percent") = <<>>
  BY <1>2, <1>4, <1>5, <1>6
<1>10. QED
  BY <1>7, <1>8, <1>9

\* No token has two handlers.
LEMMA OneHandlerEach ==
    ASSUME ListTypes
    PROVE  OneHandler
<1>1. /\ head["square"] = IF reg.loaded THEN "registry" ELSE NoHandler
      /\ head["angle"] = IF inited THEN "strtab" ELSE NoHandler
      /\ head["percent"] = NoHandler
  BY DEF ListTypes, Tokens
<1>2. ASSUME NEW t \in Tokens
      PROVE  /\ head[t] = NoHandler => Chain(t) = <<>>
             /\ head[t] # NoHandler => \E h \in Handlers : Chain(t) = <<h>>
  <2>1. CASE t = "square"
    BY <1>1, <2>1, HandlerChains, BothNames
  <2>2. CASE t = "angle"
    BY <1>1, <2>2, HandlerChains, BothNames
  <2>3. CASE t = "percent"
    BY <1>1, <2>3, HandlerChains
  <2>4. QED
    BY <2>1, <2>2, <2>3 DEF Tokens
<1>3. QED
  BY <1>2 DEF OneHandler

\* The lists of commands are linked as they were started.
LEMMA LinkedInOrder ==
    ASSUME ListTypes, Links
    PROVE  ListChain = <<"static">> \o started
<1> DEFINE D == Lists \cup {"static"}
           n == Cardinality(Lists) + 2
           r == "registry"
           s == "strtab"
<1>1. /\ nextList \in [D -> D \cup {NoList}] /\ NoList \notin D /\ n \in Nat /\ n >= 3
      /\ r \in D /\ s \in D /\ "static" \in D
  <2>1. Lists \cup {"static", NoList} = D \cup {NoList}
    OBVIOUS
  <2>2. QED
    BY <2>1, BoundsSuffice, BothNames DEF ListTypes
<1>2. ListChain = Walk("static", nextList, NoList, n)
  BY DEF ListChain
<1> HIDE DEF D, n
<1>3. /\ nextList["static"] = NoList => ListChain = <<"static">>
      /\ \A y \in D : nextList["static"] = y /\ nextList[y] = NoList =>
            ListChain = <<"static", y>>
      /\ \A y \in D, z \in D :
            nextList["static"] = y /\ nextList[y] = z /\ nextList[z] = NoList =>
            ListChain = <<"static", y, z>>
  BY <1>1, <1>2, WalkOfShort
<1>4. /\ <<"static">> \o <<>> = <<"static">>
      /\ <<"static">> \o <<r>> = <<"static", r>>
      /\ <<"static">> \o <<s>> = <<"static", s>>
      /\ <<"static">> \o <<r, s>> = <<"static", r, s>>
      /\ <<"static">> \o <<s, r>> = <<"static", s, r>>
  <2>1. <<"static">> \o <<>> = <<"static">>
    OBVIOUS
  <2>2. QED
    BY <2>1, Joined
<1>5. CASE started = <<>>
  BY <1>3, <1>4, <1>5 DEF Links
<1>6. CASE started = <<r>>
  <2>1. nextList["static"] = r /\ nextList[r] = NoList
    BY <1>6 DEF Links
  <2>2. QED
    BY <1>1, <1>3, <1>4, <1>6, <2>1
<1>7. CASE started = <<s>>
  <2>1. nextList["static"] = s /\ nextList[s] = NoList
    BY <1>7 DEF Links
  <2>2. QED
    BY <1>1, <1>3, <1>4, <1>7, <2>1
<1>8. CASE started = <<r, s>>
  <2>1. nextList["static"] = r /\ nextList[r] = s /\ nextList[s] = NoList
    BY <1>8 DEF Links
  <2>2. QED
    BY <1>1, <1>3, <1>4, <1>8, <2>1
<1>9. CASE started = <<s, r>>
  <2>1. nextList["static"] = s /\ nextList[s] = r /\ nextList[r] = NoList
    BY <1>9 DEF Links
  <2>2. QED
    BY <1>1, <1>3, <1>4, <1>9, <2>1
<1>10. QED
  BY <1>5, <1>6, <1>7, <1>8, <1>9 DEF Links

\* What Append does to the orders there are.
LEMMA Appended ==
    ASSUME NEW x, NEW y
    PROVE  Append(<<>>, y) = <<y>> /\ Append(<<x>>, y) = <<x, y>>
<1>1. <<x>> \in Seq({x, y}) /\ <<>> \in Seq({x, y}) /\ y \in {x, y}
  OBVIOUS
<1>2. Append(<<x>>, y) = <<x>> \o <<y>> /\ Append(<<>>, y) = <<>> \o <<y>>
  BY <1>1, AppendIsConcat
<1>3. <<x>> \o <<y>> = <<x, y>>
  BY Joined
<1>4. <<>> \o <<y>> = <<y>>
  OBVIOUS
<1>5. QED
  BY <1>2, <1>3, <1>4

\* What a list is behind when it is installed, and what a script finds in the shell.
LEMMA LastInChain ==
    ASSUME ListTypes, Links
    PROVE  /\ started = <<>> => Last(ListChain) = "static"
           /\ started = <<"registry">> => Last(ListChain) = "registry"
           /\ started = <<"strtab">> => Last(ListChain) = "strtab"
<1>1. ListChain = <<"static">> \o started
  BY LinkedInOrder
<1>2. /\ <<"static">> \o <<>> = <<"static">>
      /\ <<"static">> \o <<"registry">> = <<"static", "registry">>
      /\ <<"static">> \o <<"strtab">> = <<"static", "strtab">>
  <2>1. <<"static">> \o <<>> = <<"static">>
    OBVIOUS
  <2>2. QED
    BY <2>1, Joined
<1>3. /\ Last(<<"static">>) = "static"
      /\ Last(<<"static", "registry">>) = "registry"
      /\ Last(<<"static", "strtab">>) = "strtab"
  <2>1. /\ Len(<<"static">>) = 1 /\ Len(<<"static", "registry">>) = 2
        /\ Len(<<"static", "strtab">>) = 2
    OBVIOUS
  <2>2. /\ <<"static">>[1] = "static" /\ <<"static", "registry">>[2] = "registry"
        /\ <<"static", "strtab">>[2] = "strtab"
    OBVIOUS
  <2>3. QED
    BY <2>1, <2>2, Zenon DEF Last
<1>4. started = <<>> => ListChain = <<"static">>
  BY <1>1, <1>2
<1>5. started = <<"registry">> => ListChain = <<"static", "registry">>
  BY <1>1, <1>2
<1>6. started = <<"strtab">> => ListChain = <<"static", "strtab">>
  BY <1>1, <1>2
<1>7. QED
  BY <1>3, <1>4, <1>5, <1>6, Zenon

\* registry_start links the list of commands behind the last, and the handler in front.
LEMMA RegistryStartLinks ==
    ASSUME VolumeTypes, ListTypes, Links, RegistryStart
    PROVE  ListTypes' /\ Links'
<1>1. /\ ~reg.loaded /\ reg'.loaded /\ str' = str /\ inited' = inited
      /\ started' = Append(started, "registry")
      /\ nextList' = [nextList EXCEPT !["registry"] = NoList,
                                      ![Last(ListChain)] = "registry"]
      /\ after' = [after EXCEPT !["registry"] = head["square"]]
      /\ head' = [head EXCEPT !["square"] = "registry"]
  BY DEF RegistryStart, VolumeTypes, InstallHandler, InstallList
<1>2. head["square"] = NoHandler
  BY <1>1 DEF ListTypes, Tokens
<1>3. started = <<>> \/ started = <<"strtab">>
  BY <1>1 DEF Links
<1>4. Last(ListChain) \in {"static", "strtab"}
  BY <1>3, LastInChain
<1>5. ListTypes'
  <2>1. after' \in [Handlers -> Handlers \cup {NoHandler}]
    BY <1>1, <1>2 DEF ListTypes
  <2>2. after'["registry"] = NoHandler /\ after'["strtab"] = NoHandler
    BY <1>1, <1>2, BothNames DEF ListTypes
  <2>3. head' = [t \in Tokens |->
                   IF t = "square" /\ reg'.loaded THEN "registry"
                   ELSE IF t = "angle" /\ inited' THEN "strtab" ELSE NoHandler]
    BY <1>1 DEF ListTypes, Tokens
  <2>4. nextList' \in [Lists \cup {"static"} -> Lists \cup {"static", NoList}]
    BY <1>1, <1>4, BothNames DEF ListTypes
  <2>5. QED
    BY <1>1, <2>1, <2>2, <2>3, <2>4 DEF ListTypes
<1>6. Links'
  <2>1. nextList \in [Lists \cup {"static"} -> Lists \cup {"static", NoList}]
    BY DEF ListTypes
  <2>2. CASE started = <<>>
    <3>1. Last(ListChain) = "static" /\ started' = <<"registry">> /\ ~str.loaded
      BY <1>1, <2>2, LastInChain DEF Links
    <3>2. nextList'["static"] = "registry" /\ nextList'["registry"] = NoList
      BY <1>1, <2>1, <3>1, BothNames
    <3>3. QED
      BY <1>1, <3>1, <3>2 DEF Links
  <2>3. CASE started = <<"strtab">>
    <3>1. /\ Last(ListChain) = "strtab" /\ started' = <<"strtab", "registry">>
          /\ str.loaded /\ nextList["static"] = "strtab"
      <4>1. Last(ListChain) = "strtab"
        BY <2>3, LastInChain
      <4>2. started' = <<"strtab", "registry">>
        BY <1>1, <2>3, Appended
      <4>3. str.loaded /\ nextList["static"] = "strtab"
        <5>1. /\ <<"strtab">> # <<>> /\ <<"strtab">> # <<"registry">>
              /\ <<"strtab">> # <<"registry", "strtab">>
              /\ <<"strtab">> # <<"strtab", "registry">>
          OBVIOUS
        <5>2. QED
          BY <2>3, <5>1, Zenon DEF Links
      <4>4. QED
        BY <4>1, <4>2, <4>3
    <3>2. /\ nextList'["static"] = "strtab" /\ nextList'["strtab"] = "registry"
          /\ nextList'["registry"] = NoList
      BY <1>1, <2>1, <3>1, BothNames
    <3>3. QED
      BY <1>1, <3>1, <3>2 DEF Links
  <2>4. QED
    BY <1>3, <2>2, <2>3
<1>7. QED
  BY <1>5, <1>6

\* strtab_start links the list of commands.
LEMMA StrtabStartLinks ==
    ASSUME VolumeTypes, ListTypes, Links, StrtabStart
    PROVE  ListTypes' /\ Links'
<1>1. /\ ~str.loaded /\ str'.loaded /\ reg' = reg /\ inited' = inited
      /\ started' = Append(started, "strtab")
      /\ nextList' = [nextList EXCEPT !["strtab"] = NoList,
                                      ![Last(ListChain)] = "strtab"]
      /\ after' = after /\ head' = head
  BY DEF StrtabStart, VolumeTypes, InstallList, strsubVars
<1>2. started = <<>> \/ started = <<"registry">>
  BY <1>1 DEF Links
<1>3. Last(ListChain) \in {"static", "registry"}
  BY <1>2, LastInChain
<1>4. ListTypes'
  <2>1. nextList' \in [Lists \cup {"static"} -> Lists \cup {"static", NoList}]
    BY <1>1, <1>3, BothNames DEF ListTypes
  <2>2. QED
    BY <1>1, <2>1 DEF ListTypes
<1>5. Links'
  <2>1. nextList \in [Lists \cup {"static"} -> Lists \cup {"static", NoList}]
    BY DEF ListTypes
  <2>2. CASE started = <<>>
    <3>1. Last(ListChain) = "static" /\ started' = <<"strtab">> /\ ~reg.loaded
      BY <1>1, <2>2, LastInChain DEF Links
    <3>2. nextList'["static"] = "strtab" /\ nextList'["strtab"] = NoList
      BY <1>1, <2>1, <3>1, BothNames
    <3>3. QED
      BY <1>1, <3>1, <3>2 DEF Links
  <2>3. CASE started = <<"registry">>
    <3>1. /\ Last(ListChain) = "registry" /\ started' = <<"registry", "strtab">>
          /\ reg.loaded /\ nextList["static"] = "registry"
      <4>1. Last(ListChain) = "registry"
        BY <2>3, LastInChain
      <4>2. started' = <<"registry", "strtab">>
        BY <1>1, <2>3, Appended
      <4>3. reg.loaded /\ nextList["static"] = "registry"
        <5>1. /\ <<"registry">> # <<>> /\ <<"registry">> # <<"strtab">>
              /\ <<"registry">> # <<"registry", "strtab">>
              /\ <<"registry">> # <<"strtab", "registry">>
          OBVIOUS
        <5>2. QED
          BY <2>3, <5>1, Zenon DEF Links
      <4>4. QED
        BY <4>1, <4>2, <4>3
    <3>2. /\ nextList'["static"] = "registry" /\ nextList'["registry"] = "strtab"
          /\ nextList'["strtab"] = NoList
      BY <1>1, <2>1, <3>1, BothNames
    <3>3. QED
      BY <1>1, <3>1, <3>2 DEF Links
  <2>4. QED
    BY <1>2, <2>2, <2>3
<1>6. QED
  BY <1>4, <1>5

\* strtab_init links the handler.
LEMMA StrtabInitLinks ==
    ASSUME ListTypes, Links, StrtabInit
    PROVE  ListTypes' /\ Links'
<1>1. /\ ~inited /\ inited' /\ inited' \in BOOLEAN /\ reg' = reg /\ str' = str
      /\ started' = started /\ nextList' = nextList
      /\ after' = [after EXCEPT !["strtab"] = head["angle"]]
      /\ head' = [head EXCEPT !["angle"] = "strtab"]
  BY DEF StrtabInit, InstallHandler, shellVars
<1>2. head["angle"] = NoHandler
  BY <1>1 DEF ListTypes, Tokens
<1>3. /\ after' \in [Handlers -> Handlers \cup {NoHandler}]
      /\ after'["registry"] = NoHandler /\ after'["strtab"] = NoHandler
  BY <1>1, <1>2, BothNames DEF ListTypes
<1>4. head' = [t \in Tokens |->
                 IF t = "square" /\ reg'.loaded THEN "registry"
                 ELSE IF t = "angle" /\ inited' THEN "strtab" ELSE NoHandler]
  BY <1>1 DEF ListTypes, Tokens
<1>5. ListTypes'
  BY <1>1, <1>3, <1>4 DEF ListTypes
<1>6. Links'
  BY <1>1 DEF Links
<1>7. QED
  BY <1>5, <1>6

\* A sequence of one element.
LEMMA OneLong ==
    ASSUME NEW A, NEW w \in Seq(A), Len(w) = 1
    PROVE  w = <<w[1]>>
<1> DEFINE u == <<w[1]>>
<1>1. w[1] \in A /\ u \in Seq(A) /\ Len(u) = 1 /\ u[1] = w[1]
  OBVIOUS
<1> HIDE DEF u
<1>2. \A i \in 1 .. Len(w) : w[i] = u[i]
  BY <1>1
<1>3. w = u
  BY <1>1, <1>2, SeqEqual
<1>4. QED
  BY <1>3 DEF u

\* What is left of the orders there are when one is taken out.
LEMMA StoppedLists ==
    ASSUME NEW l, NEW m, l # m
    PROVE  /\ started = <<l>> => Stopped(l) = <<>>
           /\ started = <<l, m>> => Stopped(l) = <<m>>
           /\ started = <<m, l>> => Stopped(l) = <<m>>
<1> DEFINE i == CHOOSE k \in DOMAIN started : started[k] = l
           A == {l, m}
<1>1. Stopped(l) = SubSeq(started, 1, i - 1) \o SubSeq(started, i + 1, Len(started))
  BY DEF Stopped, RemoveAt
<1>2. ASSUME started = <<l>> PROVE Stopped(l) = <<>>
  <2>1. DOMAIN started = {1} /\ started[1] = l /\ Len(started) = 1
    BY <1>2
  <2>2. i = 1
    BY <2>1
  <2>3. SubSeq(started, 1, 0) = <<>> /\ SubSeq(started, 2, 1) = <<>>
    BY <1>2
  <2>4. <<>> \o <<>> = <<>>
    OBVIOUS
  <2> HIDE DEF i
  <2>5. i - 1 = 0 /\ i + 1 = 2
    BY <2>2
  <2>6. QED
    BY <1>1, <2>1, <2>3, <2>4, <2>5
<1>3. ASSUME started = <<l, m>> PROVE Stopped(l) = <<m>>
  <2>1. DOMAIN started = {1, 2} /\ started[1] = l /\ started[2] = m /\ Len(started) = 2
    BY <1>3
  <2>2. i = 1
    BY <2>1
  <2>3. started \in Seq(A)
    BY <1>3
  <2>4. SubSeq(started, 1, 0) = <<>>
    BY <2>3
  <2>5. SubSeq(started, 2, 2) = <<m>>
    <3> DEFINE w == SubSeq(started, 2, 2)
    <3>1. w \in Seq(A) /\ Len(w) = 1 /\ w[1] = m
      BY <2>1, <2>3
    <3> HIDE DEF w, A
    <3>2. w = <<w[1]>>
      BY <3>1, OneLong
    <3>3. QED
      BY <3>1, <3>2 DEF w
  <2>6. <<>> \o <<m>> = <<m>>
    OBVIOUS
  <2> HIDE DEF i
  <2>7. i - 1 = 0 /\ i + 1 = 2
    BY <2>2
  <2>8. QED
    BY <1>1, <2>1, <2>4, <2>5, <2>6, <2>7
<1>4. ASSUME started = <<m, l>> PROVE Stopped(l) = <<m>>
  <2>1. DOMAIN started = {1, 2} /\ started[1] = m /\ started[2] = l /\ Len(started) = 2
    BY <1>4
  <2>2. i = 2
    BY <2>1
  <2>3. started \in Seq(A)
    BY <1>4
  <2>4. SubSeq(started, 1, 1) = <<m>>
    <3> DEFINE w == SubSeq(started, 1, 1)
    <3>1. w \in Seq(A) /\ Len(w) = 1 /\ w[1] = m
      BY <2>1, <2>3
    <3> HIDE DEF w, A
    <3>2. w = <<w[1]>>
      BY <3>1, OneLong
    <3>3. QED
      BY <3>1, <3>2 DEF w
  <2>5. SubSeq(started, 3, 2) = <<>>
    BY <2>3
  <2>6. <<m>> \o <<>> = <<m>>
    OBVIOUS
  <2> HIDE DEF i
  <2>7. i - 1 = 1 /\ i + 1 = 3
    BY <2>2
  <2>8. QED
    BY <1>1, <2>1, <2>4, <2>5, <2>6, <2>7
<1>5. QED
  BY <1>2, <1>3, <1>4

\* The lists that are linked.
LEMMA InChain ==
    ASSUME ListTypes, Links
    PROVE  ToSet(ListChain) = {"static"} \cup ToSet(started)
<1>1. ListChain = <<"static">> \o started
  BY LinkedInOrder
<1> DEFINE A == {"static", "registry", "strtab"}
<1>2. started \in Seq(A)
  <2>1. /\ <<>> \in Seq(A) /\ <<"registry">> \in Seq(A) /\ <<"strtab">> \in Seq(A)
        /\ <<"registry", "strtab">> \in Seq(A) /\ <<"strtab", "registry">> \in Seq(A)
    OBVIOUS
  <2> HIDE DEF A
  <2>2. QED
    BY <2>1, Zenon DEF Links
<1>3. <<"static">> \in Seq(A)
  OBVIOUS
<1>4. /\ DOMAIN ListChain = 1 .. Len(started) + 1 /\ DOMAIN started = 1 .. Len(started)
      /\ Len(started) \in Nat
      /\ ListChain[1] = "static"
      /\ \A i \in 1 .. Len(started) : ListChain[i + 1] = started[i]
  <2> DEFINE u == <<"static">>
  <2>1. u \in Seq(A) /\ Len(u) = 1 /\ u[1] = "static"
    OBVIOUS
  <2> HIDE DEF u, A
  <2>2. /\ Len(u \o started) = Len(u) + Len(started)
        /\ \A i \in 1 .. Len(u) + Len(started) :
              (u \o started)[i] = IF i <= Len(u) THEN u[i] ELSE started[i - Len(u)]
        /\ u \o started \in Seq(A)
    BY <1>2, <2>1, ConcatProperties
  <2>3. Len(started) \in Nat /\ DOMAIN started = 1 .. Len(started)
    BY <1>2, LenProperties
  <2>4. ListChain = u \o started
    BY <1>1 DEF u
  <2>5. DOMAIN ListChain = 1 .. Len(started) + 1
    BY <2>1, <2>2, <2>3, <2>4, LenProperties
  <2>6. ListChain[1] = "static"
    BY <2>1, <2>2, <2>3, <2>4
  <2>7. ASSUME NEW i \in 1 .. Len(started) PROVE ListChain[i + 1] = started[i]
    <3>1. i + 1 \in 1 .. Len(u) + Len(started) /\ ~(i + 1 <= Len(u)) /\ (i + 1) - Len(u) = i
      BY <2>1, <2>3
    <3>2. QED
      BY <2>2, <2>4, <3>1
  <2>8. QED
    BY <2>3, <2>5, <2>6, <2>7
<1> HIDE DEF A
<1>5. ASSUME NEW x \in ToSet(ListChain) PROVE x \in {"static"} \cup ToSet(started)
  <2>1. PICK i \in 1 .. Len(started) + 1 : x = ListChain[i]
    BY <1>4, <1>5 DEF ToSet
  <2>2. CASE i = 1
    BY <1>4, <2>1, <2>2
  <2>3. CASE i # 1
    <3>1. i - 1 \in 1 .. Len(started) /\ (i - 1) + 1 = i
      BY <1>4, <2>3
    <3>2. x = started[i - 1] /\ i - 1 \in DOMAIN started
      BY <1>4, <2>1, <3>1
    <3>3. QED
      BY <3>2 DEF ToSet
  <2>4. QED
    BY <2>2, <2>3
<1>6. ASSUME NEW x \in {"static"} \cup ToSet(started) PROVE x \in ToSet(ListChain)
  <2>1. CASE x = "static"
    BY <1>4, <2>1 DEF ToSet
  <2>2. CASE x \in ToSet(started)
    <3>1. PICK i \in DOMAIN started : x = started[i]
      BY <2>2 DEF ToSet
    <3>2. i + 1 \in DOMAIN ListChain /\ ListChain[i + 1] = x
      BY <1>4, <3>1
    <3>3. QED
      BY <3>2 DEF ToSet
  <2>3. QED
    BY <1>6, <2>1, <2>2
<1>7. QED
  BY <1>5, <1>6

\* The orders in which the two may have been started differ.
LEMMA TupleNames ==
    LET r == "registry" s == "strtab"
    IN  /\ <<r>> # <<>> /\ <<s>> # <<>> /\ <<r>> # <<s>> /\ <<r, s>> # <<>>
        /\ <<s, r>> # <<>> /\ <<r, s>> # <<r>> /\ <<r, s>> # <<s>>
        /\ <<s, r>> # <<r>> /\ <<s, r>> # <<s>> /\ <<r, s>> # <<s, r>>
OBVIOUS

\* registry_stop takes out the handler and the list, wherever it is linked.
LEMMA RegistryStopLinks ==
    ASSUME VolumeTypes, ListTypes, Links, RegistryStop
    PROVE  ListTypes' /\ Links'
<1>1. /\ reg.loaded /\ ~reg'.loaded /\ reg'.loaded = FALSE /\ str' = str
      /\ inited' = inited /\ started' = Stopped("registry")
      /\ UninstallList("registry")
  BY DEF RegistryStop, VolumeTypes
<1>2. /\ after' \in [Handlers -> Handlers \cup {NoHandler}]
      /\ after'["registry"] = NoHandler /\ after'["strtab"] = NoHandler
      /\ head' = [t \in Tokens |->
                    IF t = "square" /\ reg'.loaded THEN "registry"
                    ELSE IF t = "angle" /\ inited' THEN "strtab" ELSE NoHandler]
  <2>1. head["square"] = "registry" /\ after["registry"] = NoHandler
    BY <1>1 DEF ListTypes, Tokens
  <2>2. after' = after /\ head' = [head EXCEPT !["square"] = after["registry"]]
    BY <2>1 DEF RegistryStop, UninstallHandler
  <2>3. after' \in [Handlers -> Handlers \cup {NoHandler}]
        /\ after'["registry"] = NoHandler /\ after'["strtab"] = NoHandler
    BY <2>2 DEF ListTypes
  <2>4. head' = [t \in Tokens |->
                    IF t = "square" /\ reg'.loaded THEN "registry"
                    ELSE IF t = "angle" /\ inited' THEN "strtab" ELSE NoHandler]
    BY <1>1, <2>1, <2>2 DEF ListTypes, Tokens
  <2>5. QED
    BY <2>3, <2>4
<1>3. \A x \in Lists \cup {"static"} :
         nextList'[x] = IF nextList[x] = "registry" /\ x \in ToSet(ListChain)
                        THEN nextList["registry"] ELSE nextList[x]
  BY <1>1 DEF UninstallList, ListTypes
<1>4. nextList' \in [Lists \cup {"static"} -> Lists \cup {"static", NoList}]
  <2>1. DOMAIN nextList = Lists \cup {"static"} /\ "registry" \in Lists
    BY BothNames DEF ListTypes
  <2>2. \A x \in Lists \cup {"static"} : nextList[x] \in Lists \cup {"static", NoList}
    BY DEF ListTypes
  <2>3. QED
    BY <1>1, <2>1, <2>2 DEF UninstallList
<1>5. ListTypes'
  BY <1>1, <1>2, <1>4 DEF ListTypes
<1>6. ToSet(ListChain) = {"static"} \cup ToSet(started)
  BY InChain
<1>7. Links'
  <2>1. CASE started = <<"registry">>
    <3>1. ~str.loaded /\ nextList["static"] = "registry" /\ nextList["registry"] = NoList
      BY <2>1, Zenon, TupleNames DEF Links
    <3>2. started' = <<>>
      BY <1>1, <2>1, StoppedLists, BothNames
    <3>3. nextList'["static"] = NoList
      BY <1>3, <1>6, <3>1
    <3>4. QED
      BY <1>1, <3>1, <3>2, <3>3 DEF Links
  <2>2. CASE started = <<"registry", "strtab">>
    <3>1. /\ str.loaded /\ nextList["static"] = "registry" /\ nextList["registry"] = "strtab"
          /\ nextList["strtab"] = NoList
      BY <2>2, Zenon, TupleNames DEF Links
    <3>2. started' = <<"strtab">>
      BY <1>1, <2>2, StoppedLists, BothNames
    <3>3. nextList'["static"] = "strtab" /\ nextList'["strtab"] = NoList
      BY <1>3, <1>6, <3>1, BothNames
    <3>4. QED
      BY <1>1, <3>1, <3>2, <3>3 DEF Links
  <2>3. CASE started = <<"strtab", "registry">>
    <3>1. /\ str.loaded /\ nextList["static"] = "strtab" /\ nextList["strtab"] = "registry"
          /\ nextList["registry"] = NoList
      BY <2>3, Zenon, TupleNames DEF Links
    <3>2. started' = <<"strtab">>
      BY <1>1, <2>3, StoppedLists, BothNames
    <3>3. "strtab" \in ToSet(started)
      <4>1. 1 \in DOMAIN started /\ started[1] = "strtab"
        BY <2>3
      <4>2. QED
        BY <4>1 DEF ToSet
    <3>4. nextList'["static"] = "strtab" /\ nextList'["strtab"] = NoList
      BY <1>3, <1>6, <3>1, <3>3, BothNames
    <3>5. QED
      BY <1>1, <3>1, <3>2, <3>4 DEF Links
  <2>4. QED
    BY <1>1, <2>1, <2>2, <2>3 DEF Links
<1>8. QED
  BY <1>5, <1>7

\* strtab_stop takes out the list, wherever it is linked.
LEMMA StrtabStopLinks ==
    ASSUME VolumeTypes, ListTypes, Links, StrtabStop
    PROVE  ListTypes' /\ Links'
<1>1. /\ str.loaded /\ ~str'.loaded /\ str'.loaded = FALSE /\ reg' = reg
      /\ inited' = inited /\ started' = Stopped("strtab")
      /\ UninstallList("strtab")
  BY DEF StrtabStop, VolumeTypes
<1>2. /\ after' \in [Handlers -> Handlers \cup {NoHandler}]
      /\ after'["registry"] = NoHandler /\ after'["strtab"] = NoHandler
      /\ head' = [t \in Tokens |->
                    IF t = "square" /\ reg'.loaded THEN "registry"
                    ELSE IF t = "angle" /\ inited' THEN "strtab" ELSE NoHandler]
  BY <1>1 DEF StrtabStop, strsubVars, ListTypes
<1>3. \A x \in Lists \cup {"static"} :
         nextList'[x] = IF nextList[x] = "strtab" /\ x \in ToSet(ListChain)
                        THEN nextList["strtab"] ELSE nextList[x]
  BY <1>1 DEF UninstallList, ListTypes
<1>4. nextList' \in [Lists \cup {"static"} -> Lists \cup {"static", NoList}]
  <2>1. DOMAIN nextList = Lists \cup {"static"} /\ "strtab" \in Lists
    BY BothNames DEF ListTypes
  <2>2. \A x \in Lists \cup {"static"} : nextList[x] \in Lists \cup {"static", NoList}
    BY DEF ListTypes
  <2>3. QED
    BY <1>1, <2>1, <2>2 DEF UninstallList
<1>5. ListTypes'
  BY <1>1, <1>2, <1>4 DEF ListTypes
<1>6. ToSet(ListChain) = {"static"} \cup ToSet(started)
  BY InChain
<1>7. Links'
  <2>1. CASE started = <<"strtab">>
    <3>1. ~reg.loaded /\ nextList["static"] = "strtab" /\ nextList["strtab"] = NoList
      BY <2>1, Zenon, TupleNames DEF Links
    <3>2. started' = <<>>
      BY <1>1, <2>1, StoppedLists, BothNames
    <3>3. nextList'["static"] = NoList
      BY <1>3, <1>6, <3>1
    <3>4. QED
      BY <1>1, <3>1, <3>2, <3>3 DEF Links
  <2>2. CASE started = <<"strtab", "registry">>
    <3>1. /\ reg.loaded /\ nextList["static"] = "strtab" /\ nextList["strtab"] = "registry"
          /\ nextList["registry"] = NoList
      BY <2>2, Zenon, TupleNames DEF Links
    <3>2. started' = <<"registry">>
      BY <1>1, <2>2, StoppedLists, BothNames
    <3>3. nextList'["static"] = "registry" /\ nextList'["registry"] = NoList
      BY <1>3, <1>6, <3>1, BothNames
    <3>4. QED
      BY <1>1, <3>1, <3>2, <3>3 DEF Links
  <2>3. CASE started = <<"registry", "strtab">>
    <3>1. /\ reg.loaded /\ nextList["static"] = "registry" /\ nextList["registry"] = "strtab"
          /\ nextList["strtab"] = NoList
      BY <2>3, Zenon, TupleNames DEF Links
    <3>2. started' = <<"registry">>
      BY <1>1, <2>3, StoppedLists, BothNames
    <3>3. "registry" \in ToSet(started)
      <4>1. 1 \in DOMAIN started /\ started[1] = "registry"
        BY <2>3
      <4>2. QED
        BY <4>1 DEF ToSet
    <3>4. nextList'["static"] = "registry" /\ nextList'["registry"] = NoList
      BY <1>3, <1>6, <3>1, <3>3, BothNames
    <3>5. QED
      BY <1>1, <3>1, <3>2, <3>4 DEF Links
  <2>4. QED
    BY <1>1, <2>1, <2>2, <2>3 DEF Links
<1>8. QED
  BY <1>5, <1>7

-----------------------------------------------------------------------------
(***************************************************************************)
(* Steps of a script.                                                      *)
(***************************************************************************)
LEMMA Limits == LineMax \in Nat /\ SubMax \in Nat \ {0} /\ ArgMax \in Nat
BY LimitsAssumption

\* The line is done with, or there is none.
LEMMA NoLineTypes ==
    ASSUME NoLine
    PROVE  LineTypes'
<1>1. /\ <<>> \in Seq(Chars) /\ <<>> \in Seq(Seq(Plain)) /\ Len(<<>>) = 0
  OBVIOUS
<1>2. 0 <= LineMax /\ 0 < SubMax /\ 0 <= ArgMax
  BY Limits
<1>3. line' = <<>> /\ text' = <<>> /\ argv' = <<>>
  BY DEF NoLine
<1>4. QED
  BY <1>1, <1>2, <1>3 DEF LineTypes

\* Outside of a command there is no line.
LEMMA LineStaysEmpty ==
    ASSUME LineTypes, pc # "run", UNCHANGED <<line, text, argv>>
    PROVE  LineTypes'
BY DEF LineTypes

\* What is left of a script after a line.
LEMMA AfterLineText ==
    ASSUME NEW rest \in Seq(Chars)
    PROVE  AfterLine(rest) \in Seq(Chars)
<1> DEFINE more == {i \in DOMAIN rest : rest[i] # "nl"}
           m == Min(more)
<1>1. AfterLine(rest) = IF more = {} THEN <<>> ELSE SubSeq(rest, m, Len(rest))
  BY DEF AfterLine
<1>2. CASE more = {}
  BY <1>1, <1>2
<1>3. CASE more # {}
  <2>1. DOMAIN rest = 1 .. Len(rest) /\ Len(rest) \in Nat
    BY LenProperties
  <2>2. more \in SUBSET Nat /\ more \subseteq 1 .. Len(rest)
    BY <2>1
  <2>3. m \in more
    BY <1>3, <2>2, MinOfNat
  <2> HIDE DEF more, m
  <2>4. m \in 1 .. Len(rest)
    BY <2>2, <2>3
  <2>5. SubSeq(rest, m, Len(rest)) \in Seq(Chars)
    BY <2>1, <2>4
  <2>6. QED
    BY <1>1, <1>3, <2>5
<1>4. QED
  BY <1>2, <1>3

\* While a script is under way it has a frame.
LEMMA TopFrame ==
    ASSUME ShellTypes, pc # "idle"
    PROVE  Len(stack) \in Nat \ {0} /\ Top \in Frames /\ Len(stack) \in 1 .. Len(stack)
<1>1. stack \in Seq(Frames) /\ stack # <<>>
  BY DEF ShellTypes
<1>2. Len(stack) \in Nat /\ Len(stack) # 0
  BY <1>1, EmptySeq, LenProperties
<1>3. QED
  BY <1>1, <1>2 DEF Top

\* The last script of the stack comes to another frame.
LEMMA TopChanges ==
    ASSUME ShellTypes, pc # "idle", NEW f \in Frames, stack' = SetTop(f)
    PROVE  /\ stack' \in Seq(Frames) /\ stack' # <<>> /\ Len(stack') = Len(stack)
           /\ Top' = f
           /\ \A i \in 1 .. Len(stack) : i # Len(stack) => stack'[i] = stack[i]
<1> DEFINE n == Len(stack)
<1>1. stack \in Seq(Frames) /\ n \in Nat \ {0} /\ stack' = [stack EXCEPT ![n] = f]
  BY TopFrame DEF ShellTypes, SetTop
<1>2. stack' \in Seq(Frames) /\ Len(stack') = n
  BY <1>1, ExceptSeq
<1>3. stack'[n] = f /\ \A i \in 1 .. n : i # n => stack'[i] = stack[i]
  BY <1>1
<1>4. stack' # <<>>
  BY <1>1, <1>2
<1> HIDE DEF n
<1>5. Top' = f
  BY <1>2, <1>3 DEF Top, n
<1>6. QED
  BY <1>2, <1>3, <1>4, <1>5 DEF n

\* The script goes on with its next line.
LEMMA NextLineKeeps ==
    ASSUME ScriptInv, pc # "idle", NEW f \in Frames, NextLine(f), LineTypes',
           FrameKept(f, corshellStatus), ret' \in Int,
           ~f.failed /\ ~f.sticky => corshellStatus = EOK,
           corshellStatus' = corshellStatus, ended' = ended \/ ended' = NotEnded
    PROVE  ScriptInv' /\ SubstitutionIsRight'
<1> DEFINE g == [f EXCEPT !.rest = AfterLine(f.rest)]
<1>1. ShellTypes
  BY DEF ScriptInv
<1>2. AfterLine(f.rest) \in Seq(Chars)
  BY AfterLineText DEF Frames
<1>3. /\ g \in Frames /\ g.failed = f.failed /\ g.cleared = f.cleared
      /\ g.sticky = f.sticky /\ g.lasterror = f.lasterror
  BY <1>2 DEF Frames
<1>4. stack' = SetTop(g) /\ pc' \in {"end", "fetch"}
  BY DEF NextLine
<1> HIDE DEF g
<1>5. /\ stack' \in Seq(Frames) /\ stack' # <<>> /\ Len(stack') = Len(stack)
      /\ Top' = g /\ \A i \in 1 .. Len(stack) : i # Len(stack) => stack'[i] = stack[i]
  BY <1>1, <1>3, <1>4, TopChanges
<1>6. ended' \in [res : Int, failed : BOOLEAN, cleared : BOOLEAN, sticky : BOOLEAN,
                  some : BOOLEAN]
  <2> DEFINE R == [res : Int, failed : BOOLEAN, cleared : BOOLEAN, sticky : BOOLEAN,
                   some : BOOLEAN]
  <2>1. ended \in R
    BY <1>1 DEF ShellTypes
  <2>2. NotEnded \in R
    BY DEF NotEnded
  <2> HIDE DEF R
  <2>3. ended' \in R
    BY <2>1, <2>2
  <2>4. QED
    BY <2>3 DEF R
<1>7. ShellTypes'
  BY <1>1, <1>4, <1>5, <1>6 DEF ShellTypes
<1>8. FrameKept(g, corshellStatus')
  BY <1>3 DEF FrameKept
<1>9. \A i \in 1 .. Len(stack') : FrameKept(stack'[i], corshellStatus')
  <2>1. \A i \in 1 .. Len(stack) : FrameKept(stack[i], corshellStatus)
    BY DEF ScriptInv, ErrorsKept
  <2>2. ASSUME NEW i \in 1 .. Len(stack') PROVE FrameKept(stack'[i], corshellStatus')
    <3>1. CASE i = Len(stack')
      <4>1. stack'[i] = g
        BY <1>5, <3>1 DEF Top
      <4>2. QED
        BY <1>8, <4>1
    <3>2. CASE i # Len(stack')
      BY <1>5, <2>1, <2>2, <3>2
    <3>3. QED
      BY <3>1, <3>2
  <2>3. QED
    BY <2>2
<1>10. ~Top'.failed /\ ~Top'.sticky => corshellStatus' = EOK
  BY <1>3, <1>5
<1>11. ErrorsKept'
  BY <1>9, <1>10 DEF ErrorsKept
<1>12. ErrorsAreReported'
  BY DEF ScriptInv, ErrorsAreReported, NotEnded
<1>13. SubstitutionIsRight'
  BY <1>4 DEF SubstitutionIsRight
<1>14. QED
  BY <1>7, <1>11, <1>12, <1>13 DEF ScriptInv

\* The scripts under way stay, and no line is left behind.
LEMMA StackKeeps ==
    ASSUME ScriptInv, stack' = stack, corshellStatus' = corshellStatus, ended' = ended,
           ret' \in Int, pc' \in {"idle", "fetch", "ret", "end"}, (pc' = "idle") = (pc = "idle"),
           pc = "ret" => pc' = "ret" /\ ret' = ret, LineTypes'
    PROVE  ScriptInv' /\ SubstitutionIsRight'
<1>1. ShellTypes'
  BY DEF ScriptInv, ShellTypes
<1>2. ErrorsKept'
  BY DEF ScriptInv, ErrorsKept, Top
<1>3. ErrorsAreReported'
  BY DEF ScriptInv, ErrorsAreReported
<1>4. SubstitutionIsRight'
  BY DEF SubstitutionIsRight
<1>5. QED
  BY <1>1, <1>2, <1>3, <1>4 DEF ScriptInv

\* A command that returns.
LEMMA ReturnsKeeps ==
    ASSUME ScriptInv, pc = "run", NEW res \in Int, Returns(res)
    PROVE  ScriptInv' /\ SubstitutionIsRight'
<1>1. LineTypes'
  BY NoLineTypes DEF Returns
<1>2. QED
  BY <1>1, StackKeeps DEF Returns

\* :exit.
LEMMA ScriptExitKeeps ==
    ASSUME ScriptInv, ScriptExit
    PROVE  ScriptInv' /\ SubstitutionIsRight'
<1>1. LineTypes'
  BY NoLineTypes DEF ScriptExit
<1>2. pc = "run" /\ ret' = ret /\ ret \in Int
  BY DEF ScriptExit, Directive, ScriptInv, ShellTypes
<1>3. QED
  BY <1>1, <1>2, StackKeeps DEF ScriptExit

\* What is known of the script that runs.
LEMMA TopKept ==
    ASSUME ScriptInv, pc # "idle"
    PROVE  /\ Top \in Frames /\ FrameKept(Top, corshellStatus)
           /\ pc # "ret" => (~Top.failed /\ ~Top.sticky => corshellStatus = EOK)
           /\ ~Top.failed /\ ~Top.sticky /\ ret >= EOK => corshellStatus = EOK
<1>1. ShellTypes /\ ErrorsKept
  BY DEF ScriptInv
<1>2. Top \in Frames /\ Len(stack) \in 1 .. Len(stack) /\ stack # <<>>
  BY <1>1, TopFrame DEF ShellTypes
<1>3. FrameKept(Top, corshellStatus)
  BY <1>1, <1>2 DEF ErrorsKept, Top
<1>4. ~Top.failed /\ ~Top.sticky => corshellStatus = EOK \/ (pc = "ret" /\ ret < EOK)
  BY <1>1, <1>2 DEF ErrorsKept
<1>5. ret \in Int
  BY <1>1 DEF ShellTypes
<1>6. QED
  BY <1>2, <1>3, <1>4, <1>5 DEF EOK

\* A line that is passed over.
LEMMA LinePassedKeeps ==
    ASSUME ScriptInv, pc = "run", NextLine(Top), NoLine,
           UNCHANGED <<nextList, ret, corshellStatus, ended>>
    PROVE  ScriptInv' /\ SubstitutionIsRight'
<1>1. LineTypes'
  BY NoLineTypes
<1>2. ret' \in Int
  BY DEF ScriptInv, ShellTypes
<1>3. Top \in Frames /\ FrameKept(Top, corshellStatus)
      /\ (~Top.failed /\ ~Top.sticky => corshellStatus = EOK)
  BY TopKept
<1>4. QED
  BY <1>1, <1>2, <1>3, NextLineKeeps

\* :onerror.
LEMMA OnErrorKeeps ==
    ASSUME ScriptInv, OnError
    PROVE  ScriptInv' /\ SubstitutionIsRight'
<1>1. pc = "run" /\ UNCHANGED <<nextList, ret, corshellStatus, ended>>
  BY DEF OnError, Directive
<1>2. LineTypes'
  BY NoLineTypes DEF OnError
<1>3. PICK es \in {"inHandler", "inError"} : NextLine([Top EXCEPT !.estate = es])
  BY DEF OnError
<1> DEFINE f == [Top EXCEPT !.estate = es]
<1>4. Top \in Frames /\ FrameKept(Top, corshellStatus)
      /\ (~Top.failed /\ ~Top.sticky => corshellStatus = EOK)
  BY <1>1, TopKept
<1>5. /\ f \in Frames /\ f.failed = Top.failed /\ f.sticky = Top.sticky
      /\ f.cleared = Top.cleared /\ f.lasterror = Top.lasterror
  BY <1>4 DEF Frames
<1> HIDE DEF f
<1>6. FrameKept(f, corshellStatus) /\ (~f.failed /\ ~f.sticky => corshellStatus = EOK)
  BY <1>4, <1>5 DEF FrameKept
<1>7. ret' \in Int
  BY <1>1 DEF ScriptInv, ShellTypes
<1>8. NextLine(f)
  BY <1>3 DEF f
<1>9. QED
  BY <1>1, <1>2, <1>5, <1>6, <1>7, <1>8, NextLineKeeps

\* :clearerror: the callers are told, so they need no error of this script.
LEMMA ClearErrorKeeps ==
    ASSUME ScriptInv, ClearError
    PROVE  ScriptInv' /\ SubstitutionIsRight'
<1>1. pc = "run" /\ UNCHANGED <<nextList, ret, ended>> /\ NoLine
  BY DEF ClearError, Directive
<1>2. CASE Top.estate = "normal"
  BY <1>1, <1>2, LinePassedKeeps DEF ClearError
<1>3. CASE Top.estate # "normal"
  <2> DEFINE rest == AfterLine(Top.rest)
             n == Len(stack)
             F(i) == IF i = n
                       THEN [stack[i] EXCEPT !.status = EOK, !.lasterror = EOK,
                                !.estate = "normal", !.failed = FALSE, !.rest = rest]
                       ELSE [stack[i] EXCEPT !.cleared = TRUE]
  <2>1. /\ stack' = [i \in DOMAIN stack |-> F(i)]
        /\ pc' \in {"end", "fetch"} /\ corshellStatus' = EOK
    BY <1>3 DEF ClearError
  <2>2. ShellTypes /\ ErrorsKept /\ ErrorsAreReported
    BY DEF ScriptInv
  <2>3. /\ stack \in Seq(Frames) /\ n \in Nat \ {0} /\ DOMAIN stack = 1 .. n
        /\ Top \in Frames /\ stack[n] = Top
    BY <1>1, <2>2, TopFrame, LenProperties DEF ShellTypes, Top
  <2>4. rest \in Seq(Chars)
    BY <2>3, AfterLineText DEF Frames
  <2>5. ASSUME NEW i \in 1 .. n PROVE F(i) \in Frames /\ FrameKept(F(i), EOK)
    <3> HIDE DEF rest
    <3>1. stack[i] \in Frames
      BY <2>3
    <3>2. CASE i = n
      <4> DEFINE f1 == [stack[i] EXCEPT !.status = EOK]
                 f2 == [f1 EXCEPT !.lasterror = EOK]
                 f3 == [f2 EXCEPT !.estate = "normal"]
                 f4 == [f3 EXCEPT !.failed = FALSE]
                 f5 == [f4 EXCEPT !.rest = rest]
      <4>1. f1 \in Frames
        BY <3>1 DEF Frames, EOK
      <4>2. F(i) = f5
        BY <3>2
      <4> HIDE DEF f1
      <4>3. f2 \in Frames /\ f2.lasterror = EOK
        BY <4>1 DEF Frames, EOK
      <4> HIDE DEF f2
      <4>4. f3 \in Frames /\ f3.lasterror = EOK
        BY <4>3 DEF Frames
      <4> HIDE DEF f3
      <4>5. f4 \in Frames /\ f4.lasterror = EOK /\ f4.failed = FALSE
        BY <4>4 DEF Frames
      <4> HIDE DEF f4
      <4>6. f5 \in Frames /\ f5.lasterror = EOK /\ f5.failed = FALSE
        BY <2>4, <4>5 DEF Frames
      <4> HIDE DEF f5
      <4>7. QED
        BY <4>2, <4>6 DEF FrameKept
    <3>3. CASE i # n
      <4> DEFINE f == [stack[i] EXCEPT !.cleared = TRUE]
      <4>1. /\ f \in Frames /\ f.cleared = TRUE /\ f.failed = stack[i].failed
            /\ f.sticky = stack[i].sticky /\ f.lasterror = stack[i].lasterror
        BY <3>1 DEF Frames
      <4>2. F(i) = f
        BY <3>3
      <4>3. FrameKept(stack[i], corshellStatus)
        BY <2>2 DEF ErrorsKept
      <4> HIDE DEF f
      <4>4. QED
        BY <4>1, <4>2, <4>3 DEF FrameKept
    <3>4. QED
      BY <3>2, <3>3
  <2> HIDE DEF F
  <2>6. stack' \in Seq(Frames) /\ Len(stack') = n /\ \A i \in 1 .. n : stack'[i] = F(i)
    <3>1. stack' = [i \in 1 .. n |-> F(i)]
      BY <2>1, <2>3
    <3>2. stack' \in Seq(Frames)
      BY <2>3, <2>5, <3>1, IsASeq
    <3>3. DOMAIN stack' = 1 .. n
      BY <3>1
    <3>4. QED
      BY <2>3, <3>1, <3>2, <3>3, LenProperties
  <2>7. stack' # <<>>
    BY <2>3, <2>6
  <2>8. ShellTypes'
    BY <1>1, <2>1, <2>2, <2>6, <2>7 DEF ShellTypes, EOK
  <2>9. ErrorsKept'
    BY <2>1, <2>5, <2>6 DEF ErrorsKept
  <2>10. ErrorsAreReported'
    BY <1>1, <2>2 DEF ErrorsAreReported
  <2>11. SubstitutionIsRight'
    BY <2>1 DEF SubstitutionIsRight
  <2>12. LineTypes'
    BY <1>1, NoLineTypes
  <2>13. QED
    BY <2>8, <2>9, <2>10, <2>11, <2>12 DEF ScriptInv
<1>4. QED
  BY <1>2, <1>3

\* The result of a command is taken.
Taken(f) ==
    [f EXCEPT !.status = ret,
              !.estate = IF ret < EOK THEN "inError" ELSE @,
              !.lasterror = IF corshellStatus >= EOK /\ ret < EOK THEN ret ELSE @,
              !.failed = @ \/ ret < EOK,
              !.cleared = @ /\ ~(ret < EOK)]
Cancelled(f) ==
    [f EXCEPT !.status = CANCEL, !.lasterror = CANCEL, !.failed = TRUE, !.cleared = FALSE]

\* An error that is taken marks the frame, and is kept unless one was left before.
LEMMA TakenFrame ==
    ASSUME NEW f \in Frames, ret \in Int, corshellStatus \in Int
    PROVE  /\ Taken(f) \in Frames /\ Taken(f).sticky = f.sticky
           /\ ret < EOK => Taken(f).failed /\ ~Taken(f).cleared
           /\ ret < EOK /\ corshellStatus >= EOK => Taken(f).lasterror = ret
           /\ ~(ret < EOK) => /\ Taken(f).failed = f.failed /\ Taken(f).cleared = f.cleared
                              /\ Taken(f).lasterror = f.lasterror
<1> DEFINE f1 == [f EXCEPT !.status = ret]
           f2 == [f1 EXCEPT !.estate = IF ret < EOK THEN "inError" ELSE @]
           f3 == [f2 EXCEPT !.lasterror =
                     IF corshellStatus >= EOK /\ ret < EOK THEN ret ELSE @]
           f4 == [f3 EXCEPT !.failed = @ \/ ret < EOK]
           f5 == [f4 EXCEPT !.cleared = @ /\ ~(ret < EOK)]
<1>1. Taken(f) = f5
  BY DEF Taken
<1>2. /\ f1 \in Frames /\ f1.sticky = f.sticky /\ f1.failed = f.failed
      /\ f1.cleared = f.cleared /\ f1.lasterror = f.lasterror
  BY DEF Frames
<1> HIDE DEF f1
<1>3. /\ f2 \in Frames /\ f2.sticky = f.sticky /\ f2.failed = f.failed
      /\ f2.cleared = f.cleared /\ f2.lasterror = f.lasterror
  BY <1>2 DEF Frames
<1> HIDE DEF f2
<1>4. /\ f3 \in Frames /\ f3.sticky = f.sticky /\ f3.failed = f.failed
      /\ f3.cleared = f.cleared
  BY <1>3 DEF Frames, EOK
<1>5. /\ ret < EOK /\ corshellStatus >= EOK => f3.lasterror = ret
      /\ ~(ret < EOK) => f3.lasterror = f.lasterror
  BY <1>3 DEF Frames, EOK
<1> HIDE DEF f3
<1>6. CASE ret < EOK
  <2>1. f4 = [f3 EXCEPT !.failed = TRUE]
    BY <1>6
  <2>2. /\ f4 \in Frames /\ f4.sticky = f.sticky /\ f4.failed = TRUE
        /\ f4.lasterror = f3.lasterror
    BY <1>4, <2>1 DEF Frames
  <2> HIDE DEF f4
  <2>3. f5 = [f4 EXCEPT !.cleared = FALSE]
    BY <1>6
  <2>4. /\ f5 \in Frames /\ f5.sticky = f.sticky /\ f5.failed = TRUE
        /\ f5.lasterror = f3.lasterror /\ f5.cleared = FALSE
    BY <2>2, <2>3 DEF Frames
  <2> HIDE DEF f5
  <2>5. QED
    BY <1>1, <1>5, <1>6, <2>4
<1>7. CASE ~(ret < EOK)
  <2>1. f4 = f3
    BY <1>4, <1>7 DEF Frames
  <2>2. f5 = f3
    BY <1>4, <1>7, <2>1 DEF Frames
  <2> HIDE DEF f5
  <2>3. QED
    BY <1>1, <1>4, <1>5, <1>7, <2>2
<1>8. QED
  BY <1>6, <1>7

\* A cancel marks the frame with its own error.
LEMMA CancelledFrame ==
    ASSUME NEW f \in Frames
    PROVE  /\ Cancelled(f) \in Frames /\ Cancelled(f).sticky = f.sticky
           /\ Cancelled(f).failed = TRUE /\ Cancelled(f).lasterror = CANCEL
<1> DEFINE f1 == [f EXCEPT !.status = CANCEL]
           f2 == [f1 EXCEPT !.lasterror = CANCEL]
           f3 == [f2 EXCEPT !.failed = TRUE]
           f4 == [f3 EXCEPT !.cleared = FALSE]
<1>1. Cancelled(f) = f4
  BY DEF Cancelled
<1>2. f1 \in Frames /\ f1.sticky = f.sticky
  BY DEF Frames, CANCEL
<1> HIDE DEF f1
<1>3. f2 \in Frames /\ f2.sticky = f.sticky /\ f2.lasterror = CANCEL
  BY <1>2 DEF Frames, CANCEL, EOK
<1> HIDE DEF f2
<1>4. f3 \in Frames /\ f3.sticky = f.sticky /\ f3.lasterror = CANCEL /\ f3.failed = TRUE
  BY <1>3 DEF Frames
<1> HIDE DEF f3
<1>5. f4 \in Frames /\ f4.sticky = f.sticky /\ f4.lasterror = CANCEL /\ f4.failed = TRUE
  BY <1>4 DEF Frames
<1> HIDE DEF f4
<1>6. QED
  BY <1>1, <1>5

\* The result of a command is taken.
LEMMA AfterCommandKeeps ==
    ASSUME ScriptInv, AfterCommand
    PROVE  ScriptInv' /\ SubstitutionIsRight'
<1>1. /\ pc = "ret" /\ ret' = EOK /\ ended' = NotEnded
      /\ UNCHANGED <<nextList, line, text, argv, corshellStatus>>
  BY DEF AfterCommand
<1>2. NextLine(Taken(Top)) \/ NextLine(Cancelled(Taken(Top)))
  <2>1. PICK cancel \in {EOK, CANCEL} :
            NextLine(IF cancel = EOK THEN Taken(Top)
                     ELSE [Taken(Top) EXCEPT !.status = cancel, !.lasterror = cancel,
                                             !.failed = TRUE, !.cleared = FALSE])
    BY DEF AfterCommand, Taken
  <2>2. CASE cancel = EOK
    BY <2>1, <2>2
  <2>3. CASE cancel # EOK
    <3>1. cancel = CANCEL
      BY <2>3
    <3>2. QED
      BY <2>1, <2>3, <3>1 DEF Cancelled
  <2>4. QED
    BY <2>2, <2>3
<1>3. LineTypes'
  BY <1>1, LineStaysEmpty DEF ScriptInv
<1>4. /\ Top \in Frames /\ FrameKept(Top, corshellStatus)
      /\ (~Top.failed /\ ~Top.sticky /\ ret >= EOK => corshellStatus = EOK)
  BY <1>1, TopKept
<1>5. /\ ret \in Int /\ ret' \in Int /\ corshellStatus \in Int /\ corshellStatus <= EOK
      /\ corshellStatus' = corshellStatus
  BY <1>1 DEF ScriptInv, ShellTypes, EOK
<1> DEFINE f == Taken(Top)
           g == Cancelled(f)
<1>6. /\ f \in Frames /\ f.sticky = Top.sticky
      /\ ret < EOK => f.failed /\ ~f.cleared
      /\ ret < EOK /\ corshellStatus >= EOK => f.lasterror = ret
      /\ ~(ret < EOK) => /\ f.failed = Top.failed /\ f.cleared = Top.cleared
                         /\ f.lasterror = Top.lasterror
  BY <1>4, <1>5, TakenFrame
<1>7. g \in Frames /\ g.sticky = f.sticky /\ g.failed = TRUE /\ g.lasterror = CANCEL
  BY <1>6, CancelledFrame
<1> HIDE DEF f, g
<1>8. FrameKept(f, corshellStatus) /\ (~f.failed /\ ~f.sticky => corshellStatus = EOK)
  <2>1. CASE ret < EOK
    <3>1. f.lasterror < EOK \/ corshellStatus < EOK
      BY <1>5, <1>6, <2>1 DEF EOK
    <3>2. QED
      BY <1>6, <2>1, <3>1 DEF FrameKept
  <2>2. CASE ~(ret < EOK)
    <3>1. ret >= EOK
      BY <1>5, <2>2 DEF EOK
    <3>2. QED
      BY <1>4, <1>6, <2>2, <3>1 DEF FrameKept
  <2>3. QED
    BY <2>1, <2>2
<1>9. FrameKept(g, corshellStatus) /\ (~g.failed /\ ~g.sticky => corshellStatus = EOK)
  BY <1>7 DEF FrameKept, CANCEL, EOK
<1>10. CASE NextLine(f)
  BY <1>1, <1>3, <1>5, <1>6, <1>8, <1>10, NextLineKeeps
<1>11. CASE NextLine(g)
  BY <1>1, <1>3, <1>5, <1>7, <1>9, <1>11, NextLineKeeps
<1>12. QED
  BY <1>2, <1>10, <1>11 DEF f, g

\* A script ends: its last error becomes the status and the result of its caller's
\* command.
LEMMA ScriptEndKeeps ==
    ASSUME ScriptInv, ScriptEnd
    PROVE  ScriptInv' /\ SubstitutionIsRight'
<1> DEFINE n == Len(stack)
           s == EndStatus(Top)
<1>1. /\ pc = "end" /\ corshellStatus' = s /\ NoLine /\ stack' = SubSeq(stack, 1, n - 1)
      /\ ended' = [res |-> s, failed |-> Top.failed, cleared |-> Top.cleared,
                   sticky |-> Top.sticky, some |-> TRUE]
      /\ (n = 1 => pc' = "idle" /\ ret' = ret)
      /\ (n # 1 => pc' = "ret" /\ ret' = s)
  BY DEF ScriptEnd
<1>2. /\ ShellTypes /\ ErrorsKept
  BY DEF ScriptInv
<1>3. /\ stack \in Seq(Frames) /\ n \in Nat \ {0} /\ Top \in Frames
      /\ corshellStatus \in Int /\ corshellStatus <= EOK /\ ret \in Int
  BY <1>1, <1>2, TopFrame DEF ShellTypes
<1>4. /\ FrameKept(Top, corshellStatus)
      /\ (~Top.failed /\ ~Top.sticky => corshellStatus = EOK)
  BY <1>1, TopKept
<1>5. /\ s \in Int /\ s <= EOK
      /\ (Top.lasterror < EOK \/ corshellStatus < EOK) => s < EOK
      /\ Top.lasterror = EOK /\ corshellStatus = EOK => s = EOK
  <2>1. Top.lasterror \in Int /\ Top.lasterror <= EOK
    BY <1>3 DEF Frames
  <2>2. QED
    BY <1>3, <2>1 DEF EndStatus, EOK
<1> HIDE DEF s
<1>6. /\ stack' \in Seq(Frames) /\ Len(stack') = n - 1
      /\ \A i \in 1 .. n - 1 : stack'[i] = stack[i]
  <2> DEFINE u == SubSeq(stack, 1, n - 1)
  <2>1. u \in Seq(Frames) /\ Len(u) = n - 1 /\ \A i \in 1 .. n - 1 : u[i] = stack[i]
    <3>1. stack \in Seq(Frames) /\ n \in Nat \ {0} /\ n = Len(stack)
      BY <1>3
    <3>2. u \in Seq(Frames) /\ Len(u) = n - 1
      BY <3>1
    <3>3. \A i \in 1 .. n - 1 : u[i] = stack[i]
      BY <3>1
    <3>4. QED
      BY <3>2, <3>3
  <2>2. stack' = u
    BY <1>1
  <2> HIDE DEF u, n
  <2>3. QED
    BY <2>1, <2>2
<1>7. (n = 1 => stack' = <<>>) /\ (n # 1 => stack' # <<>>)
  <2>1. n = 1 => Len(stack') = 0
    BY <1>6
  <2>2. n # 1 => Len(stack') # 0
    BY <1>3, <1>6
  <2>3. QED
    BY <1>6, <2>1, <2>2, EmptySeq
<1>8. ShellTypes'
  <2>1. /\ Top.failed \in BOOLEAN /\ Top.cleared \in BOOLEAN /\ Top.sticky \in BOOLEAN
    BY <1>3 DEF Frames
  <2>2. ended' \in [res : Int, failed : BOOLEAN, cleared : BOOLEAN, sticky : BOOLEAN,
                    some : BOOLEAN]
    BY <1>1, <1>5, <2>1
  <2>3. pc' \in {"idle", "ret"} /\ ret' \in Int
    BY <1>1, <1>3, <1>5
  <2>4. (pc' = "idle") = (stack' = <<>>)
    BY <1>1, <1>7
  <2>5. QED
    BY <1>1, <1>5, <1>6, <2>2, <2>3, <2>4 DEF ShellTypes
<1>9. ErrorsKept'
  <2>1. ASSUME NEW i \in 1 .. Len(stack') PROVE FrameKept(stack'[i], corshellStatus')
    <3>1. FrameKept(stack[i], corshellStatus) /\ stack'[i] = stack[i]
      BY <1>2, <1>3, <1>6 DEF ErrorsKept
    <3>2. QED
      BY <1>1, <1>5, <3>1 DEF FrameKept
  <2>2. stack' # <<>> => corshellStatus' = EOK \/ (pc' = "ret" /\ ret' < EOK)
    BY <1>1, <1>5, <1>7 DEF EOK
  <2>3. QED
    BY <2>1, <2>2 DEF ErrorsKept
<1>10. ErrorsAreReported'
  BY <1>1, <1>4, <1>5 DEF ErrorsAreReported, FrameKept
<1>11. SubstitutionIsRight'
  BY <1>1 DEF SubstitutionIsRight
<1>12. LineTypes'
  BY <1>1, NoLineTypes
<1>13. QED
  BY <1>8, <1>9, <1>10, <1>11, <1>12 DEF ScriptInv

\* A script that is started.
LEMMA FrameKeeps ==
    ASSUME ShellTypes, NEW script \in Seq(Chars)
    PROVE  /\ Frame(script) \in Frames /\ FrameKept(Frame(script), corshellStatus)
           /\ ~Frame(script).sticky => corshellStatus = EOK
<1>1. corshellStatus \in Int /\ corshellStatus <= EOK
  BY DEF ShellTypes
<1> DEFINE b == corshellStatus < 0
<1>2. b \in BOOLEAN /\ (~b => corshellStatus = EOK)
  BY <1>1 DEF EOK
<1>3. Frame(script) = [rest |-> script, status |-> EOK, lasterror |-> EOK,
                       estate |-> "normal", failed |-> FALSE, cleared |-> FALSE,
                       sticky |-> b]
  BY DEF Frame
<1> HIDE DEF b
<1>4. Frame(script) \in Frames
  BY <1>2, <1>3 DEF Frames, EOK
<1>5. Frame(script).failed = FALSE /\ Frame(script).lasterror = EOK
  BY <1>3
<1>6. FrameKept(Frame(script), corshellStatus)
  BY <1>5, Zenon DEF FrameKept
<1>7. Frame(script).sticky = b
  BY <1>2, <1>3
<1>8. ~Frame(script).sticky => corshellStatus = EOK
  BY <1>2, <1>7
<1>9. QED
  BY <1>4, <1>6, <1>8

\* A command runs a script, or cannot start it.
LEMMA RunNestedKeeps ==
    ASSUME ScriptInv, pc = "run", NEW script \in Seq(Chars), RunNested(script)
    PROVE  ScriptInv' /\ SubstitutionIsRight'
<1>1. CASE \E e \in StartErrors(Len(stack)) : Returns(e)
  <2>1. StartErrors(Len(stack)) \subseteq Int
    BY DEF StartErrors, CANCEL, MEMORY
  <2>2. QED
    BY <1>1, <2>1, ReturnsKeeps
<1>2. CASE /\ stack' = Append(stack, Frame(script)) /\ pc' = "fetch" /\ NoLine
           /\ UNCHANGED <<nextList, ret, corshellStatus, ended>>
  <2> DEFINE f == Frame(script)
             n == Len(stack)
  <2>1. ShellTypes /\ ErrorsKept /\ ErrorsAreReported
    BY DEF ScriptInv
  <2>2. /\ f \in Frames /\ FrameKept(f, corshellStatus)
        /\ ~f.sticky => corshellStatus = EOK
    BY <2>1, FrameKeeps
  <2>3. stack \in Seq(Frames) /\ n \in Nat
    BY <2>1, LenProperties DEF ShellTypes
  <2>4. stack' = Append(stack, f)
    BY <1>2
  <2> HIDE DEF f
  <2>5. /\ stack' \in Seq(Frames) /\ Len(stack') = n + 1 /\ stack'[n + 1] = f
        /\ \A i \in 1 .. n : stack'[i] = stack[i]
    BY <2>2, <2>3, <2>4, AppendProperties
  <2>6. stack' # <<>>
    BY <2>3, <2>5
  <2>7. ShellTypes'
    BY <1>2, <2>1, <2>5, <2>6 DEF ShellTypes
  <2>8. Top' = f
    BY <2>5 DEF Top
  <2>9. ASSUME NEW i \in 1 .. Len(stack') PROVE FrameKept(stack'[i], corshellStatus')
    <3>1. CASE i = n + 1
      BY <1>2, <2>2, <2>5, <3>1
    <3>2. CASE i # n + 1
      <4>1. i \in 1 .. n
        BY <2>3, <2>5, <3>2
      <4>2. QED
        BY <1>2, <2>1, <2>5, <4>1 DEF ErrorsKept
    <3>3. QED
      BY <3>1, <3>2
  <2>10. ErrorsKept'
    BY <1>2, <2>2, <2>8, <2>9 DEF ErrorsKept
  <2>11. ErrorsAreReported'
    BY <1>2, <2>1 DEF ErrorsAreReported
  <2>12. SubstitutionIsRight'
    BY <1>2 DEF SubstitutionIsRight
  <2>13. LineTypes'
    BY <1>2, NoLineTypes
  <2>14. QED
    BY <2>7, <2>10, <2>11, <2>12, <2>13 DEF ScriptInv
<1>3. QED
  BY <1>1, <1>2 DEF RunNested

\* A script is given to the shell, or cannot start.
LEMMA ScriptStartKeeps ==
    ASSUME ScriptInv, NEW script \in Seq(Chars), ScriptStart(script)
    PROVE  ScriptInv' /\ SubstitutionIsRight'
<1>1. /\ pc = "idle"
      /\ UNCHANGED <<nextList, line, text, argv, ret, corshellStatus>>
  BY DEF ScriptStart
<1>2. ShellTypes /\ ErrorsKept /\ stack = <<>>
  BY <1>1 DEF ScriptInv, ShellTypes
<1>3. LineTypes'
  BY <1>1, LineStaysEmpty DEF ScriptInv
<1>4. CASE stack' = <<Frame(script)>> /\ pc' = "fetch" /\ ended' = NotEnded
  <2> DEFINE f == Frame(script)
  <2>1. /\ f \in Frames /\ FrameKept(f, corshellStatus)
        /\ ~f.sticky => corshellStatus = EOK
    BY <1>2, FrameKeeps
  <2> HIDE DEF f
  <2>2. stack' \in Seq(Frames) /\ Len(stack') = 1 /\ stack'[1] = f /\ stack' # <<>>
    BY <1>4, <2>1 DEF f
  <2>3. NotEnded \in [res : Int, failed : BOOLEAN, cleared : BOOLEAN, sticky : BOOLEAN,
                      some : BOOLEAN]
    BY DEF NotEnded
  <2>4. ShellTypes'
    BY <1>1, <1>2, <1>4, <2>2, <2>3 DEF ShellTypes
  <2>5. Top' = f
    BY <2>2 DEF Top
  <2>6. ErrorsKept'
    BY <1>1, <2>1, <2>2, <2>5 DEF ErrorsKept
  <2>7. ErrorsAreReported' /\ SubstitutionIsRight'
    BY <1>4 DEF ErrorsAreReported, NotEnded, SubstitutionIsRight
  <2>8. QED
    BY <1>3, <2>4, <2>6, <2>7 DEF ScriptInv
<1>5. CASE /\ \E e \in StartErrors(0) :
                 ended' = [res |-> e, failed |-> TRUE, cleared |-> FALSE,
                           sticky |-> corshellStatus < 0, some |-> TRUE]
           /\ UNCHANGED <<stack, pc>>
  <2>1. PICK e \in {CANCEL, MEMORY} :
            ended' = [res |-> e, failed |-> TRUE, cleared |-> FALSE,
                      sticky |-> corshellStatus < 0, some |-> TRUE]
    BY <1>5 DEF StartErrors
  <2>2. e \in Int /\ e < EOK /\ (corshellStatus < 0) \in BOOLEAN
    BY <2>1 DEF CANCEL, MEMORY, EOK
  <2>3. ended' \in [res : Int, failed : BOOLEAN, cleared : BOOLEAN, sticky : BOOLEAN,
                    some : BOOLEAN]
    BY <2>1, <2>2
  <2>4. ShellTypes'
    BY <1>1, <1>2, <1>5, <2>3 DEF ShellTypes
  <2>5. ErrorsKept'
    BY <1>1, <1>2, <1>5 DEF ErrorsKept, Top
  <2>6. ErrorsAreReported'
    BY <2>1, <2>2 DEF ErrorsAreReported
  <2>7. SubstitutionIsRight'
    BY <1>1, <1>5 DEF SubstitutionIsRight
  <2>8. QED
    BY <1>3, <2>4, <2>5, <2>6, <2>7 DEF ScriptInv
<1>6. QED
  BY <1>4, <1>5 DEF ScriptStart

\* The status is cleared between scripts.
LEMMA ClearLastErrorKeeps ==
    ASSUME ScriptInv, ClearLastError
    PROVE  ScriptInv' /\ SubstitutionIsRight'
<1>1. /\ pc = "idle" /\ corshellStatus' = EOK /\ ended' = NotEnded
      /\ UNCHANGED <<nextList, stack, pc, line, text, argv, ret>>
  BY DEF ClearLastError
<1>2. ShellTypes /\ stack = <<>>
  BY <1>1 DEF ScriptInv, ShellTypes
<1>3. NotEnded \in [res : Int, failed : BOOLEAN, cleared : BOOLEAN, sticky : BOOLEAN,
                    some : BOOLEAN]
  BY DEF NotEnded
<1>4. ShellTypes'
  BY <1>1, <1>2, <1>3 DEF ShellTypes, EOK
<1>5. ErrorsKept'
  BY <1>1, <1>2 DEF ErrorsKept
<1>6. ErrorsAreReported' /\ SubstitutionIsRight'
  BY <1>1 DEF ErrorsAreReported, NotEnded, SubstitutionIsRight
<1>7. LineTypes'
  BY <1>1, LineStaysEmpty DEF ScriptInv
<1>8. QED
  BY <1>4, <1>5, <1>6, <1>7 DEF ScriptInv

\* Nothing of the scripts changes while the volumes are started and stopped.
LEMMA StartsKeep ==
    ASSUME ScriptInv, Starts
    PROVE  ScriptInv' /\ SubstitutionIsRight'
<1>1. /\ pc = "idle"
      /\ UNCHANGED <<stack, pc, line, text, argv, ret, corshellStatus, ended>>
  BY DEF Starts, RegistryStart, RegistryStop, StrtabInit, StrtabStart, StrtabStop,
         shellVars
<1>2. ret' \in Int
  BY <1>1 DEF ScriptInv, ShellTypes
<1>3. LineTypes'
  BY <1>1, LineStaysEmpty DEF ScriptInv
<1>4. QED
  BY <1>1, <1>2, <1>3, StackKeeps

\* As much of a line as the buffer takes.
LEMMA LineFits ==
    ASSUME NEW rest \in Seq(Chars)
    PROVE  LineLength(rest) \in Nat /\ LineLength(rest) <= LineMax
           /\ LineLength(rest) <= Len(rest)
<1> DEFINE S == {LineMax, Len(rest)} \cup {i - 1 : i \in {j \in DOMAIN rest : rest[j] = "nl"}}
<1>1. LineMax \in Nat /\ Len(rest) \in Nat /\ DOMAIN rest = 1 .. Len(rest)
  BY Limits, LenProperties
<1>2. S \in SUBSET Nat /\ LineMax \in S /\ Len(rest) \in S
  BY <1>1
<1>3. LineLength(rest) = Min(S)
  BY DEF LineLength
<1> HIDE DEF S
<1>4. Min(S) \in S /\ \A j \in S : Min(S) <= j
  BY <1>2, MinOfNat
<1>5. QED
  BY <1>2, <1>3, <1>4

\* The handlers answer in texts.
LEMMA AnswersAreTexts ==
    ASSUME VolumeTypes, NEW l
    PROVE  InTexts(Answers(l), l)
<1>1. /\ \A k \in DOMAIN reg.map : reg.map[k] \in Seq(Chars)
      /\ \A k \in DOMAIN str.map : str.map[k] \in Seq(Chars)
  BY DEF VolumeTypes, IsMap, IsValue
<1>2. ASSUME NEW h \in Handlers, NEW w \in Words(l) PROVE Answers(l)[h][w] \in Seq(Chars)
  <2>1. Answers(l)[h][w] = Answer(h, w)
    BY DEF Answers
  <2>2. RegGet(w) \in Seq(Chars)
    BY <1>1 DEF RegGet
  <2>3. Answer(h, w) \in Seq(Chars)
    BY <1>1, <2>2 DEF Answer, StrtabAnswer
  <2>4. QED
    BY <2>1, <2>3
<1>3. QED
  BY <1>2 DEF InTexts

\* The line copied fits its buffer.
LEMMA ReachedFits ==
    ASSUME ShellTypes, pc # "idle"
    PROVE  Reached \in Seq(Chars) /\ Len(Reached) <= LineMax
<1> DEFINE rest == Top.rest
<1>1. rest \in Seq(Chars)
  BY TopFrame DEF Frames
<1>2. Reached = SubSeq(rest, 1, LineLength(rest))
  BY DEF Reached
<1> HIDE DEF rest
<1>3. LineLength(rest) \in Nat /\ LineLength(rest) <= LineMax
      /\ LineLength(rest) <= Len(rest) /\ Len(rest) \in Nat
  BY <1>1, LineFits, LenProperties
<1> DEFINE m == LineLength(rest)
<1> HIDE DEF m
<1>4. m \in Nat /\ m <= LineMax /\ m <= Len(rest)
  BY <1>3 DEF m
<1>5. SubSeq(rest, 1, m) \in Seq(Chars)
  BY <1>1, <1>4
<1>6. Len(SubSeq(rest, 1, m)) = m
  BY <1>1, <1>3, <1>4
<1>7. QED
  BY <1>2, <1>4, <1>5, <1>6 DEF m

\* The substitution of a line depends on the handlers and the volumes only.
LEMMA ExpandedLine ==
    ASSUME head' = head, after' = after, NEW l, line' = l, NEW a
    PROVE  Expand(line, a)' = Expand(l, a)
BY DEF Expand, Opens, Chain, Walk

\* The answers depend on the volumes only.
LEMMA AnswersToLine ==
    ASSUME reg' = reg, str' = str, NEW l, line' = l
    PROVE  Answers(line)' = Answers(l)
BY DEF Answers, Answer, StrtabAnswer, RegGet

\* What was substituted right stays so while handlers and volumes stay.
LEMMA SubstitutionOf ==
    ASSUME head' = head, after' = after, reg' = reg, str' = str,
           NEW l, line' = l, NEW t, text' = t, t = Cut(Expand(l, Answers(l)), SubMax - 1)
    PROVE  SubstitutionIsRight'
<1>1. Answers(line)' = Answers(l)
  BY AnswersToLine
<1>2. ASSUME NEW a, a = Answers(l) PROVE text' = Cut(Expand(line, a)', SubMax - 1)
  <2>1. Expand(line, a)' = Expand(l, a)
    BY ExpandedLine
  <2>2. QED
    BY <1>2, <2>1
<1>4. QED
  BY <1>1, <1>2 DEF SubstitutionIsRight

\* A line is fetched, substituted and split.
LEMMA FetchKeeps ==
    ASSUME ScriptInv, VolumeTypes, ListTypes, SameVolumes,
           NEW answer, answer = Answers(Reached), Fetch(answer)
    PROVE  ScriptInv' /\ SubstitutionIsRight'
<1>1. /\ pc = "fetch" /\ pc' = "run" /\ line' = Reached
      /\ UNCHANGED <<nextList, ret, corshellStatus, ended>>
      /\ UNCHANGED <<head, after, reg, str>>
  BY DEF Fetch, SameVolumes, strsubVars, volumeVars
<1>2. ShellTypes /\ ErrorsKept /\ ErrorsAreReported
  BY DEF ScriptInv
<1>3. PICK l : l = Reached
  OBVIOUS
<1>4. l \in Seq(Chars) /\ Len(l) <= LineMax /\ line' = l /\ answer = Answers(l)
  BY <1>1, <1>2, <1>3, ReachedFits
<1>5. InTexts(answer, l) /\ OneHandler
  BY <1>4, AnswersAreTexts, OneHandlerEach
<1>6. /\ Parse(l, answer, SubMax).text = Cut(Expand(l, answer), SubMax - 1)
      /\ Parse(l, answer, SubMax).text \in Seq(Chars)
      /\ Len(Parse(l, answer, SubMax).text) < SubMax
  BY <1>4, <1>5, ParseExpands, Limits
<1>7. text' = Parse(l, answer, SubMax).text /\ argv' \in Split(text')
  BY <1>4 DEF Fetch
<1>8. text' \in Seq(Chars) /\ Len(text') < SubMax /\ text' = Cut(Expand(l, answer), SubMax - 1)
  BY <1>6, <1>7
<1>9. argv' \in Seq(Seq(Plain)) /\ Len(argv') <= ArgMax
  BY <1>7, <1>8, SplitIntoWords
<1>10. LineTypes'
  BY <1>1, <1>4, <1>8, <1>9 DEF LineTypes
<1>11. SubstitutionIsRight'
  BY <1>1, <1>4, <1>8, SubstitutionOf
<1> DEFINE rest == Top.rest
           f == [Top EXCEPT !.rest = SubSeq(@, LineLength(@) + 1, Len(@))]
<1>12. Top \in Frames /\ FrameKept(Top, corshellStatus)
       /\ (~Top.failed /\ ~Top.sticky => corshellStatus = EOK)
  BY <1>1, TopKept
<1>13. rest \in Seq(Chars) /\ LineLength(rest) \in Nat /\ Len(rest) \in Nat
       /\ LineLength(rest) <= Len(rest)
  BY <1>12, LineFits, LenProperties DEF Frames
<1>14. SubSeq(rest, LineLength(rest) + 1, Len(rest)) \in Seq(Chars)
  <2> HIDE DEF rest
  <2> DEFINE m == LineLength(rest)
  <2> HIDE DEF m
  <2>1. m \in Nat /\ m <= Len(rest)
    BY <1>13 DEF m
  <2>2. SubSeq(rest, m + 1, Len(rest)) \in Seq(Chars)
    BY <1>13, <2>1
  <2>3. QED
    BY <2>2 DEF m
<1>15. /\ f \in Frames /\ f.failed = Top.failed /\ f.sticky = Top.sticky
       /\ f.cleared = Top.cleared /\ f.lasterror = Top.lasterror
  BY <1>12, <1>14 DEF Frames
<1>16. stack' = SetTop(f)
  BY DEF Fetch
<1> HIDE DEF f
<1>17. /\ stack' \in Seq(Frames) /\ stack' # <<>> /\ Len(stack') = Len(stack)
       /\ Top' = f /\ \A i \in 1 .. Len(stack) : i # Len(stack) => stack'[i] = stack[i]
  BY <1>1, <1>2, <1>15, <1>16, TopChanges
<1>18. ShellTypes'
  BY <1>1, <1>2, <1>17 DEF ShellTypes
<1>19. ErrorsKept'
  <2>1. FrameKept(f, corshellStatus) /\ (~f.failed /\ ~f.sticky => corshellStatus = EOK)
    BY <1>12, <1>15 DEF FrameKept
  <2>2. ASSUME NEW i \in 1 .. Len(stack') PROVE FrameKept(stack'[i], corshellStatus')
    <3>1. CASE i = Len(stack')
      <4>1. stack'[i] = f
        BY <1>17, <3>1 DEF Top
      <4>2. QED
        BY <1>1, <2>1, <4>1
    <3>2. CASE i # Len(stack')
      BY <1>1, <1>2, <1>17, <3>2 DEF ErrorsKept
    <3>3. QED
      BY <3>1, <3>2
  <2>3. QED
    BY <1>1, <1>17, <2>1, <2>2 DEF ErrorsKept
<1>20. ErrorsAreReported'
  BY <1>1, <1>2 DEF ErrorsAreReported
<1>21. QED
  BY <1>10, <1>11, <1>18, <1>19, <1>20 DEF ScriptInv

-----------------------------------------------------------------------------
(***************************************************************************)
(* The volumes.                                                            *)
(***************************************************************************)

IsVolumeOf(v) == v = [loaded |-> v.loaded, map |-> v.map] /\ IsMap(v.map)

\* v becomes u, and nothing but the entries of these keys may differ.
Changes(v, u, keys) ==
    /\ IsVolumeOf(u) /\ u.loaded = v.loaded
    /\ DOMAIN u.map \subseteq DOMAIN v.map \cup keys
    /\ \A x \in DOMAIN v.map \ keys : x \in DOMAIN u.map /\ u.map[x] = v.map[x]

\* A word with its zero is a value.
LEMMA ValueOfWord ==
    ASSUME NEW w \in Seq(Plain), Len(w) + 1 <= ValueMax
    PROVE  IsValue(Append(w, "nul"))
<1> DEFINE v == Append(w, "nul")
<1>1. "nul" \in Chars /\ Plain \subseteq Chars /\ "nul" \notin Plain
  BY CharAssumption DEF Plain
<1>2. w \in Seq(Chars)
  BY <1>1
<1>3. v \in Seq(Chars) /\ Len(v) = Len(w) + 1 /\ Len(w) \in Nat /\ v[Len(w) + 1] = "nul"
      /\ \A i \in 1 .. Len(w) : v[i] = w[i]
  BY <1>1, <1>2
<1>4. \A i \in 1 .. Len(w) : w[i] \in Plain
  BY <1>3
<1>5. ASSUME NEW i \in 1 .. Len(v) PROVE v[i] = "nul" <=> i = Len(v)
  BY <1>1, <1>3, <1>4
<1>6. Len(v) \in 1 .. ValueMax
  BY <1>3, SizesAssumption
<1>7. QED
  BY <1>3, <1>5, <1>6 DEF IsValue


\* A volume is taken as its record.
LEMMA Remapped ==
    ASSUME NEW v, v = [loaded |-> v.loaded, map |-> v.map], NEW m
    PROVE  /\ [v EXCEPT !.map = m] = [loaded |-> v.loaded, map |-> m]
           /\ [v EXCEPT !.map = m].map = m /\ [v EXCEPT !.map = m].loaded = v.loaded
OBVIOUS

\* A set changes its key at most.
LEMMA SetChanges ==
    ASSUME NEW v, IsVolumeOf(v), NEW k, NEW w \in Seq(Plain)
    PROVE  Changes(v, Set(v, k, w), {k})
<1>1. CASE SetResult(v, w) # EOK
  BY <1>1 DEF Set, Changes, IsVolumeOf
<1>2. CASE SetResult(v, w) = EOK
  <2>1. Len(w) + 1 <= ValueMax
    <3>1. ~(Len(w) + 1 > ValueMax)
      BY <1>2 DEF SetResult, EOK, E_PARM
    <3>2. QED
      BY <3>1, SizesAssumption
  <2>2. IsValue(Append(w, "nul"))
    BY <2>1, ValueOfWord
  <2> DEFINE m == [x \in DOMAIN v.map \cup {k} |->
                      IF x = k THEN Append(w, "nul") ELSE v.map[x]]
  <2>3. Set(v, k, w) = [v EXCEPT !.map = m]
    BY <1>2 DEF Set
  <2>4. IsMap(m)
    BY <2>2 DEF IsMap, IsVolumeOf
  <2>5. /\ DOMAIN m \subseteq DOMAIN v.map \cup {k}
        /\ \A x \in DOMAIN v.map \ {k} : x \in DOMAIN m /\ m[x] = v.map[x]
    OBVIOUS
  <2> HIDE DEF m
  <2>6. /\ Set(v, k, w) = [loaded |-> v.loaded, map |-> m]
        /\ Set(v, k, w).map = m /\ Set(v, k, w).loaded = v.loaded
    BY <2>3, Remapped DEF IsVolumeOf
  <2>7. QED
    BY <2>4, <2>5, <2>6 DEF Changes, IsVolumeOf
<1>3. QED
  BY <1>1, <1>2

\* So does a delete.
LEMMA DeleteChanges ==
    ASSUME NEW v, IsVolumeOf(v), NEW k
    PROVE  Changes(v, Delete(v, k), {k})
<1> DEFINE m == [x \in DOMAIN v.map \ {k} |-> v.map[x]]
<1>1. Delete(v, k) = [v EXCEPT !.map = m]
  BY DEF Delete
<1>2. IsMap(m)
  BY DEF IsMap, IsVolumeOf
<1>3. /\ DOMAIN m \subseteq DOMAIN v.map \cup {k}
      /\ \A x \in DOMAIN v.map \ {k} : x \in DOMAIN m /\ m[x] = v.map[x]
  OBVIOUS
<1> HIDE DEF m
<1>4. /\ Delete(v, k) = [loaded |-> v.loaded, map |-> m]
      /\ Delete(v, k).map = m /\ Delete(v, k).loaded = v.loaded
  BY <1>1, Remapped DEF IsVolumeOf
<1>5. QED
  BY <1>2, <1>3, <1>4 DEF Changes, IsVolumeOf

\* An erase changes what there is.
LEMMA EraseChanges ==
    ASSUME NEW v, IsVolumeOf(v)
    PROVE  Changes(v, Erase(v), DOMAIN v.map)
<1> DEFINE m == [k \in {} |-> <<>>]
<1>1. Erase(v) = [v EXCEPT !.map = m]
  BY DEF Erase
<1>2. IsMap(m) /\ DOMAIN m = {}
  BY DEF IsMap
<1> HIDE DEF m
<1>3. /\ Erase(v) = [loaded |-> v.loaded, map |-> m]
      /\ Erase(v).map = m /\ Erase(v).loaded = v.loaded
  BY <1>1, Remapped DEF IsVolumeOf
<1>4. QED
  BY <1>2, <1>3 DEF Changes, IsVolumeOf

\* And nothing changes nothing.
LEMMA NothingChanges ==
    ASSUME NEW v, IsVolumeOf(v), NEW keys
    PROVE  Changes(v, v, keys)
BY DEF Changes, IsVolumeOf

\* The keys of the two volumes.
LEMMA KeyFits ==
    ASSUME NEW w \in Seq(Plain)
    PROVE  Len(Key(w)) <= KeyLength
<1>1. KeyLength \in Nat
  BY SizesAssumption
<1>2. w \in Seq(Chars)
  BY DEF Plain
<1>3. QED
  BY <1>1, <1>2, CutFits DEF Key

\* A key of the string table is cut to its bits.
LEMMA StrtabKeyFits ==
    ASSUME NEW w
    PROVE  StrtabKey(w) \in 0 .. Wide - 1
<1>1. Number(w) \in Int
  BY NumberAssumption DEF Number, IsNumber
<1>2. Wide \in Nat \ {0}
  BY SizesAssumption
<1>3. QED
  BY <1>1, <1>2 DEF StrtabKey

\* The lists stay as they are while nothing is started or stopped.
LEMMA ListsStay ==
    ASSUME ListTypes, Links, UNCHANGED <<head, after, nextList, inited, started>>,
           reg'.loaded = reg.loaded, str'.loaded = str.loaded
    PROVE  ListTypes' /\ Links'
<1>1. ListTypes'
  BY DEF ListTypes
<1>2. Links'
  BY DEF Links
<1>3. QED
  BY <1>1, <1>2

\* What the invariant says of the volumes outlives a change of the registry.
LEMMA RegistryChanged ==
    ASSUME VolumeTypes, ListTypes, Links, OnlyRegistry, nextList' = nextList,
           NEW keys, Changes(reg, reg', keys),
           \A k \in keys \ DOMAIN reg.map : Len(k) <= KeyLength
    PROVE  VolumeTypes' /\ ListTypes' /\ Links'
<1>1. UNCHANGED <<head, after, str, inited, shellExit, started>>
  BY DEF OnlyRegistry, strsubVars
<1>2. /\ reg' = [loaded |-> reg'.loaded, map |-> reg'.map] /\ IsMap(reg'.map)
      /\ reg'.loaded = reg.loaded /\ DOMAIN reg'.map \subseteq DOMAIN reg.map \cup keys
  BY DEF Changes, IsVolumeOf
<1>3. VolumeTypes'
  BY <1>1, <1>2 DEF VolumeTypes
<1>4. QED
  BY <1>1, <1>2, <1>3, ListsStay

\* And one of the string table.
LEMMA StrtabChanged ==
    ASSUME VolumeTypes, ListTypes, Links, OnlyStrtab, nextList' = nextList,
           NEW keys, Changes(str, str', keys), keys \ DOMAIN str.map \subseteq 0 .. Wide - 1
    PROVE  VolumeTypes' /\ ListTypes' /\ Links'
<1>1. UNCHANGED <<head, after, reg, inited, shellExit, started>>
  BY DEF OnlyStrtab, strsubVars
<1>2. /\ str' = [loaded |-> str'.loaded, map |-> str'.map] /\ IsMap(str'.map)
      /\ str'.loaded = str.loaded /\ DOMAIN str'.map \subseteq DOMAIN str.map \cup keys
  BY DEF Changes, IsVolumeOf
<1>3. VolumeTypes'
  BY <1>1, <1>2 DEF VolumeTypes
<1>4. QED
  BY <1>1, <1>2, <1>3, ListsStay

\* And a step that changes neither.
LEMMA VolumesStay ==
    ASSUME VolumeTypes, ListTypes, Links, SameVolumes, nextList' = nextList
    PROVE  VolumeTypes' /\ ListTypes' /\ Links'
<1>1. UNCHANGED <<head, after, reg, str, inited, shellExit, started>>
  BY DEF SameVolumes, strsubVars, volumeVars
<1>2. VolumeTypes'
  BY <1>1 DEF VolumeTypes
<1>3. QED
  BY <1>1, <1>2, ListsStay

-----------------------------------------------------------------------------
(***************************************************************************)
(* The commands.                                                           *)
(***************************************************************************)

\* The command under way names this entry of the registry.
Named(k) ==
    /\ pc = "run" /\ Top.estate # "inError"
    /\ \/ argv[1] \in {<<"reg">>, <<"regdel">>} /\ k = Cut(argv[2], KeyLength)
       \/ /\ argv[1] = <<"regadd">> /\ k = Cut(argv[2], KeyLength)
          /\ k \notin DOMAIN reg.map
       \/ argv[1] = <<"regerase">>
       \/ argv[1] = <<"regtest">> /\ k = <<"___test___">>

EntriesByName ==
    \A k \in DOMAIN reg.map \cup DOMAIN reg'.map :
        \/ k \in DOMAIN reg.map \cap DOMAIN reg'.map /\ reg'.map[k] = reg.map[k]
        \/ Named(k)

\* A command that names the keys it changes.
LEMMA EntriesNamed ==
    ASSUME NEW keys, Changes(reg, reg', keys), \A k \in keys : Named(k)
    PROVE  EntriesByName
<1>1. ASSUME NEW k \in DOMAIN reg.map \cup DOMAIN reg'.map, k \notin keys
      PROVE  k \in DOMAIN reg.map \cap DOMAIN reg'.map /\ reg'.map[k] = reg.map[k]
  BY <1>1 DEF Changes
<1>2. QED
  BY <1>1 DEF EntriesByName

\* A step that leaves the registry alone.
LEMMA EntriesStay ==
    ASSUME reg' = reg
    PROVE  EntriesByName
BY DEF EntriesByName

\* A command runs in a script that does not skip, and its words hold no zero.
LEMMA CommandRuns ==
    ASSUME ShellInv, NEW names, Command(names)
    PROVE  /\ pc = "run" /\ Top.estate # "inError"
           /\ Len(argv) \in Nat /\ argv[1] = <<argv[1][1]>> /\ argv[1][1] \in names
           /\ \A i \in 1 .. Len(argv) : argv[i] \in Seq(Plain)
<1>1. /\ pc = "run" /\ Top.estate # "inError" /\ argv # <<>>
      /\ Len(argv[1]) = 1 /\ argv[1][1] \in names
  BY DEF Command, Running, Found
<1>2. argv \in Seq(Seq(Plain))
  BY DEF ShellInv, ScriptInv, LineTypes
<1>3. Len(argv) \in Nat /\ 1 \in 1 .. Len(argv)
      /\ \A i \in 1 .. Len(argv) : argv[i] \in Seq(Plain)
  BY <1>1, <1>2
<1>4. argv[1] = <<argv[1][1]>>
  BY <1>1, <1>3, OneLong
<1>5. QED
  BY <1>1, <1>3, <1>4

\* What a command leaves when it returns, and the volumes stay.
LEMMA QuietKeeps ==
    ASSUME ShellInv, pc = "run", NEW res \in Int, Returns(res), SameVolumes
    PROVE  ShellInv' /\ EntriesByName
<1>1. ScriptInv' /\ SubstitutionIsRight'
  BY ReturnsKeeps DEF ShellInv
<1>2. nextList' = nextList
  BY DEF Returns
<1>3. VolumeTypes' /\ ListTypes' /\ Links'
  BY <1>2, VolumesStay DEF ShellInv
<1>4. EntriesByName
  BY EntriesStay DEF SameVolumes, volumeVars
<1>5. QED
  BY <1>1, <1>3, <1>4 DEF ShellInv

\* A command that returns after a change of the registry.
LEMMA RegistryKeeps ==
    ASSUME ShellInv, pc = "run", NEW res \in Int, Returns(res), OnlyRegistry,
           NEW keys, Changes(reg, reg', keys), \A k \in keys : Named(k),
           \A k \in keys \ DOMAIN reg.map : Len(k) <= KeyLength
    PROVE  ShellInv' /\ EntriesByName
<1>1. ScriptInv' /\ SubstitutionIsRight'
  BY ReturnsKeeps DEF ShellInv
<1>2. nextList' = nextList
  BY DEF Returns
<1>3. VolumeTypes' /\ ListTypes' /\ Links'
  BY <1>2, RegistryChanged DEF ShellInv
<1>4. EntriesByName
  BY EntriesNamed
<1>5. QED
  BY <1>1, <1>3, <1>4 DEF ShellInv

\* A command that returns after a change of the string table.
LEMMA StrtabKeeps ==
    ASSUME ShellInv, pc = "run", NEW res \in Int, Returns(res), OnlyStrtab,
           NEW keys, Changes(str, str', keys), keys \ DOMAIN str.map \subseteq 0 .. Wide - 1
    PROVE  ShellInv' /\ EntriesByName
<1>1. ScriptInv' /\ SubstitutionIsRight'
  BY ReturnsKeeps DEF ShellInv
<1>2. nextList' = nextList
  BY DEF Returns
<1>3. VolumeTypes' /\ ListTypes' /\ Links'
  BY <1>2, StrtabChanged DEF ShellInv
<1>4. EntriesByName
  BY EntriesStay DEF OnlyStrtab
<1>5. QED
  BY <1>1, <1>3, <1>4 DEF ShellInv

\* What commands return.
LEMMA Results ==
    /\ {EOK, EFAIL, NOT_FOUND, PARMS, MEMORY, EXIST, EOF} \subseteq Int
    /\ \A v, w : SetResult(v, w) \in Int
BY DEF EOK, EFAIL, NOT_FOUND, PARMS, MEMORY, EXIST, EOF, E_PARM, SetResult

\* The volumes are records of a flag and a map.
LEMMA VolumesAre ==
    ASSUME ShellInv
    PROVE  IsVolumeOf(reg) /\ IsVolumeOf(str)
BY DEF ShellInv, VolumeTypes, IsVolumeOf

\* reg.
LEMMA RegKeeps ==
    ASSUME ShellInv, Reg
    PROVE  ShellInv' /\ EntriesByName
<1>1. /\ pc = "run" /\ Top.estate # "inError" /\ argv[1] = <<"reg">>
      /\ \A i \in 1 .. Len(argv) : argv[i] \in Seq(Plain)
  <2>1. Command({"reg"})
    BY DEF Reg
  <2>2. argv[1] = <<argv[1][1]>> /\ argv[1][1] = "reg"
    BY <2>1, CommandRuns
  <2>3. QED
    BY <2>1, <2>2, CommandRuns
<1>2. Returns(EOK) /\ OnlyRegistry /\ EOK \in Int
  BY Results DEF Reg
<1>3. CASE Len(argv) = 3
  <2> DEFINE k == Key(argv[2])
  <2>1. argv[2] \in Seq(Plain) /\ argv[3] \in Seq(Plain)
    BY <1>1, <1>3
  <2>2. reg' = Set(reg, k, argv[3])
    BY <1>3 DEF Reg
  <2>3. Named(k)
    BY <1>1 DEF Named, Key
  <2>4. Len(k) <= KeyLength
    BY <2>1, KeyFits
  <2> HIDE DEF k
  <2>5. Changes(reg, reg', {k})
    BY <2>1, <2>2, VolumesAre, SetChanges
  <2>6. QED
    BY <1>1, <1>2, <2>3, <2>4, <2>5, RegistryKeeps
<1>4. CASE Len(argv) # 3
  <2>1. reg' = reg
    BY <1>4 DEF Reg
  <2>2. Changes(reg, reg', {})
    BY <2>1, VolumesAre, NothingChanges
  <2>3. QED
    BY <1>1, <1>2, <2>2, RegistryKeeps
<1>5. QED
  BY <1>3, <1>4

\* regadd: a key that has no value is not there, since no stored value is empty.
LEMMA RegAddKeeps ==
    ASSUME ShellInv, RegAdd
    PROVE  ShellInv' /\ EntriesByName
<1>1. /\ pc = "run" /\ Top.estate # "inError" /\ argv[1] = <<"regadd">>
      /\ \A i \in 1 .. Len(argv) : argv[i] \in Seq(Plain)
      /\ Len(argv) \in Nat
  <2>1. Command({"regadd"})
    BY DEF RegAdd
  <2>2. argv[1] = <<argv[1][1]>> /\ argv[1][1] = "regadd"
    BY <2>1, CommandRuns
  <2>3. QED
    BY <2>1, <2>2, CommandRuns
<1>2. OnlyRegistry
  BY DEF RegAdd
<1>3. ASSUME NEW res \in Int, Returns(res), reg' = reg PROVE ShellInv' /\ EntriesByName
  <2>1. Changes(reg, reg', {})
    BY <1>3, VolumesAre, NothingChanges
  <2>2. QED
    BY <1>1, <1>2, <1>3, <2>1, RegistryKeeps
<1>4. CASE Len(argv) < 3
  <2>1. Len(argv) < 3 => ~(Len(argv) >= 3)
    BY <1>1
  <2>2. Returns(PARMS) /\ reg' = reg
    BY <1>4, <2>1, Zenon DEF RegAdd
  <2>3. QED
    BY <1>3, <2>2, Results
<1>5. CASE Len(argv) >= 3
  <2>1. ~(Len(argv) < 3)
    BY <1>1, <1>5
  <2>2. CASE RegGet(argv[2]) # <<>>
    <3>1. Returns(EXIST) /\ reg' = reg
      BY <1>5, <2>1, <2>2, Zenon DEF RegAdd
    <3>2. QED
      BY <1>3, <3>1, Results
  <2>3. CASE RegGet(argv[2]) = <<>>
    <3> DEFINE k == Key(argv[2])
               res == SetResult(reg, argv[3])
    <3>1. reg' = Set(reg, k, argv[3]) /\ Returns(res)
      BY <1>5, <2>1, <2>3, Zenon DEF RegAdd
    <3>2. argv[2] \in Seq(Plain) /\ argv[3] \in Seq(Plain)
      BY <1>1, <1>5
    <3>3. k \notin DOMAIN reg.map
      <4>1. ASSUME k \in DOMAIN reg.map PROVE FALSE
        <5>1. reg.map[k] = <<>>
          BY <2>3, <4>1 DEF RegGet
        <5>2. IsValue(reg.map[k])
          BY <4>1 DEF ShellInv, VolumeTypes, IsMap
        <5>3. Len(<<>>) \in 1 .. ValueMax
          BY <5>1, <5>2 DEF IsValue
        <5>4. Len(<<>>) = 0
          OBVIOUS
        <5>5. QED
          BY <5>3, <5>4, SizesAssumption
      <4>2. QED
        BY <4>1
    <3>4. Named(k)
      BY <1>1, <3>3 DEF Named, Key
    <3>5. Len(k) <= KeyLength
      BY <3>2, KeyFits
    <3>6. res \in Int
      BY Results
    <3> HIDE DEF k, res
    <3>7. Changes(reg, reg', {k})
      BY <3>1, <3>2, VolumesAre, SetChanges
    <3>8. QED
      BY <1>1, <1>2, <3>1, <3>4, <3>5, <3>6, <3>7, RegistryKeeps
  <2>4. QED
    BY <2>2, <2>3
<1>6. QED
  BY <1>1, <1>4, <1>5

\* regdel.
LEMMA RegDelKeeps ==
    ASSUME ShellInv, RegDel
    PROVE  ShellInv' /\ EntriesByName
<1>1. /\ pc = "run" /\ Top.estate # "inError" /\ argv[1] = <<"regdel">>
      /\ \A i \in 1 .. Len(argv) : argv[i] \in Seq(Plain)
  <2>1. Command({"regdel"})
    BY DEF RegDel
  <2>2. argv[1] = <<argv[1][1]>> /\ argv[1][1] = "regdel"
    BY <2>1, CommandRuns
  <2>3. QED
    BY <2>1, <2>2, CommandRuns
<1>2. OnlyRegistry
  BY DEF RegDel
<1>3. CASE Len(argv) = 2
  <2> DEFINE k == Key(argv[2])
  <2>1. argv[2] \in Seq(Plain)
    BY <1>1, <1>3
  <2>2. reg' = Delete(reg, k) /\ Returns(EOK)
    BY <1>3 DEF RegDel
  <2>3. Named(k)
    BY <1>1 DEF Named, Key
  <2>4. Len(k) <= KeyLength
    BY <2>1, KeyFits
  <2> HIDE DEF k
  <2>5. Changes(reg, reg', {k})
    BY <2>2, VolumesAre, DeleteChanges
  <2>6. QED
    BY <1>1, <1>2, <2>2, <2>3, <2>4, <2>5, RegistryKeeps, Results
<1>4. CASE Len(argv) # 2
  <2>1. reg' = reg /\ Returns(PARMS)
    BY <1>4 DEF RegDel
  <2>2. Changes(reg, reg', {})
    BY <2>1, VolumesAre, NothingChanges
  <2>3. QED
    BY <1>1, <1>2, <2>1, <2>2, RegistryKeeps, Results
<1>5. QED
  BY <1>3, <1>4

\* regerase.
LEMMA RegEraseKeeps ==
    ASSUME ShellInv, RegErase
    PROVE  ShellInv' /\ EntriesByName
<1>1. Command({"regerase"}) /\ reg' = Erase(reg) /\ Returns(EOK) /\ OnlyRegistry
  BY DEF RegErase
<1>2. pc = "run" /\ Top.estate # "inError" /\ argv[1] = <<"regerase">>
  <2>1. argv[1] = <<argv[1][1]>> /\ argv[1][1] = "regerase"
    BY <1>1, CommandRuns
  <2>2. QED
    BY <1>1, <2>1, CommandRuns
<1>3. Changes(reg, reg', DOMAIN reg.map)
  BY <1>1, VolumesAre, EraseChanges
<1>4. \A k \in DOMAIN reg.map : Named(k)
  BY <1>2 DEF Named
<1>5. \A k \in DOMAIN reg.map \ DOMAIN reg.map : Len(k) <= KeyLength
  OBVIOUS
<1>6. QED
  BY <1>1, <1>2, <1>3, <1>4, <1>5, RegistryKeeps, Results

\* regtest.
LEMMA RegTestKeeps ==
    ASSUME ShellInv, RegTest
    PROVE  ShellInv' /\ EntriesByName
<1> DEFINE n == SetResult(reg, <<"000000000000">>)
           k == <<"___test___">>
           res == IF n < 0 THEN EFAIL ELSE EOK
<1>1. /\ Command({"regtest"}) /\ OnlyRegistry
      /\ reg' = IF n < 0 THEN reg ELSE Delete(reg, k)
      /\ Returns(res)
  BY DEF RegTest
<1>2. pc = "run" /\ Top.estate # "inError" /\ argv[1] = <<"regtest">>
  <2>1. argv[1] = <<argv[1][1]>> /\ argv[1][1] = "regtest"
    BY <1>1, CommandRuns
  <2>2. QED
    BY <1>1, <2>1, CommandRuns
<1>3. Named(k)
  BY <1>2 DEF Named
<1>4. Len(k) <= KeyLength
  <2>1. Len(k) = 1
    OBVIOUS
  <2>2. QED
    BY <2>1, SizesAssumption
<1>5. res \in Int
  BY Results
<1> HIDE DEF k, n, res
<1>6. Changes(reg, reg', {k})
  BY <1>1, VolumesAre, DeleteChanges, NothingChanges
<1>7. QED
  BY <1>1, <1>2, <1>3, <1>4, <1>5, <1>6, RegistryKeeps

\* strtab and strtabchk when they set an entry.
LEMMA StrtabSets ==
    ASSUME ShellInv, \A i \in 1 .. Len(argv) : argv[i] \in Seq(Plain), Len(argv) \in Nat,
           Len(argv) > 2, pc = "run", Returns(EOK), OnlyStrtab,
           str' = Set(str, StrtabKey(argv[2]), argv[3])
    PROVE  ShellInv' /\ EntriesByName
<1> DEFINE k == StrtabKey(argv[2])
<1>1. argv[3] \in Seq(Plain)
  OBVIOUS
<1>2. {k} \subseteq 0 .. Wide - 1
  BY StrtabKeyFits
<1> HIDE DEF k
<1>3. str' = Set(str, k, argv[3])
  BY DEF k
<1>4. Changes(str, str', {k})
  BY <1>1, <1>3, VolumesAre, SetChanges
<1>5. QED
  BY <1>2, <1>4, StrtabKeeps, Results

\* And when they do not.
LEMMA StrtabSame ==
    ASSUME ShellInv, pc = "run", Returns(EOK), OnlyStrtab, str' = str
    PROVE  ShellInv' /\ EntriesByName
<1>1. Changes(str, str', {})
  BY VolumesAre, NothingChanges
<1>2. QED
  BY <1>1, StrtabKeeps, Results

\* strtab.
LEMMA StrtabCommandKeeps ==
    ASSUME ShellInv, Strtab
    PROVE  ShellInv' /\ EntriesByName
<1>1. /\ Command({"strtab"}) /\ Returns(EOK) /\ OnlyStrtab
      /\ str' = IF Len(argv) > 2 THEN Set(str, StrtabKey(argv[2]), argv[3]) ELSE str
  BY DEF Strtab, StrtabSet
<1>2. pc = "run" /\ Len(argv) \in Nat /\ \A i \in 1 .. Len(argv) : argv[i] \in Seq(Plain)
  BY <1>1, CommandRuns
<1>3. CASE Len(argv) > 2
  BY <1>1, <1>2, <1>3, StrtabSets
<1>4. CASE ~(Len(argv) > 2)
  BY <1>1, <1>2, <1>4, StrtabSame
<1>5. QED
  BY <1>3, <1>4

\* strtabchk, whether or not it finds what is there.
LEMMA StrtabChkKeeps ==
    ASSUME ShellInv, StrtabChk
    PROVE  ShellInv' /\ EntriesByName
<1>1. /\ Command({"strtabchk"}) /\ Returns(EOK) /\ OnlyStrtab
      /\ \/ Len(argv) > 2 /\ str' = Set(str, StrtabKey(argv[2]), argv[3])
         \/ str' = str
  BY DEF StrtabChk, StrtabSet
<1>2. pc = "run" /\ Len(argv) \in Nat /\ \A i \in 1 .. Len(argv) : argv[i] \in Seq(Plain)
  BY <1>1, CommandRuns
<1>3. QED
  BY <1>1, <1>2, StrtabSets, StrtabSame

\* strtaberase.
LEMMA StrtabEraseKeeps ==
    ASSUME ShellInv, StrtabErase
    PROVE  ShellInv' /\ EntriesByName
<1>1. Command({"strtaberase"}) /\ str' = Erase(str) /\ Returns(EOK) /\ OnlyStrtab
  BY DEF StrtabErase
<1>2. pc = "run"
  BY <1>1, CommandRuns
<1>3. Changes(str, str', DOMAIN str.map)
  BY <1>1, VolumesAre, EraseChanges
<1>4. DOMAIN str.map \ DOMAIN str.map \subseteq 0 .. Wide - 1
  OBVIOUS
<1>5. QED
  BY <1>1, <1>2, <1>3, <1>4, StrtabKeeps, Results

\* The commands that leave the volumes alone.
LEMMA OtherCommandsKeep ==
    ASSUME ShellInv, RegStats \/ Echo \/ FileCommand \/ Cat
    PROVE  ShellInv' /\ EntriesByName
<1>1. SameVolumes /\ \E res \in Int : Returns(res)
  BY Results DEF RegStats, Echo, FileCommand, Cat, ReadResults
<1>2. pc = "run"
  BY CommandRuns DEF RegStats, Echo, FileCommand, Cat
<1>3. QED
  BY <1>1, <1>2, QuietKeeps

\* source.
LEMMA SourceKeeps ==
    ASSUME ShellInv, Source
    PROVE  ShellInv' /\ EntriesByName
<1>1. pc = "run" /\ SameVolumes /\ Len(argv) \in Nat
  BY CommandRuns DEF Source
<1>2. \/ \E res \in {PARMS, NOT_FOUND, EOF} : Returns(res)
      \/ argv[2] \in DOMAIN Files /\ RunNested(Files[argv[2]])
  <2>1. CASE Len(argv) < 2
    <3>1. ~(Len(argv) >= 2)
      BY <1>1, <2>1
    <3>2. Returns(PARMS)
      BY <2>1, <3>1, Zenon DEF Source
    <3>3. QED
      BY <3>2
  <2>2. CASE Len(argv) >= 2
    <3>1. ~(Len(argv) < 2)
      BY <1>1, <2>2
    <3>2. CASE argv[2] \notin DOMAIN Files
      <4>1. Returns(NOT_FOUND)
        BY <2>2, <3>1, <3>2, Zenon DEF Source
      <4>2. QED
        BY <4>1
    <3>3. CASE argv[2] \in DOMAIN Files
      <4>1. IF Files[argv[2]] = <<>> THEN Returns(EOF) ELSE RunNested(Files[argv[2]])
        BY <2>2, <3>1, <3>3, Zenon DEF Source
      <4>2. QED
        BY <3>3, <4>1
    <3>4. QED
      BY <3>2, <3>3
  <2>3. QED
    BY <1>1, <2>1, <2>2
<1>3. CASE \E res \in {PARMS, NOT_FOUND, EOF} : Returns(res)
  BY <1>1, <1>3, QuietKeeps, Results
<1>4. CASE argv[2] \in DOMAIN Files /\ RunNested(Files[argv[2]])
  <2> DEFINE script == Files[argv[2]]
  <2>1. script \in Seq(Chars)
    BY <1>4, TextsAssumption
  <2>2. RunNested(script)
    BY <1>4
  <2> HIDE DEF script
  <2>3. ScriptInv' /\ SubstitutionIsRight'
    BY <1>1, <2>1, <2>2, RunNestedKeeps DEF ShellInv
  <2>4. nextList' = nextList
    BY <2>2 DEF RunNested, Returns
  <2>5. VolumeTypes' /\ ListTypes' /\ Links'
    BY <1>1, <2>4, VolumesStay DEF ShellInv
  <2>6. EntriesByName
    BY <1>1, EntriesStay DEF SameVolumes, volumeVars
  <2>7. QED
    BY <2>3, <2>5, <2>6 DEF ShellInv
<1>5. QED
  BY <1>2, <1>3, <1>4

\* exit.
LEMMA ExitKeeps ==
    ASSUME ShellInv, Exit
    PROVE  ShellInv' /\ EntriesByName
<1>1. /\ Command({"exit"}) /\ Returns(EOK)
      /\ UNCHANGED <<strsubVars, reg, str, inited, started>>
  BY DEF Exit
<1>2. pc = "run"
  BY <1>1, CommandRuns
<1>3. ScriptInv' /\ SubstitutionIsRight'
  BY <1>1, <1>2, ReturnsKeeps, Results DEF ShellInv
<1>4. UNCHANGED <<head, after, nextList, reg, str, inited, started>>
  BY <1>1 DEF Returns, strsubVars
<1>5. VolumeTypes'
  BY <1>4 DEF ShellInv, VolumeTypes
<1>6. ListTypes' /\ Links'
  BY <1>4, ListsStay DEF ShellInv
<1>7. EntriesByName
  BY <1>4, EntriesStay
<1>8. QED
  BY <1>3, <1>5, <1>6, <1>7 DEF ShellInv

\* Every command.
LEMMA CommandsKeep ==
    ASSUME ShellInv, Commands
    PROVE  ShellInv' /\ EntriesByName
BY RegKeeps, RegAddKeeps, RegDelKeeps, RegEraseKeeps, RegTestKeeps, StrtabCommandKeeps,
   StrtabChkKeeps, StrtabEraseKeeps, OtherCommandsKeep, SourceKeeps, ExitKeeps
   DEF Commands

-----------------------------------------------------------------------------
(***************************************************************************)
(* The invariant.                                                          *)
(***************************************************************************)

\* It holds at first.
LEMMA InitShell ==
    ASSUME Init
    PROVE  ShellInv
<1>1. /\ head = [t \in Tokens |-> NoHandler] /\ after = [h \in Handlers |-> NoHandler]
      /\ nextList = [l \in Lists \cup {"static"} |-> NoList]
      /\ stack = <<>> /\ pc = "idle" /\ line = <<>> /\ text = <<>> /\ argv = <<>>
      /\ ret = 0 /\ corshellStatus = 0 /\ ended = NotEnded
      /\ inited = FALSE /\ started = <<>>
  BY DEF Init, StrsubInit, CorshellInit, EOK
<1>2. reg = Empty /\ str = Empty
  BY DEF Init
<1>3. reg.loaded = FALSE /\ str.loaded = FALSE /\ DOMAIN reg.map = {} /\ DOMAIN str.map = {}
  BY <1>2 DEF Empty
<1>4. VolumeTypes
  <2>1. IsVolumeOf(Empty) /\ DOMAIN Empty.map = {} /\ Empty.loaded = FALSE
    BY DEF IsVolumeOf, IsMap, Empty
  <2>2. QED
    BY <1>2, <2>1 DEF VolumeTypes, IsVolumeOf
<1>5. ListTypes
  <2>1. after \in [Handlers -> Handlers \cup {NoHandler}]
    BY <1>1
  <2>2. after["registry"] = NoHandler /\ after["strtab"] = NoHandler
    BY <1>1, BothNames
  <2>3. nextList \in [Lists \cup {"static"} -> Lists \cup {"static", NoList}]
    BY <1>1
  <2>4. head = [t \in Tokens |->
                  IF t = "square" /\ reg.loaded THEN "registry"
                  ELSE IF t = "angle" /\ inited THEN "strtab" ELSE NoHandler]
    BY <1>1, <1>3
  <2>5. QED
    BY <1>1, <2>1, <2>2, <2>3, <2>4 DEF ListTypes
<1>6. Links
  <2>1. nextList["static"] = NoList
    BY <1>1
  <2>2. QED
    BY <1>1, <1>3, <2>1 DEF Links
<1>7. ShellTypes
  <2>1. stack \in Seq(Frames) /\ (pc = "idle") = (stack = <<>>)
    BY <1>1
  <2>2. ended \in [res : Int, failed : BOOLEAN, cleared : BOOLEAN, sticky : BOOLEAN,
                   some : BOOLEAN]
    BY <1>1 DEF NotEnded
  <2>3. QED
    BY <1>1, <2>1, <2>2 DEF ShellTypes, EOK
<1>8. LineTypes
  BY <1>1, Limits DEF LineTypes
<1>9. ErrorsKept
  <2>1. 1 .. Len(stack) = {}
    BY <1>1
  <2>2. QED
    BY <1>1, <2>1 DEF ErrorsKept
<1>10. ErrorsAreReported
  BY <1>1 DEF ErrorsAreReported, NotEnded
<1>11. SubstitutionIsRight
  BY <1>1 DEF SubstitutionIsRight
<1>12. QED
  BY <1>4, <1>5, <1>6, <1>7, <1>8, <1>9, <1>10, <1>11 DEF ShellInv, ScriptInv

\* Nothing changes an entry when the maps stay.
LEMMA MapsStay ==
    ASSUME reg'.map = reg.map
    PROVE  EntriesByName
BY DEF EntriesByName

\* Starts and stops, while no script runs.
LEMMA StartsShell ==
    ASSUME ShellInv, Starts
    PROVE  ShellInv' /\ EntriesByName
<1>1. ScriptInv' /\ SubstitutionIsRight'
  BY StartsKeep DEF ShellInv
<1>2. VolumeTypes /\ ListTypes /\ Links
  BY DEF ShellInv
<1>3. ListTypes' /\ Links'
  BY <1>2, RegistryStartLinks, RegistryStopLinks, StrtabInitLinks, StrtabStartLinks,
     StrtabStopLinks DEF Starts
<1>4. \E b, c \in BOOLEAN : /\ reg' = [reg EXCEPT !.loaded = b]
                            /\ str' = [str EXCEPT !.loaded = c]
  <2>1. /\ reg = [reg EXCEPT !.loaded = reg.loaded] /\ reg.loaded \in BOOLEAN
        /\ str = [str EXCEPT !.loaded = str.loaded] /\ str.loaded \in BOOLEAN
    BY <1>2 DEF VolumeTypes
  <2>2. CASE RegistryStart
    BY <2>1, <2>2 DEF RegistryStart
  <2>3. CASE RegistryStop
    BY <2>1, <2>3 DEF RegistryStop
  <2>4. CASE StrtabInit
    BY <2>1, <2>4 DEF StrtabInit
  <2>5. CASE StrtabStart
    BY <2>1, <2>5 DEF StrtabStart
  <2>6. CASE StrtabStop
    BY <2>1, <2>6 DEF StrtabStop
  <2>7. QED
    BY <2>2, <2>3, <2>4, <2>5, <2>6 DEF Starts
<1>5. PICK b, c \in BOOLEAN : /\ reg' = [reg EXCEPT !.loaded = b]
                              /\ str' = [str EXCEPT !.loaded = c]
  BY <1>4
<1>6. /\ reg' = [loaded |-> b, map |-> reg.map] /\ reg'.map = reg.map /\ reg'.loaded = b
      /\ str' = [loaded |-> c, map |-> str.map] /\ str'.map = str.map /\ str'.loaded = c
  BY <1>2, <1>5 DEF VolumeTypes
<1>7. VolumeTypes'
  BY <1>2, <1>6 DEF VolumeTypes
<1>8. EntriesByName
  BY <1>6, MapsStay
<1>9. QED
  BY <1>1, <1>3, <1>7, <1>8 DEF ShellInv

\* The steps of a script, of the prompt and of the status leave the volumes alone.
LEMMA ScriptShell ==
    ASSUME ShellInv, Script \/ Prompt \/ (ClearLastError /\ SameVolumes)
    PROVE  ShellInv' /\ EntriesByName
<1>1. SameVolumes
  BY DEF Script, Prompt
<1>2. ScriptInv /\ VolumeTypes /\ ListTypes /\ Links
  BY DEF ShellInv
<1>3. ASSUME ScriptInv', SubstitutionIsRight', nextList' = nextList
      PROVE  ShellInv' /\ EntriesByName
  <2>1. VolumeTypes' /\ ListTypes' /\ Links'
    BY <1>1, <1>2, <1>3, VolumesStay
  <2>2. EntriesByName
    BY <1>1, EntriesStay DEF SameVolumes, volumeVars
  <2>3. QED
    BY <1>3, <2>1, <2>2 DEF ShellInv
<1>4. CASE \E l \in {Reached} : \E answer \in {Answers(l)} : Fetch(answer)
  <2>1. PICK answer : answer = Answers(Reached) /\ Fetch(answer)
    BY <1>4
  <2>2. nextList' = nextList
    BY <2>1 DEF Fetch
  <2>3. QED
    BY <1>1, <1>2, <1>3, <2>1, <2>2, FetchKeeps
<1>5. CASE EmptyLine
  <2>1. pc = "run" /\ NextLine(Top) /\ NoLine
        /\ UNCHANGED <<nextList, ret, corshellStatus, ended>>
    BY <1>5 DEF EmptyLine
  <2>2. QED
    BY <1>2, <1>3, <2>1, LinePassedKeeps
<1>6. CASE SkipLine
  <2>1. pc = "run" /\ NextLine(Top) /\ NoLine
        /\ UNCHANGED <<nextList, ret, corshellStatus, ended>>
    BY <1>6 DEF SkipLine
  <2>2. QED
    BY <1>2, <1>3, <2>1, LinePassedKeeps
<1>7. CASE ScriptExit
  BY <1>2, <1>3, <1>7, ScriptExitKeeps DEF ScriptExit
<1>8. CASE OnError
  BY <1>2, <1>3, <1>8, OnErrorKeeps DEF OnError
<1>9. CASE ClearError
  BY <1>2, <1>3, <1>9, ClearErrorKeeps DEF ClearError
<1>10. CASE Comment \/ NotFound \/ Usage \/ Help \/ Version \/ Nop
  <2>1. pc = "run"
    BY <1>10 DEF Comment, NotFound, Usage, Help, Version, Nop, Command, Running
  <2>2. \E res \in Int : Returns(res)
    <3>1. CASE Comment \/ NotFound \/ Usage \/ Help \/ Version
      BY <3>1, Results DEF Comment, NotFound, Usage, Help, Version
    <3>2. CASE Nop
      <4>1. ScanInt(argv[2]) \in Int
        BY NumberAssumption DEF ScanInt, Number, IsNumber
      <4>2. QED
        BY <3>2, <4>1, Results DEF Nop
    <3>3. QED
      BY <1>10, <3>1, <3>2
  <2>3. QED
    BY <1>1, <2>1, <2>2, QuietKeeps
<1>11. CASE AfterCommand
  BY <1>2, <1>3, <1>11, AfterCommandKeeps DEF AfterCommand, NextLine
<1>12. CASE ScriptEnd
  BY <1>2, <1>3, <1>12, ScriptEndKeeps DEF ScriptEnd
<1>13. CASE Prompt
  <2>1. PICK script \in Lines : ScriptStart(script)
    BY <1>13 DEF Prompt
  <2>2. script \in Seq(Chars)
    BY TextsAssumption
  <2>3. nextList' = nextList
    BY <2>1 DEF ScriptStart
  <2>4. QED
    BY <1>2, <1>3, <2>1, <2>2, <2>3, ScriptStartKeeps
<1>14. CASE ClearLastError
  BY <1>2, <1>3, <1>14, ClearLastErrorKeeps DEF ClearLastError
<1>15. QED
  BY <1>4, <1>5, <1>6, <1>7, <1>8, <1>9, <1>10, <1>11, <1>12, <1>13, <1>14 DEF Script

\* A step that changes nothing.
LEMMA StutterShell ==
    ASSUME ShellInv, UNCHANGED vars
    PROVE  ShellInv'
<1>1. UNCHANGED <<head, after, nextList, stack, pc, line, text, argv, ret, corshellStatus,
                  ended, reg, str, inited, started>>
  BY DEF vars
<1>2. ShellTypes' /\ LineTypes'
  BY <1>1 DEF ShellInv, ScriptInv, ShellTypes, LineTypes
<1>3. ErrorsKept' /\ ErrorsAreReported'
  BY <1>1 DEF ShellInv, ScriptInv, ErrorsKept, ErrorsAreReported, Top
<1>4. VolumeTypes' /\ ListTypes' /\ Links'
  BY <1>1 DEF ShellInv, VolumeTypes, ListTypes, Links
<1>5. SubstitutionIsRight'
  <2>1. CASE pc = "run"
    <3>1. PICK l : l = line
      OBVIOUS
    <3>2. PICK t : t = text
      OBVIOUS
    <3>3. t = Cut(Expand(l, Answers(l)), SubMax - 1)
      BY <2>1, <3>1, <3>2 DEF ShellInv, SubstitutionIsRight
    <3>4. QED
      BY <1>1, <3>1, <3>2, <3>3, SubstitutionOf
  <2>2. CASE pc # "run"
    BY <1>1, <2>2 DEF SubstitutionIsRight
  <2>3. QED
    BY <2>1, <2>2
<1>6. QED
  BY <1>2, <1>3, <1>4, <1>5 DEF ShellInv, ScriptInv

\* Every step.
LEMMA NextShell ==
    ASSUME ShellInv, Next
    PROVE  ShellInv' /\ EntriesByName
BY StartsShell, ScriptShell, CommandsKeep DEF Next

-----------------------------------------------------------------------------
(***************************************************************************)
(* The properties.                                                         *)
(***************************************************************************)

\* ShellInv is an invariant of the shell, whatever is installed, typed or in files.
THEOREM ShellInvariant == Spec => []ShellInv
<1>1. Init => ShellInv
  BY InitShell
<1>2. ShellInv /\ [Next]_vars => ShellInv'
  BY NextShell, StutterShell
<1>3. QED
  BY <1>1, <1>2, PTL DEF Spec

\* TypeOK: where a script is, what a line, its text and its words may hold, and what
\* the volumes are (corshell_script_run, registry.c, strtab.c).
THEOREM ShellTypesOK == Spec => []TypeOK
<1>1. ASSUME ShellInv PROVE TypeOK
  <2>1. ShellTypes /\ LineTypes /\ VolumeTypes
    BY <1>1 DEF ShellInv, ScriptInv
  <2>2. /\ pc \in {"idle", "fetch", "run", "ret", "end"} /\ (pc = "idle") = (stack = <<>>)
        /\ corshellStatus <= EOK
    BY <2>1 DEF ShellTypes
  <2>3. /\ pc # "run" => argv = <<>> /\ line = <<>> /\ text = <<>>
        /\ Len(line) <= LineMax /\ Len(text) < SubMax /\ Len(argv) <= ArgMax
    BY <2>1 DEF LineTypes
  <2>4. ASSUME NEW f \in ToSet(stack)
        PROVE  f.estate \in {"normal", "inHandler", "inError"} /\ f.lasterror <= EOK
    <3>1. stack \in Seq(Frames)
      BY <2>1 DEF ShellTypes
    <3>2. f \in Frames
      BY <3>1 DEF ToSet
    <3>3. QED
      BY <3>2 DEF Frames
  <2>5. IsVolume(reg) /\ IsVolume(str)
    <3>1. /\ reg = [loaded |-> reg.loaded, map |-> reg.map] /\ reg.loaded \in BOOLEAN
          /\ str = [loaded |-> str.loaded, map |-> str.map] /\ str.loaded \in BOOLEAN
      BY <2>1 DEF VolumeTypes
    <3>2. DOMAIN reg = {"loaded", "map"} /\ DOMAIN str = {"loaded", "map"}
      BY <3>1
    <3>3. QED
      BY <3>1, <3>2 DEF IsVolume
  <2>6. /\ \A k \in DOMAIN reg.map : Len(k) <= KeyLength
        /\ DOMAIN str.map \subseteq 0 .. Wide - 1
    BY <2>1 DEF VolumeTypes
  <2>7. QED
    BY <2>2, <2>3, <2>4, <2>5, <2>6 DEF TypeOK
<1>2. QED
  BY <1>1, ShellInvariant, PTL

\* ListsAreExact: the lists of commands and of handlers are linked as what is started
\* says, in whatever order it was started and stopped (strsub.c, corshell.c: the
\* install and uninstall functions).
THEOREM ListsStayExact == Spec => []ListsAreExact
<1>1. ASSUME ShellInv PROVE ListsAreExact
  <2>1. ListTypes /\ Links
    BY <1>1 DEF ShellInv
  <2>2. QED
    BY <2>1, LinkedInOrder, HandlerChains DEF ListsAreExact
<1>2. QED
  BY <1>1, ShellInvariant, PTL

\* SubstitutionIsRight: strsub_parse writes the substitution of the line, cut to the
\* buffer, for every line and whatever the volumes hold.
THEOREM SubstitutionStaysRight == Spec => []SubstitutionIsRight
<1>1. ShellInv => SubstitutionIsRight
  BY DEF ShellInv
<1>2. QED
  BY <1>1, ShellInvariant, PTL

\* ErrorsAreReported: the result of corshell_script_run is that of the last error of
\* the script, however deep the scripts are nested.
THEOREM ErrorsStayReported == Spec => []ErrorsAreReported
<1>1. ShellInv => ErrorsAreReported
  BY DEF ShellInv, ScriptInv
<1>2. QED
  BY <1>1, ShellInvariant, PTL

\* StoredValuesAreStrings: a value stored by a command ends with the one zero it has
\* (registrycmd.c, strtabcmd.c over corshell_cmd_split).
THEOREM ValuesStayStrings == Spec => []StoredValuesAreStrings
<1>1. ASSUME ShellInv PROVE StoredValuesAreStrings
  <2>1. IsMap(reg.map) /\ IsMap(str.map)
    BY <1>1 DEF ShellInv, VolumeTypes
  <2>2. ASSUME NEW v, IsValue(v)
        PROVE  v # <<>> /\ Len(v) <= ValueMax /\ {i \in DOMAIN v : v[i] = "nul"} = {Len(v)}
    <3>1. v \in Seq(Chars) /\ Len(v) \in 1 .. ValueMax
          /\ \A i \in 1 .. Len(v) : v[i] = "nul" <=> i = Len(v)
      BY <2>2 DEF IsValue
    <3>2. DOMAIN v = 1 .. Len(v) /\ Len(v) \in 1 .. Len(v) /\ Len(v) <= ValueMax
      BY <3>1, SizesAssumption
    <3>3. v # <<>>
      BY <3>1, SizesAssumption
    <3>4. {i \in DOMAIN v : v[i] = "nul"} = {Len(v)}
      BY <3>1, <3>2
    <3>5. QED
      BY <3>2, <3>3, <3>4
  <2>3. QED
    BY <2>1, <2>2 DEF IsMap, StoredValuesAreStrings
<1>2. QED
  BY <1>1, ShellInvariant, PTL

\* EntriesChangeByName: an entry of the registry comes, changes or goes only by a
\* command that is run and names it (registrycmd.c over registry.c).
THEOREM EntriesNamedToChange == Spec => EntriesChangeByName
<1>1. ShellInv /\ [Next]_vars => [EntriesByName]_vars
  BY NextShell
<1>2. Spec => [][EntriesByName]_vars
  BY <1>1, ShellInvariant, PTL DEF Spec
<1>3. QED
  BY <1>2 DEF EntriesChangeByName, EntriesByName, Named
=============================================================================
