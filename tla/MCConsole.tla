----------------------------- MODULE MCConsole ------------------------------
(* The shell with its two volumes, and lines that make them meet.            *)
EXTENDS Console

\* A text, its words put apart by spaces.
Spaced(words) ==
    FoldLeft(LAMBDA s, w : IF s = <<>> THEN w ELSE s \o <<"sp">> \o w, <<>>, words)
Rows(texts) ==
    FoldLeft(LAMBDA s, t : IF s = <<>> THEN t ELSE s \o <<"nl">> \o t, <<>>, texts)

SomeNumbers == [n \in {"1", "-3", "65537"} |->
                   CASE n = "1" -> 1 [] n = "-3" -> -3 [] OTHER -> 65537]
SomeCommands == [l \in {"registry", "strtab"} |->
    IF l = "registry"
      THEN {"reg", "regadd", "regdel", "regstats", "regerase", "regtest"}
      ELSE {"strtab", "strtabchk", "strtaberase", "strtabstats"}]

Nop3 == <<"nop", "sp", "-3">>
AddK == <<"regadd", "sp", "k", "sp", "x">>

SomeFiles ==
    <<"empty">> :> <<>>
    @@ <<"bad">> :> Rows(<<Nop3, AddK>>)
    @@ <<"mends">> :> Rows(<<Nop3, <<":onerror">>, <<":clearerror">>, AddK>>)
    @@ <<"both">> :> Rows(<<<<"source", "sp", "bad">>, <<":onerror">>,
                            <<"source", "sp", "mends">>>>)

Calls == {
    AddK,
    <<"regadd", "sp", "k", "l", "sp", "x", "y", "x">>,
    <<"regadd", "sp", "l", "sp", "x", "y", "x", "y">>,
    <<"reg", "sp", "l", "sp", "[", "k", "]">>,
    <<"regdel", "sp", "k", "k">>,
    <<"regdel", "sp", "l">>,
    <<"regdel">>,
    <<"regtest">>,
    <<"regerase">>,
    <<"strtab", "sp", "65537", "sp", "dq", "y", "sp", "dq">>,
    <<"strtabchk", "sp", "1", "sp", "dq", "y", "sp", "dq">>,
    <<"strtaberase">>,
    <<"source", "sp", "both">>, <<"source", "sp", "empty">>, <<"source", "sp", "bad">>,
    <<"cat">>, <<"cat", "sp", "k">>,
    <<"exit">> }

Scripts == {
    <<>>,
    Rows(<<<<"nop", "sp", "k">>, Nop3, <<"cat">>, <<":onerror", "sp", "-3">>,
           <<"source", "sp", "mends">>, <<":clearerror">>, <<"regstats">>>>),
    Rows(<<<<"k">>, <<":onerror", "sp", "1">>, AddK, <<":clearerror">>,
           <<":exit">>, AddK>>),
    Rows(<<Nop3, <<":onerror">>, <<"nop">>>>),
    Rows(<<<<":onerror">>, AddK, <<":clearerror">>, <<"help", "sp", "?">>,
           <<"version">>>>),
    Rows(<<<<"help">>, <<"nl">>, <<"ls">>,
           <<"echo", "sp", "sp", "sp", "sp", "sp", "sp", "sp", "cd">>,
           <<"sq", "dq", "sq">>>>) }

\* Comments, which only substitute: every text of three of these characters with
\* an opening token in it, and what may stand next to a word.
Marks == {"k", "[", "]", "esc"}
Shorts ==
    {c \in [1 .. 3 -> Marks] : \E i \in 1 .. 3 : c[i] = "["}
    \cup {<<m>> \o <<"[", "k", "]">> : m \in Marks}
    \cup {<<"[", "k", "]">> \o c : c \in {<<m>> : m \in Marks} \cup [1 .. 3 -> {"[", "k", "]"}]}
    \cup {<<"<", n, ">">> : n \in {"1", "k", "65537"}}
    \cup {<<"<">>, <<"<", "1", "k", ">", "x">>, <<"<", "[", "k", "]", ">">>}
Comments == {<<"#">> \o c : c \in Shorts}

\* "echo [k] is [k]"
EchoLines == {AddK, <<"echo", "sp", "[", "k", "]", "sp", "is", "sp", "[", "k", "]">>}

ShellLines == Comments \cup Calls \cup Scripts

ShellChars ==
    {"nul", "junk", "esc", "[", "]", "%", "<", ">"}
    \cup UNION {ToSet(t) : t \in ShellLines \cup EchoLines \cup {SomeFiles[f] : f \in DOMAIN SomeFiles}}
=============================================================================
