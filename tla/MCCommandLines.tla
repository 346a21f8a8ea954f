--------------------------- MODULE MCCommandLines ---------------------------
\* Instances of Dbi and Main: the command lines of both binaries, one process
\* at a time. Those of the server's binary do not look at the projects, and
\* are run before the first call.
EXTENDS Commands, TLC

MCNames  == {"a"}
MCTyped  == {"a", "a?", " a", "/a", ".", "odd"}

\* "/a" is redirected to a, or to a's rotate, "." to the list or to "rotate".
To(n, clean) == [to |-> n, clean |-> clean]
MCTrimmed    == [t \in MCTyped |-> IF t \in {"a", " a"} THEN "a" ELSE "none"]
MCPathOf     ==
    [op \in PathOps |-> [t \in MCTyped |->
        CASE t \in {"a", " a"}               -> To("a", TRUE)
          [] t = "a?" /\ op # "rotate"       -> To("a", TRUE)
          [] t = "/a" /\ op # "rotate"       -> To("a", FALSE)
          [] t = "."  /\ op # "rotate"       -> To("page", FALSE)
          [] t \in {"/a", "."} /\ op = "rotate" -> To("none", FALSE)
          [] OTHER                           -> To("none", TRUE)]]

UpTo(S, n) == UNION {[1 .. k -> S] : k \in 0 .. n}

\* dbi: up to two words before the subcommand, three after it.
First == UpTo({Bare("--json"), Bare("--token"), Bare("-token"), Plain("a")}, 2)
         \cup {<<Bare("--help")>>, <<Bare("--confirm")>>,
               <<Bare("-token"), Bare("--token"), Plain("a")>>,
               <<Bare("--url"), Plain("list"), Bare("--json")>>}
After == UpTo({Plain("a"), Bare("--confirm")}, 3)
         \cup {<<Plain("a"), [flag |-> "--confirm", text |-> "a"]>>,
               <<Plain("a?"), Bare("--confirm"), Plain("a")>>,
               <<Plain("a"), Bare("--json")>>, <<Bare("--json")>>}

Subcommands == {"list", "create", "rotate", "delete", "status", "help"}
Unusual == {" a", "/a", "."}
MCLines == {<<Bare("--token"), Plain("a"), Plain(c), Plain(t), Bare("--confirm"), Plain(n)>> :
               c \in Subcommands, t \in Unusual, n \in {"a", " a"}}
           \cup {<<Bare(f), [flag |-> "--json", text |-> b], Plain(c), Plain("a")>> :
               f \in {"--json", "--token"}, b \in {"true", "false", "a"}, c \in {"status", "delete"}}
           \cup {f \o <<Plain(c)>> \o r : f \in First, c \in Subcommands, r \in {<< >>, <<Plain("a")>>}}
           \cup {<<Bare("--token"), Plain("a")>> \o <<Plain(c)>> \o r : c \in Subcommands, r \in After}
           \cup First

----------------------------------------------------------------------------
\* The server's binary: many command lines on one host, many settings with
\* one command line, many my.cnf files.
S == INSTANCE Settings

Arg(dash, name, text) == [dash |-> dash, name |-> name, text |-> text]
NoText == "no text"
Path   == "/etc/config.yaml"

w(n) == Arg("", "", n)
Flag(n) == {<<Arg("--", n, NoText)>>, <<Arg("--", n, NoText), w("p")>>,
            <<Arg("--", n, "p")>>, <<Arg("-", n, NoText), w("p")>>}
Given == UNION {Flag(n) : n \in {"config", "addr", "name"}}
         \cup {<<Arg("--", "id", NoText), w("1")>>, <<Arg("--", "id", NoText), w("0")>>, <<Arg("--", "limit", NoText), w("5")>>}
Args == {<<w(c)>> : c \in {"help", "other"}} \cup {<< >>}
        \cup {<<a>> : a \in {Arg("-", "h", NoText), Arg("--", "help", NoText), Arg("--", "h", NoText),
                             Arg("-", "help", NoText), Arg("--", "help", "x"), Arg("--", "x", "server")}}
        \cup {<<w("server")>> \o f : f \in {g \o h : g, h \in Given \cup {<< >>, <<w("p")>>}}}
        \cup {<<w(s[1])>> \o f : s \in {<<"token">>, <<"audit">>}, f \in Given \cup {<< >>}}
        \cup {<<w(s[1]), w(s[2])>> \o f :
                s \in {<<"token", "create">>, <<"token", "list">>, <<"token", "revoke">>, <<"audit", "list">>},
                f \in {g \o h : g, h \in Given \cup {<< >>, <<w("p")>>}}}

NoEnv == [k \in S!EnvKeys |-> << >>]
Root  == S!Default.cnf
Cnf   == <<S!Header("client"), S!Set("user", <<"root">>), S!Set("password", <<"pw">>)>>

Lines1 == {[args |-> a, env |-> NoEnv, cnfs |-> (Root :> Cnf),
            files |-> (Path :> S!Yaml("toFile" :> FALSE))
                      @@ ("p" :> S!Yaml("storage" :> <<"p">>))] : a \in Args}

\* A setting may be absent from the file.
Some(k, vals) == {<< >>} \cup {k :> v : v \in vals}
Files == {S!Absent, S!Broken}
         \cup {S!Yaml(a @@ s) : a \in Some("addr", {<< >>, <<"a">>}),
                                s \in Some("storage", {<< >>, <<"s">>, <<"/", "s">>})}
         \cup {S!Yaml(a @@ s) : a \in Some("level", {<<"INFO">>, <<"silly">>}),
                                s \in Some("allowDrop", {TRUE})}
         \cup {S!Yaml(a @@ s) : a \in Some("secrets", {<< >>, <<"s">>}),
                                s \in Some("auditFile", {<< >>, <<"a">>})}
         \cup {S!Yaml(a) : a \in Some("timeout", {0}) \cup Some("cnf", {<< >>, <<"x">>})}
Envs == {[NoEnv EXCEPT !.addr = a, !.storage = s] : a \in {<< >>, <<"b">>}, s \in {<< >>, <<"e">>, <<"/", "e">>}}
        \cup {[NoEnv EXCEPT !.allowDrop = b] : b \in {<<"true">>, <<"false">>, <<"maybe">>}}
        \cup {[NoEnv EXCEPT !.level = v] : v \in {<<"debug">>, <<"silly">>}}
        \cup {[NoEnv EXCEPT !.secrets = <<"e">>], [NoEnv EXCEPT !.cnf = <<"x">>],
              [NoEnv EXCEPT !.cnf = Root, !.dsn = <<"d">>]}
ServerArgs == {<<w("server")>>, <<w("server"), Arg("--", "addr", NoText), w("c")>>}
Lines2 == {[args |-> a, env |-> e, cnfs |-> (Root :> Cnf), files |-> (Path :> f)] :
             a \in ServerArgs, e \in Envs, f \in Files}

CnfLines == {S!Header("client"), S!Header("mysqld"), S!Set("user", <<"u">>), S!Set("user", <<"v">>),
             S!Set("password", <<"w">>), S!Set("socket", <<"s">>), S!Set("ssl", <<"s">>), S!OtherLine}
Lines3 == {[args |-> <<w("server")>>, env |-> NoEnv, cnfs |-> (Root :> <<l>> \o s), files |-> << >>] :
             l \in {S!Header("CLIENT"), S!Set("user", <<"x">>)}, s \in [1 .. 3 -> CnfLines]}

MCLaunches == Lines1 \cup Lines2 \cup Lines3
=============================================================================
