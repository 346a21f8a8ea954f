-------------------------------- MODULE Main --------------------------------
(***************************************************************************)
(* cmd/server/main.go: one process of the server's binary after the other, *)
(* each with its command line, its environment and the files of its host,  *)
(* from main to the exit code or to a server that serves. What the server  *)
(* does from there is in Serving, what the token commands do to the table  *)
(* of tokens in Access.                                                    *)
(***************************************************************************)
EXTENDS Settings

CONSTANTS
    Launches    \* what is run: records [args, env, files, cnfs]

VARIABLES main  \* the process

(* A word of the command line: dash is "--", "-" or "" in front of a name;  *)
(* text is the word itself, or what stands after "=", or NoText.           *)
NoText      == "no text"
Bare(n)     == [dash |-> "--", name |-> n, text |-> NoText]
Equals(n,t) == [dash |-> "--", name |-> n, text |-> t]
Plain(t)    == [dash |-> "", name |-> "", text |-> t]
Dashed(w)   == w.dash # ""

Word == {w \in [dash : {"--", "-", ""}, name : STRING, text : STRING] : w.dash = "" => w.name = ""}

LaunchFits(x) ==
    /\ x.args \in Seq(Word)
    /\ x.env \in [EnvKeys -> Seq(STRING)]
    /\ \A p \in DOMAIN x.files : FileFits(x.files[p])
    /\ \A p \in DOMAIN x.cnfs : x.cnfs[p] \in Seq(CnfLine)

MainAssumption == \A x \in Launches : LaunchFits(x)

\* A word that is taken for the value of the flag before it.
ValueOf(w) == IF Dashed(w) THEN "odd" ELSE w.text

NoProcess == [at |-> "none"]

Init == main = NoProcess

----------------------------------------------------------------------------
(* Arguments                                                               *)

DefaultPath == "/etc/config.yaml"

(* Words that are the value of the word before them: opens has the flags    *)
(* without a value of their own; of a row of such flags every other one is *)
(* the value of the one before.                                            *)
Taken(l, opens) ==
    {k \in DOMAIN l : \E j \in opens : /\ j < k /\ (k - j) % 2 = 1
                                       /\ j .. k - 1 \subseteq opens /\ j - 1 \notin opens}

Values(l, takers) ==
    Taken(l, {k \in DOMAIN l : Dashed(l[k]) /\ l[k].text = NoText /\ l[k].name \in takers})

\* Variant: only the form with a separate word.
ConfigPathBare(l) ==
    LET here == {k \in 1 .. Len(l) - 1 : l[k] = Bare("config")}
    IN  IF here = {} THEN DefaultPath ELSE ValueOf(l[Min(here) + 1])

\* loadConfigAndStore: the first --config PATH or --config=PATH, anywhere.
ConfigPath(l) ==
    LET here == {k \in DOMAIN l : /\ l[k].dash = "--" /\ l[k].name = "config"
                                  /\ l[k].text # NoText \/ k < Len(l)}
        k    == Min(here)
    IN  IF here = {} THEN DefaultPath
        ELSE IF l[k].text # NoText THEN l[k].text ELSE ValueOf(l[k + 1])

\* stripConfig: --config (not -config) goes, and the word after it.
StripConfig(l) ==
    LET kept == {k \in DOMAIN l \ Taken(l, {i \in DOMAIN l : l[i] = Bare("config")}) :
                    ~(l[k].dash = "--" /\ l[k].name = "config")}
    IN  [i \in 1 .. Cardinality(kept) |-> l[SetToSortSeq(kept, <)[i]]]

(* fs.Parse of Go's flag package for flags that take a value: it takes     *)
(* "-x" and "--x" alike and stops at the first word that is neither a flag *)
(* nor the value of one.                                                   *)
Parsed(l, known) ==
    LET vals == Values(l, known)
    IN  {k \in DOMAIN l \ vals : \A j \in (1 .. k) \ vals : Dashed(l[j])}

ParseFits(l, known) ==
    \A k \in Parsed(l, known) : l[k].name \in known /\ (l[k].text # NoText \/ k < Len(l))

\* The last one counts.
FlagValue(l, known, name, default) ==
    LET here == {k \in Parsed(l, known) : l[k].name = name}
        k    == Max(here)
    IN  IF here = {} THEN default
        ELSE IF l[k].text # NoText THEN l[k].text ELSE ValueOf(l[k + 1])

FileAt(p) == IF p \in DOMAIN main.files THEN main.files[p] ELSE Absent
Rest    == Tail(main.args)
\* The first argument, os.Args[1]: as it is, but for the two flags for help.
Help == {Bare("help"), [dash |-> "-", name |-> "h", text |-> NoText]}
Sub  == IF main.args = << >> THEN NoText
        ELSE IF main.args[1] \in Help THEN "help"
        ELSE IF Dashed(main.args[1]) THEN NoText
        ELSE main.args[1].text
Numbers == {"0", "1", "5"}    \* texts that flag.Int and flag.Int64 take

----------------------------------------------------------------------------
(* Steps of a process                                                      *)

Exit(code) == main' = [main EXCEPT !.at = "exited", !.exit = code]

Accept(fits) == IF fits THEN main' = [main EXCEPT !.at = "config"] ELSE Exit("2")

Launch ==
    /\ main.at = "none"
    /\ \E x \in Launches :
          main' = [at |-> "main", args |-> x.args, env |-> x.env, files |-> x.files,
                   cnfs |-> x.cnfs, cfg |-> Default, dsn |-> << >>, did |-> "nothing",
                   exit |-> "none"]

\* main: the subcommand, and the arguments that are refused before any file is read.
Dispatch ==
    /\ main.at = "main"
    /\ \/ Sub \notin {"server", "token", "audit", "help"} /\ Exit("2")
       \/ Sub = "help" /\ Exit("0")
       \/ Sub = "server" /\ Accept(ParseFits(Rest, {"config", "addr"}))
       \/ Sub = "token" /\ Accept(Rest # << >>)
       \/ /\ Sub = "audit"
          /\ LET flags == Tail(StripConfig(Rest))
             IN  Accept(/\ Rest # << >> /\ Rest[1] = Plain("list")
                        /\ ParseFits(flags, {"limit"})
                        /\ FlagValue(flags, {"limit"}, "limit", "5") \in Numbers)

\* config.Load, then the server's --addr. It cannot make up for an empty one.
LoadConfig ==
    /\ main.at = "config"
    /\ LET path == IF Sub = "server"
                   THEN FlagValue(Rest, {"config", "addr"}, "config", DefaultPath)
                   ELSE ConfigPath(Rest)
           addr == IF Sub = "server"
                   THEN FlagValue(Rest, {"config", "addr"}, "addr", "") ELSE ""
           r    == Load(FileAt(path), main.env)
       IN  IF ~r.ok THEN Exit("1")
           ELSE main' = [main EXCEPT !.at = "store",
                            !.cfg = IF addr = "" THEN r.cfg
                                    ELSE [r.cfg EXCEPT !.addr = <<addr>>]]

Directories == {LibDir, AppDir, LogDir}

\* store.Open creates the file and its directory if need be.
OpenStore ==
    /\ main.at = "store"
    /\ \/ /\ main.cfg.storage \notin Directories
          /\ main' = [main EXCEPT !.at = IF Sub = "server" THEN "audit" ELSE "act"]
       \/ Exit("1")

\* audit.New opens the file for the copies, if there is to be one.
OpenAudit ==
    /\ main.at = "audit"
    /\ \/ /\ main.cfg.toFile => main.cfg.auditFile \notin Directories
          /\ main' = [main EXCEPT !.at = "dsn"]
       \/ main.cfg.toFile /\ Exit("1")

\* resolveAdminDSN, then mysqlx.New, which pings the server.
ConnectMySQL ==
    /\ main.at = "dsn"
    /\ LET r == ResolveAdminDSN(main.cfg, main.cnfs)
       IN  \/ r.ok /\ main' = [main EXCEPT !.at = "secrets", !.dsn = r.dsn]
           \/ Exit("1")

OpenSecrets ==
    /\ main.at = "secrets"
    /\ main' = [main EXCEPT !.at = "listen"] \/ Exit("1")

\* ListenAndServe, whose error ends the process.
Listen ==
    /\ main.at = "listen"
    /\ \/ main' = [main EXCEPT !.at = "serving", !.did = "serve"]
       \/ Exit("1")

\* The end of a server, by a signal or an error.
StopServing ==
    /\ main.at = "serving"
    /\ Exit("0") \/ Exit("1")

Did(what) == main' = [main EXCEPT !.at = "exited", !.exit = "0", !.did = what]

(* The rest of runToken. Without anything but --config, clean[0] panics,   *)
(* which is exit code 2 as well.                                           *)
TokenCommand ==
    /\ main.at = "act" /\ Sub = "token"
    /\ LET clean == StripConfig(Rest)
           flags == Tail(clean)
           Fits(f) == ParseFits(flags, {f})
           Val(f)  == FlagValue(flags, {f}, f, "")
       IN  IF clean = << >> THEN Exit("2")
           ELSE CASE clean[1] = Plain("create") ->
                       IF Fits("name") /\ Val("name") \notin {"", " "}
                       THEN Did("create") \/ Exit("1") ELSE Exit("2")
                  [] clean[1] = Plain("list") -> Did("list") \/ Exit("1")
                  [] clean[1] = Plain("revoke") ->
                       IF Fits("id") /\ Val("id") \in Numbers \ {"0"}
                       THEN Did("revoke") \/ Exit("1") ELSE Exit("2")
                  [] OTHER -> Exit("2")

AuditCommand ==
    /\ main.at = "act" /\ Sub = "audit"
    /\ Did("audit") \/ Exit("1")

Gone == main.at = "exited" /\ main' = NoProcess

Next ==
    \/ Launch \/ Dispatch \/ LoadConfig \/ OpenStore \/ OpenAudit \/ ConnectMySQL
    \/ OpenSecrets \/ Listen \/ StopServing \/ TokenCommand \/ AuditCommand \/ Gone

Spec == Init /\ [][Next]_main

----------------------------------------------------------------------------
(* Properties                                                              *)

\* What each source says of a setting, the strongest first, << >> for nothing.
Said(k, flag, file, env) ==
    <<IF k = "addr" /\ flag # "" THEN <<<<flag>>>> ELSE << >>,
      IF k \in EnvKeys /\ env[k] # << >>
      THEN <<IF k = "allowDrop" THEN env[k] = <<"true">> ELSE env[k]>> ELSE << >>,
      IF file.is = "yaml" /\ k \in DOMAIN file.says THEN <<file.says[k]>> ELSE << >>,
      <<Default[k]>>>>

First(said) == said[Min({i \in DOMAIN said : said[i] # << >>})][1]

\* The last line that sets k in a [client] section.
CnfSays(lines, k) ==
    LET Section(i) == {j \in 1 .. i : lines[j].is = "header"}
        here == {i \in DOMAIN lines :
                    /\ lines[i].is = "set" /\ lines[i].key = k
                    /\ Section(i) # {}
                    /\ lines[Max(Section(i))].name \in {"client", "CLIENT"}}
    IN  IF here = {} THEN << >> ELSE lines[Max(here)].val

(* A server that serves has every setting from the strongest source that   *)
(* says anything of it: flag, environment, file, default (config.go:98),   *)
(* paths that are relative in their directories, and its MySQL credentials *)
(* from MYSQL_ADMIN_DSN or the [client] section of my.cnf and from nowhere *)
(* else (main.go:329).                                                     *)
ServesAsConfigured ==
    main.at = "serving" =>
        LET file == FileAt(FlagValue(Rest, {"config", "addr"}, "config", DefaultPath))
            flag == FlagValue(Rest, {"config", "addr"}, "addr", "")
            Strongest(k) == First(Said(k, flag, file, main.env))
            cnf == main.cnfs[main.cfg.cnf]
        IN  /\ \A k \in {"addr", "timeout", "cnf", "allowDrop", "toFile"} :
                  main.cfg[k] = Strongest(k)
            /\ main.cfg.level = ToLower(Strongest("level"))
            /\ IsSuffix(Strongest("storage"), main.cfg.storage) /\ IsAbs(main.cfg.storage)
            /\ IsSuffix(Strongest("secrets"), main.cfg.secrets) /\ IsAbs(main.cfg.secrets)
            /\ IF main.env.dsn # << >> THEN main.dsn = main.env.dsn
               ELSE /\ main.dsn.user = CnfSays(cnf, "user") /\ main.dsn.user # << >>
                    /\ main.dsn.password = CnfSays(cnf, "password")
                    /\ IsSuffix(IF CnfSays(cnf, "socket") # << >> THEN CnfSays(cnf, "socket")
                                ELSE CnfSays(cnf, "port"), main.dsn.via)

(* A line as the usage has it: after the words of the subcommand, flags    *)
(* with "--" and one value each, --config once at most.                    *)
Usual(l) ==
    LET first == IF Sub = "server" THEN 1 ELSE 2
        Opens(k) == Dashed(l[k]) /\ l[k].text = NoText    \* its value is the next word
    IN  /\ \A k \in 1 .. first - 1 : k <= Len(l) /\ ~Dashed(l[k])
        /\ \A k \in first .. Len(l) :
              /\ l[k].dash \in {"--", ""}
              /\ ~Dashed(l[k]) <=> k > first /\ Opens(k - 1)
        /\ l # << >> => ~Opens(Len(l))
        /\ Cardinality({k \in DOMAIN l : l[k].name = "config"}) <= 1

\* The file that a usual line names.
Named(l) ==
    LET here == {k \in DOMAIN l : l[k].name = "config"}
        k    == CHOOSE i \in here : TRUE
    IN  IF here = {} THEN DefaultPath
        ELSE IF l[k].text # NoText THEN l[k].text ELSE l[k + 1].text

(* The server, and the commands that create, list and revoke its tokens    *)
(* and list its audit log, find the same store for the same --config and   *)
(* environment, although one leaves it to the flag package and the others  *)
(* search the line themselves (main.go:69, 106).                           *)
OneStoreForAll ==
    main.at \in {"serving", "exited"} /\ main.did # "nothing" /\ Usual(Rest) =>
        main.cfg.storage = Load(FileAt(Named(Rest)), main.env).cfg.storage
=============================================================================
