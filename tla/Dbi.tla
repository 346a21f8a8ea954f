--------------------------------- MODULE Dbi ---------------------------------
(***************************************************************************)
(* cmd/dbi: one command line after the other, each of which makes at most  *)
(* one call. Modelled are the search for the subcommand, the flags before  *)
(* it, its own arguments, and the exit code and format of what it prints.  *)
(***************************************************************************)
EXTENDS Calls, Integers

CONSTANTS
    Lines,      \* the command lines to try: sequences of words
    Odd,        \* any other word where a name is expected, such as a flag
    EnvToken    \* DB_ISOLATION_TOKEN is set

(* A word: flag is "" in a word without "-" in front, text is the word, or *)
(* what stands after "=" in "--flag=text" (not empty), or "".              *)
Flags == {"", "--json", "-json", "--url", "-url", "--token", "-token",
          "--confirm", "--help", "-h"}
Word  == [flag : Flags, text : STRING]

ASSUME DbiAssumption ==
    /\ Lines \subseteq Seq(Word)
    /\ Odd \in Typed \ Names /\ EnvToken \in BOOLEAN

VARIABLES
    line,    \* the arguments of the process that runs, << >> if none does
    exit,    \* its exit code, or "none"
    output   \* "none", "text" or "json" on stdout

vars == <<project, call, late, line, exit, output>>

Init == CallsInit /\ line = << >> /\ exit = "none" /\ output = "none"

Bare(f)  == [flag |-> f, text |-> ""]
Plain(t) == [flag |-> "", text |-> t]
Dashed(w) == w.flag # ""

\* The name that a word stands for when it is taken for one.
NameOf(w) == IF ~Dashed(w) /\ w.text \in Typed THEN w.text ELSE Odd

----------------------------------------------------------------------------
(* dispatchMain                                                            *)

(* Words that are the value of the flag before them: of a row of such flags *)
(* every other one is the value of the one before.                         *)
Values(l, takers) ==
    LET opens == {j \in DOMAIN l : l[j] \in takers}
    IN  {k \in DOMAIN l : \E j \in opens : /\ j < k /\ (k - j) % 2 = 1
                                           /\ j .. k - 1 \subseteq opens /\ j - 1 \notin opens}

\* Variant: i++ on a copy of the index.
SkippedByCopy(l) == {}

\* takesValue: the value of --url or --token is skipped.
Skipped(l) == Values(l, {Bare("--url"), Bare("--token")})

\* cmdIdx, 0 if there is none.
CommandAt(l) ==
    LET plain == {k \in DOMAIN l \ Skipped(l) : ~Dashed(l[k])}
    IN  IF plain = {} THEN 0 ELSE CHOOSE k \in plain : \A j \in plain : k <= j

\* --help before the subcommand.
HelpFirst(l) ==
    \E k \in DOMAIN l \ Skipped(l) :
        /\ l[k].flag \in {"--help", "-h"}
        /\ CommandAt(l) = 0 \/ k < CommandAt(l)

(* fs.Parse(args[:cmdIdx]): Go takes "-url" and "--url" alike, and stops at *)
(* the first word that is neither a flag nor the value of one.             *)
Before(l)  == SubSeq(l, 1, CommandAt(l) - 1)
GoTakers   == {Bare(f) : f \in {"--url", "-url", "--token", "-token"}}
Parsed(l)  ==
    LET vals == Values(Before(l), GoTakers)
    IN  {k \in DOMAIN Before(l) \ vals :
            \A j \in (1 .. k) \ vals : Dashed(l[j])}

\* What Go takes for a boolean.
Truths   == {"1", "t", "T", "true", "TRUE", "True"}
Falses   == {"0", "f", "F", "false", "FALSE", "False"}
IsJson(w) == w.flag \in {"--json", "-json"}

ParseError(l) ==
    \E k \in Parsed(l) :
        \/ l[k].flag \in {"--confirm", "--help", "-h"}
        \/ IsJson(l[k]) /\ l[k].text \notin {""} \cup Truths \cup Falses
        \/ l[k] \in GoTakers /\ k = Len(Before(l))

HasToken(l) == EnvToken \/ \E k \in Parsed(l) : l[k].flag \in {"--token", "-token"}
\* The last --json counts.
Json(l)     == \E k \in Parsed(l) :
                  /\ IsJson(l[k]) /\ l[k].text \notin Falses
                  /\ \A j \in Parsed(l) : IsJson(l[j]) => j <= k

Rest(l) == SubSeq(l, CommandAt(l) + 1, Len(l))

\* Variant: the name confirms itself.
ConfirmByName(l) == IF Rest(l) = << >> THEN None ELSE NameOf(Rest(l)[1])

\* cmdDelete: the first --confirm after the name, with its value.
Confirm(l) ==
    LET r    == Rest(l)
        here == {k \in 2 .. Len(r) : r[k].flag = "--confirm" /\ (r[k].text # "" \/ k < Len(r))}
        k    == CHOOSE i \in here : \A j \in here : i <= j
    IN  IF here = {} THEN None
        ELSE NameOf(IF r[k].text # "" THEN Plain(r[k].text) ELSE r[k + 1])

Command(l) == IF CommandAt(l) = 0 THEN None ELSE l[CommandAt(l)].text

\* The arguments are refused with the usage, or the token is missing.
Usage(l) ==
    \/ ParseError(l)
    \/ Command(l) \notin Ops \cup {"help"}
    \/ Command(l) = "list" /\ Rest(l) # << >>
    \/ Command(l) \in Ops \ {"list"} /\ Rest(l) = << >>
    \/ Command(l) = "delete" /\ Confirm(l) = None
    \/ Command(l) \in Ops /\ ~HasToken(l)

----------------------------------------------------------------------------
(* A process                                                               *)

Start ==
    /\ line = << >>
    /\ line' \in Lines
    /\ UNCHANGED <<callVars, exit, output>>

Running == line # << >> /\ exit = "none"

ExitWith(code, out) == exit' = code /\ output' = out /\ UNCHANGED line

ShowUsage ==
    /\ Running /\ call.at = "none"
    /\ \/ HelpFirst(line) /\ ExitWith("0", "none")
       \/ ~HelpFirst(line) /\ Usage(line) /\ ExitWith("2", "none")
       \/ ~HelpFirst(line) /\ ~Usage(line) /\ Command(line) = "help" /\ ExitWith("0", "none")
    /\ UNCHANGED callVars

\* cmdList, cmdStatus, cmdCreate, cmdRotate and cmdDelete up to apiCallT.
Run ==
    /\ Running /\ call.at = "none"
    /\ ~HelpFirst(line) /\ ~Usage(line) /\ Command(line) \in Ops
    /\ Send(Command(line),
            IF Command(line) = "list" THEN None ELSE NameOf(Rest(line)[1]),
            IF Command(line) = "delete" THEN Confirm(line) ELSE None)
    /\ UNCHANGED <<project, late, line, exit, output>>

\* An answer that cannot be decoded is an error. delete does not look at it.
Report ==
    /\ Running /\ call.at = "returned"
    /\ IF call.answer = "ok" /\ (call.op = "delete" \/ ~call.cut)
       THEN ExitWith("0", IF Json(line) /\ call.op # "delete" THEN "json" ELSE "text")
       ELSE ExitWith("1", "none")
    /\ UNCHANGED callVars

Leave ==
    /\ exit # "none"
    /\ line' = << >> /\ exit' = "none" /\ output' = "none" /\ call' = NoCall
    /\ UNCHANGED <<project, late>>

Next ==
    \/ Start \/ ShowUsage \/ Run \/ Report \/ Leave
    \/ CallStep /\ UNCHANGED <<line, exit, output>>

Spec == Init /\ [][Next]_vars

----------------------------------------------------------------------------
(* Properties                                                              *)

TypeOK ==
    /\ CallsTypeOK
    /\ line \in Lines \cup {<< >>}
    /\ exit \in {"none", "0", "1", "2"}
    /\ output \in {"none", "text", "json"}
    /\ output # "none" => exit = "0"    \* errors go to stderr

(* Exit code 0 and a line on stdout mean that the server has done what was *)
(* asked, whatever was refused, cut off or given up (main.go:174-193), if   *)
(* the name makes a path that reaches its route. Of one that is redirected  *)
(* exit code 0 says nothing: "dbi delete /a" prints "Deleted /a".          *)
ExitZeroIsTrue == exit = "0" /\ output # "none" /\ ~Redirected(call) => call.done

(* A line as the usage has it, "dbi [global flags] <subcommand> ...", with  *)
(* the subcommand at c.                                                    *)
Opens(w) == w \in {Bare("--url"), Bare("--token")}    \* its value is the next word
AsUsage(l, c) ==
    /\ ~Dashed(l[c]) /\ l[c].text \in Ops
    /\ \A k \in 1 .. c - 1 :
          /\ ~Dashed(l[k]) <=> k > 1 /\ Opens(l[k - 1])
          /\ Dashed(l[k]) => l[k] = Bare("--json") \/ l[k].flag \in {"--url", "--token"}
    /\ c > 1 => ~Opens(l[c - 1])

(* Such a line runs that subcommand and no other, whichever value a flag   *)
(* has: the scanner and Go's flag package find the same flags              *)
(* (main.go:50-77).                                                        *)
RunsTheCommand ==
    \A c \in DOMAIN line : AsUsage(line, c) =>
        /\ CommandAt(line) = c
        /\ ~HelpFirst(line) /\ ~ParseError(line)
        /\ call.at # "none" => call.op = line[c].text

(* "refusing to delete without --confirm <name>" (main.go:325): a command   *)
(* deletes a project only if its name stands after --confirm.              *)
DeleteIsConfirmed ==
    [][\A n \in Names :
          call.at = "sent" /\ call'.at = "answered" /\ project[n] # "none" /\ project'[n] = "none"
              => \E k \in DOMAIN line :
                    /\ line[k].flag = "--confirm"
                    /\ \/ line[k].text = n
                       \/ k < Len(line) /\ line[k + 1] = Plain(n)]_vars
=============================================================================
