---------------------------- MODULE CommandProofs ----------------------------
(***************************************************************************)
(* The theorems about the two clients of the HTTP API, the command dbi     *)
(* (Dbi) and the MCP server (Mcp), for every set of names, command lines   *)
(* and messages and everything that the server may answer; and about the   *)
(* command lines of the server's binary (Main), for every set of launches. *)
(***************************************************************************)
EXTENDS Commands, Mcp, FiniteSetTheorems, WellFoundedInduction, TLAPS

----------------------------------------------------------------------------
(* The call of a client                                                    *)

(* An answer that says that all is well is one of a server that has done   *)
(* what it was asked for, unless the request was redirected.               *)
OkIsDone(c) ==
    c.at \in {"answered", "returned"} /\ c.answer = "ok" /\ ~Redirected(c) => c.done

(* A request that is not redirected reaches the handler of its operation.  *)
LEMMA StraightIsDone ==
  ASSUME NEW c \in Call, NEW answer, ~Redirected(c), answer = "ok"
  PROVE  IsDone(c, answer)
  <1>1. About(c.op, c.typed) # Page
    <2>1. CASE c.op = "list" \/ c.typed = None
      BY <2>1, CallsAssumption DEF About
    <2>2. CASE c.op = "create" /\ c.typed # None
      <3>1. Trimmed[c.typed] \in Names \cup {None}
        BY <2>2, CallsAssumption DEF Call
      <3> QED BY <2>2, <3>1, CallsAssumption DEF About
    <2>3. CASE c.op \in PathOps /\ c.typed # None
      <3>1. c.typed \in Typed /\ PathOf[c.op][c.typed].clean
        BY <2>3 DEF Redirected, Call
      <3> QED BY <2>3, <3>1, CallsAssumption DEF About, PathOps
    <2> QED BY <2>1, <2>2, <2>3 DEF Call, Ops, PathOps
  <1> QED BY <1>1 DEF IsDone, HandledAs

(* No step of the call but the client's own changes what it asks for; only *)
(* the server's makes it answered, and none takes it back.                 *)
LEMMA CallStepKeeps ==
  ASSUME call \in Call, OkIsDone(call), CallStep
  PROVE  /\ call' \in Call /\ OkIsDone(call')
         /\ call'.op = call.op /\ call'.typed = call.typed /\ call'.confirm = call.confirm
         /\ call.at = "none" <=> call'.at = "none"
         /\ call'.at = "sent" => call.at = "sent"
         /\ call.at \in {"none", "returned"} => call' = call
  <1>1. CASE Execute
    <2>1. PICK o \in Outcomes(call) :
            call' = [call EXCEPT !.at = "answered", !.answer = o[1],
                                 !.done = IsDone(call, o[1])]
      BY <1>1 DEF Execute
    <2>2. o[1] \in Answers
      <3>1. HandledAs(call) \in Ops
        BY DEF HandledAs, Call, Ops
      <3> QED BY <2>1, <3>1 DEF Outcomes, Answers, Ops
    <2>3. IsDone(call, o[1]) \in BOOLEAN
      BY DEF IsDone
    <2> HIDE DEF IsDone
    <2>4. call'.at = "answered" /\ call'.answer = o[1] /\ call' \in Call
          /\ call'.op = call.op /\ call'.typed = call.typed /\ call'.confirm = call.confirm
      BY <2>1, <2>2, <2>3 DEF Call
    <2>5. call'.done = IsDone(call, o[1])
      BY <2>1, Zenon DEF Call
    <2>6. OkIsDone(call')
      BY <2>4, <2>5, StraightIsDone DEF OkIsDone, Redirected
    <2> QED BY <1>1, <2>4, <2>6 DEF Execute
  <1>2. CASE ExecuteLate
    BY <1>2 DEF ExecuteLate
  <1>3. CASE Receive
    <2>1. PICK cut \in BOOLEAN : call' = [call EXCEPT !.at = "returned", !.cut = cut]
      BY <1>3 DEF Receive
    <2> QED BY <1>3, <2>1 DEF Receive, Call, OkIsDone, Redirected
  <1>4. CASE GiveUp
    <2>1. call' = [call EXCEPT !.at = "returned", !.answer = "lost"]
      BY <1>4 DEF GiveUp
    <2> QED BY <1>4, <2>1 DEF GiveUp, Call, Answers, OkIsDone
  <1> QED BY <1>1, <1>2, <1>3, <1>4 DEF CallStep

(* A project that a call ends is the one that it was to delete, by the name *)
(* that confirms it.                                                       *)
LEMMA OnlyDeleteEnds ==
  ASSUME call \in Call, Execute, NEW n \in Names, project \in [Names -> {"none", "ready", "failed"}],
         project[n] # "none", project'[n] = "none"
  PROVE  call.op = "delete" /\ call.confirm = n
  <1> DEFINE about == About(call.op, call.typed)
             s     == IF about \in Names THEN project[about] ELSE "none"
  <1>1. PICK o \in Outcomes(call) : SetProject(call, o[2])
    BY DEF Execute
  <1>2. about \in Names /\ project' = [project EXCEPT ![about] = o[2]]
    BY <1>1 DEF SetProject
  <1>3. about = n /\ o[2] = "none" /\ s # "none"
    BY <1>2
  <1>4. \/ call.op = "delete" /\ call.confirm = about
        \/ o[2] = s \/ o[2] \in {"ready", "failed"}
    <2>1. HandledAs(call) \in Ops /\ (HandledAs(call) = "delete" => call.op = "delete")
      BY DEF HandledAs, Call, Ops
    <2> QED BY <1>1, <1>3, <2>1 DEF Outcomes, Ops
  <1> QED BY <1>3, <1>4

----------------------------------------------------------------------------
(* A set of positions has a first one.                                     *)
LEMMA LeastOf ==
  ASSUME NEW S \in SUBSET Nat, S # {}
  PROVE  \E m \in S : \A j \in S : m <= j
  <1>1. PICK m \in S : \A j \in S : <<j, m>> \notin OpToRel(<, Nat)
    BY NatLessThanWellFounded, WFMin
  <1>2. \A j \in Nat : j < m => <<j, m>> \in OpToRel(<, Nat)
    BY DEF OpToRel
  <1>3. ASSUME NEW j \in S
        PROVE  ~(j < m)
    BY <1>1, <1>2
  <1> QED BY <1>3

(* The project that a client's or the server's step leaves is one.         *)
LEMMA CallStepProject ==
  ASSUME project \in [Names -> {"none", "ready", "failed"}], call \in Call, late \subseteq Call,
         CallStep
  PROVE  project' \in [Names -> {"none", "ready", "failed"}]
  <1>1. ASSUME NEW c \in Call, NEW o \in Outcomes(c), SetProject(c, o[2])
        PROVE  project' \in [Names -> {"none", "ready", "failed"}]
    <2> DEFINE n == About(c.op, c.typed)
    <2>1. o[2] \in {"none", "ready", "failed"}
      <3> DEFINE s == IF n \in Names THEN project[n] ELSE "none"
      <3>1. s \in {"none", "ready", "failed"}
        OBVIOUS
      <3>2. HandledAs(c) \in Ops
        BY DEF HandledAs, Call, Ops
      <3>3. o[2] = s \/ o[2] \in {"none", "ready", "failed"}
        BY <1>1, <3>2 DEF Outcomes, Ops
      <3> QED BY <3>1, <3>3
    <2> QED BY <1>1, <2>1 DEF SetProject
  <1> QED BY <1>1 DEF CallStep, Execute, ExecuteLate, Receive, GiveUp

----------------------------------------------------------------------------
(* The command line of dbi                                                 *)

(* The words that take the next one for their value, by their fields.      *)
LEMMA Takers ==
  ASSUME NEW w \in Word
  PROVE  /\ Opens(w) <=> w.flag \in {"--url", "--token"} /\ w.text = ""
         /\ w \in GoTakers <=> w.flag \in {"--url", "-url", "--token", "-token"} /\ w.text = ""
         /\ w = Bare("--json") => w.flag = "--json" /\ w.text = ""
  <1>1. ASSUME NEW f \in Flags
        PROVE  w = Bare(f) <=> w.flag = f /\ w.text = ""
    <2>1. w = [flag |-> w.flag, text |-> w.text]
      BY DEF Word
    <2>2. ASSUME w = Bare(f)
          PROVE  w.flag = f /\ w.text = ""
      BY <2>2 DEF Bare
    <2>3. w.flag = f /\ w.text = "" => w = Bare(f)
      BY <2>1, Zenon DEF Bare
    <2> QED BY <2>2, <2>3
  <1>2. {"--url", "-url", "--token", "-token", "--json"} \subseteq Flags
    BY DEF Flags
  <1> HIDE DEF Flags
  <1> QED BY <1>1, <1>2 DEF Opens, GoTakers

(* Of flags no two of which stand in a row, the values are the words that *)
(* follow them.                                                            *)
LEMMA TakenFollow ==
  ASSUME NEW l, NEW n \in Nat, DOMAIN l = 1 .. n, NEW opens \in SUBSET (1 .. n),
         NEW c \in Nat, c <= n,
         \A k \in 1 .. c - 1 : k - 1 \in opens => k \notin opens
  PROVE  \A k \in 1 .. c : k \in M!Taken(l, opens) <=> k - 1 \in opens
  <1> SUFFICES ASSUME NEW k \in 1 .. c
               PROVE  k \in M!Taken(l, opens) <=> k - 1 \in opens
    OBVIOUS
  <1>1. ASSUME k \in M!Taken(l, opens)
        PROVE  k - 1 \in opens
    <2>1. PICK j \in opens : j < k /\ j .. k - 1 \subseteq opens
      BY <1>1 DEF M!Taken
    <2>2. k - 1 \in j .. k - 1
      BY <2>1
    <2> QED BY <2>1, <2>2
  <1>2. ASSUME k - 1 \in opens
        PROVE  k \in M!Taken(l, opens)
    <2>1. k - 1 \in 1 .. c - 1 /\ k - 1 < k /\ k \in DOMAIN l
      BY <1>2
    <2>2. (k - 1) - 1 \notin opens
      BY <1>2, <2>1
    <2>3. (k - (k - 1)) % 2 = 1
      <3>1. k - (k - 1) = 1
        OBVIOUS
      <3> QED BY <3>1
    <2>4. (k - 1) .. k - 1 \subseteq opens
      BY <1>2
    <2> QED BY <1>2, <2>1, <2>2, <2>3, <2>4 DEF M!Taken
  <1> QED BY <1>1, <1>2

LEMMA ValuesFollow ==
  ASSUME NEW l \in Seq(Word), NEW takers, NEW c \in Nat, c <= Len(l),
         \A k \in 1 .. c - 1 : k > 1 /\ l[k - 1] \in takers => l[k] \notin takers
  PROVE  \A k \in 1 .. c : k \in Values(l, takers) <=> k > 1 /\ l[k - 1] \in takers
  <1> DEFINE opens == {j \in DOMAIN l : l[j] \in takers}
  <1>1. DOMAIN l = 1 .. Len(l) /\ Len(l) \in Nat
    OBVIOUS
  <1>2. \A k \in 1 .. c : k - 1 \in opens <=> k > 1 /\ l[k - 1] \in takers
    BY <1>1
  <1>3. \A k \in 1 .. c - 1 : k - 1 \in opens => k \notin opens
    BY <1>2
  <1>4. Values(l, takers) = M!Taken(l, opens)
    BY Zenon DEF Values, M!Taken
  <1>5. opens \in SUBSET (1 .. Len(l))
    BY <1>1
  <1> HIDE DEF opens
  <1>6. \A k \in 1 .. c : k \in M!Taken(l, opens) <=> k - 1 \in opens
    BY <1>1, <1>3, <1>5, TakenFollow
  <1> QED BY <1>2, <1>4, <1>6

(* What a line as the usage has it is taken for.                           *)
LEMMA UsualLine ==
  ASSUME NEW l \in Seq(Word), NEW c \in DOMAIN l, AsUsage(l, c)
  PROVE  CommandAt(l) = c /\ ~HelpFirst(l) /\ ~ParseError(l)
  <1>1. DOMAIN l = 1 .. Len(l) /\ Len(l) \in Nat /\ c \in Nat /\ c >= 1 /\ c <= Len(l)
    OBVIOUS
  <1>2. \A k \in 1 .. Len(l) :
          /\ Opens(l[k]) <=> l[k].flag \in {"--url", "--token"} /\ l[k].text = ""
          /\ l[k] \in GoTakers
                <=> l[k].flag \in {"--url", "-url", "--token", "-token"} /\ l[k].text = ""
          /\ l[k] = Bare("--json") => l[k].flag = "--json" /\ l[k].text = ""
    <2>1. \A k \in 1 .. Len(l) : l[k] \in Word
      OBVIOUS
    <2> QED BY <2>1, Takers
  <1>3. \A k \in 1 .. c - 1 :
          /\ ~Dashed(l[k]) <=> k > 1 /\ Opens(l[k - 1])
          /\ l[k].flag \in {"", "--json", "--url", "--token"}
          /\ l[k].flag = "--json" => l[k].text = ""
          /\ l[k] \in GoTakers <=> Opens(l[k])
    <2> SUFFICES ASSUME NEW k \in 1 .. c - 1
                 PROVE  /\ ~Dashed(l[k]) <=> k > 1 /\ Opens(l[k - 1])
                        /\ l[k].flag \in {"", "--json", "--url", "--token"}
                        /\ l[k].flag = "--json" => l[k].text = ""
                        /\ l[k] \in GoTakers <=> Opens(l[k])
      OBVIOUS
    <2>1. /\ ~Dashed(l[k]) <=> k > 1 /\ Opens(l[k - 1])
          /\ Dashed(l[k]) => l[k] = Bare("--json") \/ l[k].flag \in {"--url", "--token"}
      BY DEF AsUsage
    <2>2. k \in 1 .. Len(l)
      BY <1>1
    <2> QED BY <1>2, <2>1, <2>2 DEF Dashed
  <1>4. \A k \in 1 .. c - 1 : k > 1 /\ Opens(l[k - 1]) => ~Opens(l[k])
    <2> SUFFICES ASSUME NEW k \in 1 .. c - 1, k > 1, Opens(l[k - 1])
                 PROVE  ~Opens(l[k])
      OBVIOUS
    <2>1. k \in 1 .. Len(l)
      BY <1>1
    <2> QED BY <1>2, <1>3, <2>1 DEF Dashed
  <1>5. \A k \in 1 .. c : k \in Skipped(l) <=> k > 1 /\ Opens(l[k - 1])
    <2>1. \A w : Opens(w) <=> w \in {Bare("--url"), Bare("--token")}
      BY DEF Opens
    <2> QED BY <1>1, <1>4, <2>1, ValuesFollow DEF Skipped
  <1>6. \A k \in 1 .. c : k \notin Skipped(l) => (~Dashed(l[k]) <=> k = c)
    BY <1>1, <1>5 DEF AsUsage
  <1>7. c \notin Skipped(l)
    BY <1>1, <1>5 DEF AsUsage
  <1>8. CommandAt(l) = c
    <2> DEFINE plain == {k \in DOMAIN l \ Skipped(l) : ~Dashed(l[k])}
    <2>1. c \in plain
      BY <1>1, <1>6, <1>7
    <2>2. \A k \in plain : c <= k
      BY <1>1, <1>6
    <2>3. \A k \in plain : (\A j \in plain : k <= j) => k = c
      BY <1>1, <2>1, <2>2
    <2>4. CommandAt(l) = CHOOSE k \in plain : \A j \in plain : k <= j
      BY <2>1 DEF CommandAt
    <2> HIDE DEF plain
    <2> QED BY <2>1, <2>2, <2>3, <2>4
  <1>9. ~HelpFirst(l)
    <2> SUFFICES ASSUME NEW k \in DOMAIN l \ Skipped(l), l[k].flag \in {"--help", "-h"}, k < c
                 PROVE  FALSE
      BY <1>1, <1>8 DEF HelpFirst
    <2>1. k \in 1 .. c - 1
      BY <1>1
    <2> QED BY <1>3, <2>1
  <1>10. ~ParseError(l)
    <2> DEFINE b == Before(l)
    <2>1. /\ b \in Seq(Word) /\ Len(b) = c - 1 /\ DOMAIN b = 1 .. c - 1
          /\ \A k \in 1 .. c - 1 : b[k] = l[k]
      BY <1>1, <1>8 DEF Before
    <2>2. \A k \in 1 .. c - 1 : k \in Values(b, GoTakers) <=> k > 1 /\ Opens(l[k - 1])
      <3>1. c - 1 \in Nat /\ c - 1 <= Len(b)
        BY <1>1, <2>1
      <3>2. \A k \in 1 .. (c - 1) - 1 : k > 1 /\ b[k - 1] \in GoTakers => b[k] \notin GoTakers
        <4> SUFFICES ASSUME NEW k \in 1 .. (c - 1) - 1, k > 1, b[k - 1] \in GoTakers
                     PROVE  b[k] \notin GoTakers
          OBVIOUS
        <4>1. k \in 1 .. c - 1 /\ k - 1 \in 1 .. c - 1
          BY <1>1
        <4> HIDE DEF b
        <4> QED BY <1>3, <1>4, <2>1, <4>1
      <3>3. \A k \in 1 .. c - 1 : k \in Values(b, GoTakers) <=> k > 1 /\ b[k - 1] \in GoTakers
        BY <2>1, <3>1, <3>2, ValuesFollow
      <3>4. \A k \in 1 .. c - 1 : k > 1 => k - 1 \in 1 .. c - 1
        BY <1>1
      <3> HIDE DEF b
      <3> QED BY <1>3, <2>1, <3>3, <3>4
    <2> SUFFICES ASSUME NEW k \in Parsed(l)
                 PROVE  /\ l[k].flag \notin {"--confirm", "--help", "-h"}
                        /\ l[k].flag \in {"--json", "-json"} => l[k].text = ""
                        /\ l[k] \in GoTakers => k # Len(b)
      BY DEF ParseError, IsJson
    <2>3. k \in 1 .. c - 1 /\ k \notin Values(b, GoTakers)
      BY <2>1 DEF Parsed
    <2>4. k = c - 1 => ~Opens(l[k])
      BY <1>1, <2>3 DEF AsUsage
    <2>5. /\ l[k].flag \in {"", "--json", "--url", "--token"}
          /\ l[k].flag = "--json" => l[k].text = ""
          /\ l[k] \in GoTakers <=> Opens(l[k])
      BY <1>3, <2>3
    <2>6. Len(b) = c - 1
      BY <2>1
    <2> HIDE DEF b
    <2> QED BY <2>4, <2>5, <2>6
  <1> QED BY <1>8, <1>9, <1>10

(* What confirms a deletion stands after --confirm.                        *)
LEMMA ConfirmStands ==
  ASSUME NEW l \in Seq(Word), NEW n \in Names, Confirm(l) = n
  PROVE  \E k \in DOMAIN l :
            /\ l[k].flag = "--confirm"
            /\ \/ l[k].text = n
               \/ k < Len(l) /\ l[k + 1] = Plain(n)
  <1> DEFINE c    == CommandAt(l)
             r    == Rest(l)
             here == {i \in 2 .. Len(r) :
                         r[i].flag = "--confirm" /\ (r[i].text # "" \/ i < Len(r))}
             Said(i) == IF r[i].text # "" THEN Plain(r[i].text) ELSE r[i + 1]
  <1>1. c \in 0 .. Len(l)
    <2> DEFINE plain == {i \in DOMAIN l \ Skipped(l) : ~Dashed(l[i])}
    <2>1. CASE plain = {}
      BY <2>1 DEF CommandAt
    <2>2. CASE plain # {}
      <3>1. plain \in SUBSET Nat /\ plain \subseteq 1 .. Len(l)
        OBVIOUS
      <3>2. CommandAt(l) = CHOOSE i \in plain : \A j \in plain : i <= j
        BY <2>2 DEF CommandAt
      <3> HIDE DEF plain
      <3>3. \E m \in plain : \A j \in plain : m <= j
        BY <2>2, <3>1, LeastOf
      <3>4. c \in plain
        BY <3>2, <3>3
      <3> HIDE DEF c
      <3> QED BY <3>1, <3>4
    <2> QED BY <2>1, <2>2
  <1>2. /\ r \in Seq(Word) /\ Len(r) = Len(l) - c /\ Len(r) \in Nat
        /\ \A i \in 1 .. Len(r) : r[i] = l[c + i] /\ c + i \in 1 .. Len(l)
    <2>1. c \in Nat /\ c <= Len(l) /\ Len(l) \in Nat
      BY <1>1
    <2>2. r = SubSeq(l, c + 1, Len(l))
      BY DEF Rest
    <2> HIDE DEF c, r
    <2> QED BY <2>1, <2>2
  <1> HIDE DEF c, r
  <1>3. \E k \in here : NameOf(Said(k)) = n
    <2> DEFINE k == CHOOSE i \in here : \A j \in here : i <= j
    <2>1. here # {} /\ NameOf(Said(k)) = n
      BY CallsAssumption DEF Confirm, r
    <2>2. here \in SUBSET Nat
      <3>1. Len(r) \in Nat
        BY <1>2
      <3>2. here \subseteq 2 .. Len(r)
        OBVIOUS
      <3> HIDE DEF here, Said
      <3> QED BY <3>1, <3>2
    <2> HIDE DEF here
    <2>3. \E m \in here : \A j \in here : m <= j
      BY <2>1, <2>2, LeastOf
    <2>4. k \in here
      BY <2>3
    <2> QED BY <2>1, <2>4
  <1>4. PICK k \in here : NameOf(Said(k)) = n
    BY <1>3
  <1>5. Said(k).flag = "" /\ Said(k).text = n
    BY <1>4, DbiAssumption DEF NameOf, Dashed
  <1>6. k \in 2 .. Len(r) /\ r[k].flag = "--confirm" /\ (r[k].text # "" \/ k < Len(r))
    OBVIOUS
  <1>7. k \in 2 .. Len(r)
    OBVIOUS
  <1> HIDE DEF here
  <1>8. /\ k \in Nat /\ k \in 1 .. Len(r) /\ c + k \in DOMAIN l /\ l[c + k] = r[k]
        /\ k < Len(r) => k + 1 \in 1 .. Len(r) /\ c + k < Len(l) /\ (c + k) + 1 = c + (k + 1)
    <2>1. c \in Nat /\ Len(r) \in Nat /\ Len(r) = Len(l) - c /\ Len(l) \in Nat
      BY <1>1, <1>2
    <2>2. k \in 1 .. Len(r)
      BY <1>7, <2>1
    <2> QED BY <1>2, <2>1, <2>2
  <1>9. CASE r[k].text # ""
    <2>1. l[c + k].text = n /\ l[c + k].flag = "--confirm"
      BY <1>5, <1>6, <1>8, <1>9 DEF Plain
    <2> QED BY <1>8, <2>1
  <1>10. CASE r[k].text = ""
    <2>1. k < Len(r) /\ Said(k) = r[k + 1]
      BY <1>6, <1>10
    <2>2. l[(c + k) + 1] = r[k + 1] /\ r[k + 1] \in Word
      <3> HIDE DEF Said
      <3>1. k + 1 \in 1 .. Len(r) /\ (c + k) + 1 = c + (k + 1)
        BY <1>8, <2>1
      <3>2. r[k + 1] = l[c + (k + 1)] /\ r[k + 1] \in Word
        BY <1>2, <3>1
      <3> QED BY <3>1, <3>2
    <2>3. r[k + 1] = [flag |-> r[k + 1].flag, text |-> r[k + 1].text]
      BY <2>2 DEF Word
    <2>4. r[k + 1] = Plain(n)
      BY <1>5, <2>1, <2>3, Zenon DEF Plain
    <2> QED BY <1>6, <1>8, <2>1, <2>2, <2>4
  <1> QED BY <1>9, <1>10

----------------------------------------------------------------------------
(* The invariant of dbi                                                    *)

CallOfLine ==
    /\ call.op = Command(line)
    /\ call.op = "delete" => call.confirm = Confirm(line)

(* The call is the one that the line asks for, and what is printed is      *)
(* printed after an answer that says that all is well.                     *)
DbiInv ==
    /\ project \in [Names -> {"none", "ready", "failed"}] /\ call \in Call
    /\ late \subseteq Call /\ line \in Lines \cup {<< >>}
    /\ OkIsDone(call)
    /\ call.at # "none" => line # << >> /\ CallOfLine
    /\ exit = "none" => output = "none"
    /\ output # "none" => call.at = "returned" /\ call.answer = "ok"

(* What a name or the confirmation of dbi delete may be.                   *)
LEMMA NamesGiven ==
  /\ \A w : NameOf(w) \in Typed
  /\ \A l : Confirm(l) \in Typed \cup {None}
  <1>1. \A w : NameOf(w) \in Typed
    BY DbiAssumption DEF NameOf
  <1> QED BY <1>1 DEF Confirm

(* Sending makes the call that is asked for, with no answer yet.           *)
LEMMA SendMakes ==
  ASSUME NEW op \in Ops, NEW t \in Typed \cup {None}, NEW confirm \in Typed \cup {None},
         Send(op, t, confirm)
  PROVE  /\ call' \in Call /\ OkIsDone(call')
         /\ call'.at = "sent" /\ call'.op = op /\ call'.typed = t /\ call'.confirm = confirm
  BY DEF Send, NoCall, Call, Answers, Ops, OkIsDone

(* Each step of dbi keeps the invariant.                                   *)
LEMMA DbiStep ==
  ASSUME DbiInv, [Next]_vars
  PROVE  DbiInv'
  <1>1. CASE Start
    BY <1>1 DEF DbiInv, Start, callVars
  <1>2. CASE ShowUsage
    BY <1>2 DEF DbiInv, ShowUsage, ExitWith, callVars, Running, CallOfLine
  <1>3. CASE Run
    <2>1. /\ call'\in Call /\ OkIsDone(call')
          /\ call'.at = "sent" /\ call'.op = Command(line)
          /\ call'.op = "delete" => call'.confirm = Confirm(line)
      <3> DEFINE t == IF Command(line) = "list" THEN None ELSE NameOf(Rest(line)[1])
                 d == IF Command(line) = "delete" THEN Confirm(line) ELSE None
      <3>1. Command(line) \in Ops /\ t \in Typed \cup {None} /\ d \in Typed \cup {None}
            /\ Send(Command(line), t, d)
        BY <1>3, NamesGiven DEF Run
      <3>2. Command(line) = "delete" => d = Confirm(line)
        OBVIOUS
      <3> HIDE DEF t, d
      <3> QED BY <3>1, <3>2, SendMakes
    <2> QED BY <1>3, <2>1 DEF DbiInv, Run, Running, CallOfLine
  <1>4. CASE Report
    BY <1>4 DEF DbiInv, Report, Running, ExitWith, callVars, CallOfLine
  <1>5. CASE Leave
    <2>1. call' = NoCall /\ NoCall \in Call /\ NoCall.at = "none"
      BY <1>5 DEF Leave, NoCall, Call, Ops, Answers
    <2> QED BY <1>5, <2>1 DEF DbiInv, Leave, OkIsDone
  <1>6. CASE CallStep /\ UNCHANGED <<line, exit, output>>
    <2>1. project' \in [Names -> {"none", "ready", "failed"}]
      BY <1>6, CallStepProject DEF DbiInv
    <2>2. /\ call' \in Call /\ OkIsDone(call')
          /\ call'.op = call.op /\ call'.confirm = call.confirm
          /\ call.at = "none" <=> call'.at = "none"
          /\ call.at \in {"none", "returned"} => call' = call
      BY <1>6, CallStepKeeps DEF DbiInv
    <2>3. late' \subseteq Call
      BY <1>6 DEF DbiInv, CallStep, Execute, ExecuteLate, Receive, GiveUp
    <2> QED BY <1>6, <2>1, <2>2, <2>3 DEF DbiInv, CallOfLine
  <1>7. CASE UNCHANGED vars
    BY <1>7 DEF DbiInv, vars, CallOfLine
  <1> QED BY <1>1, <1>2, <1>3, <1>4, <1>5, <1>6, <1>7 DEF Next

LEMMA DbiInvariant == Spec => []DbiInv
  <1>1. Init => DbiInv
    BY DEF Init, CallsInit, DbiInv, NoCall, Call, Ops, Answers, OkIsDone
  <1> QED BY <1>1, DbiStep, PTL DEF Spec

(* Exit code 0 with a line on stdout is a promise kept (main.go:174-193),  *)
(* for every name whose path the server does not redirect.                 *)
THEOREM ExitZero == Spec => []ExitZeroIsTrue
  <1>1. DbiInv => ExitZeroIsTrue
    BY DEF DbiInv, ExitZeroIsTrue, OkIsDone
  <1> QED BY <1>1, DbiInvariant, PTL

(* Any number of global flags, with any values, leads to the subcommand    *)
(* that follows them, and to the call that it stands for                   *)
(* (main.go:50-77).                                                        *)
THEOREM RightCommand == Spec => []RunsTheCommand
  <1>1. DbiInv => RunsTheCommand
    <2> SUFFICES ASSUME DbiInv, NEW c \in DOMAIN line, AsUsage(line, c)
                 PROVE  /\ CommandAt(line) = c /\ ~HelpFirst(line) /\ ~ParseError(line)
                        /\ call.at # "none" => call.op = line[c].text
      BY DEF RunsTheCommand
    <2>1. line \in Seq(Word)
      BY DbiAssumption DEF DbiInv
    <2>2. CommandAt(line) = c /\ ~HelpFirst(line) /\ ~ParseError(line)
      BY <2>1, UsualLine
    <2>3. c # 0
      BY <2>1
    <2>4. Command(line) = line[c].text
      BY <2>2, <2>3 DEF Command
    <2> QED BY <2>2, <2>4 DEF DbiInv, CallOfLine
  <1> QED BY <1>1, DbiInvariant, PTL

(* Whatever a command sends, and whatever the path that names a project: it *)
(* deletes the project only if the project's very name stands after         *)
(* --confirm on its line (main.go:325). The other name on the line may      *)
(* differ: "delete a? --confirm a" deletes a.                               *)
THEOREM DeletesWhatIsConfirmed == Spec => DeleteIsConfirmed
  <1>1. ASSUME DbiInv, [Next]_vars,
               NEW n \in Names,
               call.at = "sent", call'.at = "answered", project[n] # "none", project'[n] = "none"
        PROVE  \E k \in DOMAIN line :
                  /\ line[k].flag = "--confirm"
                  /\ \/ line[k].text = n
                     \/ k < Len(line) /\ line[k + 1] = Plain(n)
    <2>1. Execute
      BY <1>1 DEF Next, vars, Start, ShowUsage, Run, Report, Leave, callVars, Send, NoCall,
                  CallStep, ExecuteLate, Receive, GiveUp, DbiInv, Call
    <2>2. call.op = "delete" /\ call.confirm = n
      BY <1>1, <2>1, OnlyDeleteEnds DEF DbiInv
    <2>3. line \in Seq(Word) /\ Confirm(line) = n
      BY <1>1, <2>2, DbiAssumption DEF DbiInv, CallOfLine
    <2> QED BY <2>3, ConfirmStands
  <1>2. DbiInv /\ [Next]_vars
           => [\A n \in Names :
                 call.at = "sent" /\ call'.at = "answered" /\ project[n] # "none" /\ project'[n] = "none"
                     => \E k \in DOMAIN line :
                           /\ line[k].flag = "--confirm"
                           /\ \/ line[k].text = n
                              \/ k < Len(line) /\ line[k + 1] = Plain(n)]_vars
    BY <1>1
  <1> QED BY <1>2, DbiInvariant, PTL DEF Spec, DeleteIsConfirmed

----------------------------------------------------------------------------
(* The invariant of the MCP server                                         *)

\* The last message that has been dealt with.
Handled == IF busy THEN read - 1 ELSE read

(* While the server runs, it has answered the requests among the messages  *)
(* it has dealt with and no others; a call is that of a message it is busy *)
(* with; it ends in good order after the last message only.                *)
McpInv ==
    /\ call \in Call /\ OkIsDone(call)
    /\ sent \in Seq(Asked) /\ Len(sent) <= MaxMsgs
    /\ read \in 0 .. Len(sent) /\ busy \in BOOLEAN /\ out \in Seq(Response)
    /\ agent \in {"open", "closed", "gone"} /\ mcpExit \in {"none", "0", "1"}
    /\ busy => read > 0
    /\ mcpExit = "none" => Answered = {k \in Waiting : k <= Handled}
    /\ call.at # "none" => busy /\ mcpExit = "none" /\ NeedsCall
    /\ mcpExit = "0" => agent # "open" /\ Answered = Waiting
    /\ AnswersMatch

(* A response adds its request to those that are answered.                 *)
LEMMA OneMore ==
  ASSUME NEW r \in Response, out \in Seq(Response), out' = Append(out, r)
  PROVE  /\ out' \in Seq(Response) /\ Len(out') = Len(out) + 1 /\ out'[Len(out')] = r
         /\ \A i \in DOMAIN out : out'[i] = out[i]
         /\ \A n \in 0 .. Len(out) : ByFirst(n)' = ByFirst(n)
         /\ Answered' = Answered \cup ({r.id} \ {0})
  <1>1. /\ out' \in Seq(Response) /\ Len(out') = Len(out) + 1 /\ Len(out) \in Nat
        /\ out'[Len(out) + 1] = r
        /\ \A i \in 1 .. Len(out) : out'[i] = out[i]
    OBVIOUS
  <1>2. ASSUME NEW n \in 0 .. Len(out)
        PROVE  ByFirst(n)' = ByFirst(n)
    <2>1. \A i \in 1 .. n : out'[i] = out[i]
      BY <1>1
    <2> QED BY <2>1 DEF ByFirst
  <1>3. 1 .. Len(out) + 1 = (1 .. Len(out)) \cup {Len(out) + 1}
    BY <1>1
  <1>4. {out'[i].id : i \in 1 .. Len(out) + 1} = {out[i].id : i \in 1 .. Len(out)} \cup {r.id}
    BY <1>1, <1>3
  <1> QED BY <1>1, <1>2, <1>4 DEF Answered, ByFirst

(* A message of the agent changes nothing for those before it.             *)
LEMMA OneMessage ==
  ASSUME McpInv, Ask
  PROVE  McpInv'
  <1>1. PICK m \in Asked : sent' = Append(sent, m)
    BY DEF Ask
  <1>2. /\ sent' \in Seq(Asked) /\ Len(sent') = Len(sent) + 1 /\ Len(sent) \in Nat
        /\ Len(sent') <= MaxMsgs
        /\ \A k \in 1 .. Len(sent) : sent'[k] = sent[k]
    <2>1. sent \in Seq(Asked) /\ Len(sent) \in Nat /\ Len(sent) < MaxMsgs /\ MaxMsgs \in Nat
      BY McpAssumption DEF McpInv, Ask
    <2> QED BY <1>1, <2>1
  <1>3. /\ Waiting \subseteq Waiting' /\ Waiting' \subseteq Nat
        /\ \A k \in Waiting' : k <= Len(sent) => k \in Waiting
        /\ \A k \in Waiting : k <= Len(sent)
    <2>1. DOMAIN sent = 1 .. Len(sent) /\ DOMAIN sent' = 1 .. Len(sent')
      BY <1>2 DEF McpInv
    <2> QED BY <1>2, <2>1 DEF Waiting
  <1>4. UNCHANGED <<call, read, busy, out, agent, mcpExit>> /\ agent = "open"
    BY DEF Ask, callVars
  <1>5. Answered' = Answered /\ \A n : ByFirst(n)' = ByFirst(n)
    BY <1>4 DEF Answered, ByFirst
  <1>6. Handled' = Handled /\ Handled \in Int /\ Handled <= Len(sent)
    BY <1>2, <1>4 DEF Handled, McpInv
  <1>7. mcpExit = "none" => (Answered = {k \in Waiting : k <= Handled})'
    <2> SUFFICES ASSUME mcpExit = "none"
                 PROVE  Answered = {k \in Waiting' : k <= Handled}
      BY <1>4, <1>5, <1>6
    <2>1. Answered = {k \in Waiting : k <= Handled}
      BY DEF McpInv
    <2>2. \A k \in Waiting' : k <= Handled => k <= Len(sent)
      BY <1>2, <1>3, <1>6
    <2> QED BY <1>3, <2>1, <2>2
  <1>8. call.at # "none" => (busy /\ mcpExit = "none" /\ NeedsCall)'
    <2>1. busy => Req' = Req
      BY <1>2, <1>4 DEF McpInv, Req
    <2> QED BY <1>4, <2>1 DEF McpInv, NeedsCall, IsCall, Rejected
  <1>9. AnswersMatch'
    <2> SUFFICES ASSUME NEW i \in DOMAIN out, out[i].id # 0
                 PROVE  /\ out[i].id \in Waiting'
                        /\ ByFirst(i - 1) = {j \in Waiting' : j < out[i].id}
      BY <1>4, <1>5 DEF AnswersMatch
    <2>1. out[i].id \in Waiting /\ ByFirst(i - 1) = {j \in Waiting : j < out[i].id}
      BY DEF McpInv, AnswersMatch
    <2>2. \A j \in Waiting' : j < out[i].id => j \in Waiting
      <3>1. out[i].id \in Nat /\ out[i].id <= Len(sent)
        BY <1>3, <2>1
      <3>2. \A j \in Nat : j < out[i].id => j <= Len(sent)
        BY <1>2, <3>1
      <3> QED BY <1>3, <3>2
    <2> QED BY <1>3, <2>1, <2>2
  <1> QED BY <1>2, <1>4, <1>7, <1>8, <1>9 DEF McpInv

(* What the message at hand is, while the server is busy with it.          *)
LEMMA AtHand ==
  ASSUME McpInv, busy
  PROVE  /\ read \in 1 .. Len(sent) /\ Req \in Message /\ Req \in Asked
         /\ Waiting \subseteq 1 .. Len(sent)
         /\ read \in Waiting <=> Req.request
         /\ {k \in Waiting : k <= read} = {k \in Waiting : k <= read - 1}
                                              \cup (IF Req.request THEN {read} ELSE {})
  <1>1. read \in 1 .. Len(sent) /\ Len(sent) \in Nat
    BY DEF McpInv
  <1>2. Req \in Asked
    BY <1>1 DEF McpInv, Req
  <1>3. Waiting \subseteq 1 .. Len(sent) /\ (read \in Waiting <=> Req.request)
    BY <1>1 DEF McpInv, Waiting, Req
  <1>4. \A k \in 1 .. Len(sent) : k <= read <=> k <= read - 1 \/ k = read
    BY <1>1
  <1> QED BY <1>1, <1>2, <1>3, <1>4, McpAssumption

(* Nothing else that the invariant speaks of depends on the call or on     *)
(* where the agent is.                                                     *)
LEMMA Quiet ==
  ASSUME UNCHANGED <<sent, read, busy, out>>
  PROVE  /\ Waiting' = Waiting /\ Answered' = Answered /\ Handled' = Handled
         /\ NeedsCall' = NeedsCall /\ AnswersMatch' = AnswersMatch
  BY DEF Waiting, Answered, ByFirst, Handled, NeedsCall, IsCall, Rejected, Req,
         AnswersMatch

(* Once the message at hand is dealt with, those that are answered are     *)
(* those that should be.                                                   *)
LEMMA Settled ==
  ASSUME McpInv, busy, mcpExit = "none",
         busy' = FALSE, UNCHANGED <<sent, read, agent>>,
         call' \in Call /\ OkIsDone(call') /\ call'.at = "none",
         \/ UNCHANGED <<out, mcpExit>> /\ ~Req.request
         \/ \E kind \in {"result", "toolError", "error"} : Respond(kind)
  PROVE  McpInv'
  <1>1. Waiting' = Waiting
    BY DEF Waiting
  <1>2. Answered = {k \in Waiting : k <= read - 1}
    BY DEF McpInv, Handled
  <1>3. CASE UNCHANGED <<out, mcpExit>> /\ ~Req.request
    <2>1. Answered' = Answered /\ AnswersMatch'
      BY <1>1, <1>3 DEF McpInv, Answered, ByFirst, AnswersMatch
    <2>2. (Answered = {k \in Waiting : k <= Handled})'
      BY <1>1, <1>2, <1>3, <2>1, AtHand DEF Handled
    <2> QED BY <1>3, <2>1, <2>2 DEF McpInv
  <1>4. ASSUME NEW kind \in {"result", "toolError", "error"}, Respond(kind), agent = "gone"
        PROVE  McpInv'
    <2>1. UNCHANGED out /\ mcpExit' = "1"
      BY <1>4 DEF Respond
    <2>2. AnswersMatch'
      BY <1>1, <2>1 DEF McpInv, AnswersMatch, ByFirst
    <2> QED BY <2>1, <2>2 DEF McpInv
  <1>5. ASSUME NEW kind \in {"result", "toolError", "error"}, Respond(kind), agent # "gone"
        PROVE  McpInv'
    <2> DEFINE r == [id |-> IdOf, kind |-> kind]
    <2>1. out' = Append(out, r) /\ UNCHANGED mcpExit
      BY <1>5 DEF Respond
    <2>2. IdOf = IF Req.request THEN read ELSE 0
      BY DEF IdOf
    <2>3. r \in Response /\ r.id = IdOf
      BY <2>2, AtHand, McpAssumption DEF Response, McpInv
    <2>4. out \in Seq(Response) /\ Len(out) \in Nat
      BY DEF McpInv
    <2> HIDE DEF r
    <2>5. /\ out' \in Seq(Response) /\ Len(out') = Len(out) + 1 /\ out'[Len(out')] = r
          /\ \A i \in DOMAIN out : out'[i] = out[i]
          /\ \A n \in 0 .. Len(out) : ByFirst(n)' = ByFirst(n)
          /\ Answered' = Answered \cup ({r.id} \ {0})
      BY <2>1, <2>3, <2>4, OneMore
    <2>6. Answered' = {k \in Waiting : k <= read}
      BY <1>2, <2>2, <2>3, <2>5, AtHand
    <2>7. (Answered = {k \in Waiting : k <= Handled})'
      BY <1>1, <2>6 DEF Handled
    <2>8. ASSUME NEW i \in DOMAIN out', out'[i].id # 0
          PROVE  /\ out'[i].id \in Waiting
                 /\ ByFirst(i - 1)' = {j \in Waiting : j < out'[i].id}
      <3>1. i \in 1 .. Len(out) \/ i = Len(out) + 1
        BY <2>4, <2>5
      <3>2. CASE i \in 1 .. Len(out)
        <4>1. i \in DOMAIN out /\ i - 1 \in 0 .. Len(out) /\ out'[i] = out[i]
          BY <2>4, <2>5, <3>2
        <4>2. ByFirst(i - 1)' = ByFirst(i - 1)
          BY <2>5, <4>1
        <4> QED BY <2>8, <4>1, <4>2 DEF McpInv, AnswersMatch
      <3>3. CASE i = Len(out) + 1
        <4>1. out'[i].id = read /\ Req.request
          BY <2>2, <2>3, <2>5, <2>8, <3>3
        <4>2. ByFirst(i - 1)' = Answered
          <5>1. i - 1 = Len(out) /\ Len(out) \in 0 .. Len(out)
            BY <2>4, <3>3
          <5>2. ByFirst(i - 1)' = ByFirst(i - 1)
            BY <2>5, <5>1
          <5> QED BY <5>1, <5>2 DEF Answered
        <4>3. {j \in Waiting : j < read} = {k \in Waiting : k <= read - 1}
          <5>1. \A j \in 1 .. Len(sent) : j < read <=> j <= read - 1
            BY AtHand
          <5> QED BY <5>1, AtHand
        <4> QED BY <1>2, <4>1, <4>2, <4>3, AtHand
      <3> QED BY <3>1, <3>2, <3>3
    <2>9. AnswersMatch'
      BY <1>1, <2>8 DEF AnswersMatch
    <2> QED BY <2>1, <2>5, <2>7, <2>9 DEF McpInv
  <1> QED BY <1>3, <1>4, <1>5

(* Each step of the MCP server and of those around it keeps the invariant. *)
LEMMA McpStep ==
  ASSUME McpInv, [McpNext]_mcpVars
  PROVE  McpInv'
  <1>1. CASE Ask
    BY <1>1, OneMessage
  <1>2. CASE Disconnect
    BY <1>2, Quiet DEF McpInv, Disconnect, callVars
  <1>3. CASE Decode
    <2>1. call.at = "none" /\ Handled = read /\ read \in Nat /\ read + 1 \in 0 .. Len(sent)
      BY <1>3 DEF McpInv, Decode, Ready, Handled
    <2>2. (busy' /\ mcpExit' = "none") \/ (~busy' /\ mcpExit' = "1")
      BY <1>3 DEF McpInv, Decode, Ready
    <2>3. UNCHANGED <<sent, out, agent, call>> /\ read' = read + 1
      BY <1>3 DEF Decode, callVars
    <2>4. busy' \in BOOLEAN
      <3>1. busy' = TRUE \/ busy' = busy
        BY <1>3 DEF Decode
      <3> QED BY <3>1 DEF McpInv
    <2>5. Answered' = Answered /\ Waiting' = Waiting /\ AnswersMatch'
      BY <2>3 DEF McpInv, Answered, Waiting, AnswersMatch, ByFirst
    <2>6. busy' => Handled' = Handled
      BY <2>1, <2>3 DEF Handled
    <2> QED BY <1>3, <2>1, <2>2, <2>3, <2>4, <2>5, <2>6 DEF McpInv, Decode, Ready
  <1>4. CASE EndOfInput
    <2>1. UNCHANGED <<sent, read, busy, out, agent, call>> /\ mcpExit' = "0" /\ agent # "open"
          /\ mcpExit = "none" /\ ~busy /\ read = Len(sent)
      BY <1>4 DEF EndOfInput, Ready, callVars
    <2>2. Answered' = Answered /\ Waiting' = Waiting /\ AnswersMatch'
      BY <2>1 DEF McpInv, Answered, Waiting, AnswersMatch, ByFirst
    <2>3. Answered = Waiting
      <3>1. \A k \in Waiting : k <= read
        BY <2>1 DEF McpInv, Waiting
      <3>2. Answered = {k \in Waiting : k <= read}
        BY <2>1 DEF McpInv, Handled
      <3> QED BY <3>1, <3>2
    <2> QED BY <2>1, <2>2, <2>3 DEF McpInv
  <1>5. CASE Handle
    <2>1. busy /\ mcpExit = "none" /\ call.at = "none" /\ UNCHANGED call
      BY <1>5 DEF McpInv, Handle, callVars
    <2>2. CASE Req.method = "notifications/initialized"
      <3>1. ~Req.request
        BY <2>1, <2>2, AtHand, McpAssumption
      <3> QED BY <1>5, <2>1, <2>2, <3>1, Settled DEF McpInv, Handle
    <2>3. CASE Req.method # "notifications/initialized"
      <3>1. LocalKind \in {"result", "toolError", "error"}
        BY DEF LocalKind
      <3>2. Respond(LocalKind)
        BY <1>5, <2>3 DEF Handle
      <3>3. busy' = FALSE /\ UNCHANGED <<sent, read, agent>>
        BY <3>2 DEF Respond
      <3> QED BY <2>1, <3>1, <3>2, <3>3, Settled DEF McpInv
    <2> QED BY <2>2, <2>3
  <1>6. CASE CallTool
    <2> DEFINE t == IF Req.tool = "list" THEN None ELSE Req.typed
               d == IF Req.tool = "delete" THEN Req.confirm ELSE None
    <2>1. busy /\ mcpExit = "none" /\ NeedsCall /\ UNCHANGED <<sent, read, busy, out, agent, mcpExit>>
          /\ Send(Req.tool, t, d)
      BY <1>6 DEF CallTool, ownVars
    <2>2. Req.tool \in Ops /\ t \in Typed \cup {None} /\ d \in Typed \cup {None}
      BY <2>1, AtHand DEF NeedsCall, Rejected, Message, ToolAsks, Ops
    <2> HIDE DEF t, d
    <2>3. call' \in Call /\ OkIsDone(call') /\ call'.at = "sent"
      BY <2>1, <2>2, SendMakes DEF Send, NoCall
    <2> QED BY <2>1, <2>3, Quiet DEF McpInv
  <1>7. CASE Answer
    <2>1. busy /\ mcpExit = "none"
      BY <1>7 DEF McpInv, Answer
    <2>2. call' = NoCall /\ NoCall \in Call /\ NoCall.at = "none"
      BY <1>7 DEF Answer, NoCall, Call, Ops, Answers
    <2>3. PICK kind \in {"result", "toolError"} : Respond(kind)
      BY <1>7 DEF Answer
    <2>4. busy' = FALSE /\ UNCHANGED <<sent, read, agent>>
      BY <2>3 DEF Respond
    <2> QED BY <2>1, <2>2, <2>3, <2>4, Settled DEF OkIsDone
  <1>8. CASE CallStep /\ UNCHANGED ownVars
    <2>1. /\ call' \in Call /\ OkIsDone(call')
          /\ call.at = "none" <=> call'.at = "none"
      BY <1>8, CallStepKeeps DEF McpInv
    <2> QED BY <1>8, <2>1, Quiet DEF McpInv, ownVars
  <1>9. CASE UNCHANGED mcpVars
    BY <1>9, Quiet DEF McpInv, mcpVars, callVars, ownVars
  <1> QED BY <1>1, <1>2, <1>3, <1>4, <1>5, <1>6, <1>7, <1>8, <1>9 DEF McpNext

LEMMA McpInvariant == McpSpec => []McpInv
  <1>1. McpInit => McpInv
    <2> SUFFICES ASSUME McpInit PROVE McpInv
      OBVIOUS
    <2>1. call = NoCall /\ call \in Call /\ OkIsDone(call) /\ call.at = "none"
      BY DEF McpInit, CallsInit, NoCall, Call, Ops, Answers, OkIsDone
    <2>2. Answered = {} /\ Waiting = {} /\ AnswersMatch
      BY DEF McpInit, Answered, ByFirst, Waiting, AnswersMatch
    <2>3. /\ sent \in Seq(Asked) /\ Len(sent) = 0 /\ out \in Seq(Response) /\ read = 0
          /\ busy = FALSE /\ agent = "open" /\ mcpExit = "none" /\ MaxMsgs \in Nat
      BY McpAssumption DEF McpInit
    <2>4. Answered = {k \in Waiting : k <= Handled} /\ read \in 0 .. Len(sent)
      BY <2>2, <2>3
    <2>5. busy \in BOOLEAN /\ ~busy
      BY <2>3, Zenon
    <2>6. /\ Len(sent) <= MaxMsgs /\ agent \in {"open", "closed", "gone"}
          /\ mcpExit \in {"none", "0", "1"} /\ mcpExit # "0"
      BY <2>3
    <2> QED BY <2>1, <2>2, <2>3, <2>4, <2>5, <2>6, Zenon DEF McpInv
  <1> QED BY <1>1, McpStep, PTL DEF McpSpec

(* Responses come one for each request, in their order, and for nothing    *)
(* else, however many messages are on their way (run, main.go:137-155).    *)
THEOREM ResponsesMatch == McpSpec => []AnswersMatch
  <1>1. McpInv => AnswersMatch
    BY DEF McpInv
  <1> QED BY <1>1, McpInvariant, PTL

(* An exit code of 0 hides no request without an answer (main.go:139-145). *)
THEOREM EndsClean == McpSpec => []CleanEnd
  <1>1. McpInv => CleanEnd
    BY DEF McpInv, CleanEnd
  <1> QED BY <1>1, McpInvariant, PTL

(* A result without isError is a promise kept by the HTTP server (do,      *)
(* main.go:346-364), for every name whose path is not redirected.          *)
THEOREM ResultsAreTrue == McpSpec => ResultIsTrue
  <1>1. McpInv /\ [McpNext]_mcpVars
           => [ToolResult /\ ~Redirected(call) => call.done]_mcpVars
    <2> SUFFICES ASSUME McpInv, McpNext, ~Redirected(call),
                        Len(out') > Len(out), Last(out').kind = "result", IsCall
                 PROVE  call.done
      BY DEF ToolResult
    <2>1. out \in Seq(Response) /\ Len(out) \in Nat
      BY DEF McpInv
    <2>2. out' # out
      BY <2>1
    <2>3. \A kind : Respond(kind) => Last(out').kind = kind
      BY <2>1, <2>2 DEF Respond, Last
    <2>4. Handle \/ Answer
      BY <2>2 DEF McpNext, Ask, Disconnect, Decode, EndOfInput, CallTool, ownVars
    <2>5. CASE Handle
      BY <2>2, <2>3, <2>5 DEF Handle, LocalKind
    <2>6. CASE Answer
      BY <2>3, <2>6 DEF Answer, McpInv, OkIsDone
    <2> QED BY <2>4, <2>5, <2>6
  <1> QED BY <1>1, McpInvariant, PTL DEF McpSpec, ResultIsTrue

----------------------------------------------------------------------------
(* The command lines of the server's binary                                *)

Opening(l, k) == M!Dashed(l[k]) /\ l[k].text = M!NoText

\* Where the word config stands.
Configs(l) == {k \in DOMAIN l : l[k].name = "config"}

(* A usual line has "--" in front of its flags and a value behind each of  *)
(* those that need one; after "server" every other word is such a value.   *)
LEMMA UsualWords ==
  ASSUME NEW l \in Seq(M!Word), M!Usual(l)
  PROVE  /\ \A k \in 1 .. Len(l) : M!Dashed(l[k]) => l[k].dash = "--"
         /\ \A k \in 1 .. Len(l) : Opening(l, k) => k < Len(l) /\ ~M!Dashed(l[k + 1])
         /\ M!Sub = "server" =>
              \A k \in 1 .. Len(l) : ~M!Dashed(l[k]) => k > 1 /\ Opening(l, k - 1)
  <1>1. PICK f \in {1, 2} :
          /\ M!Sub = "server" => f = 1
          /\ \A k \in 1 .. f - 1 : ~M!Dashed(l[k])
          /\ \A k \in f .. Len(l) : /\ l[k].dash \in {"--", ""}
                                    /\ ~M!Dashed(l[k]) <=> k > f /\ Opening(l, k - 1)
          /\ l # << >> => ~Opening(l, Len(l))
    <2>1. (IF M!Sub = "server" THEN 1 ELSE 2) \in {1, 2}
      OBVIOUS
    <2> QED BY <2>1 DEF M!Usual, Opening
  <1>2. Len(l) \in Nat
    OBVIOUS
  <1>3. ASSUME NEW k \in 1 .. Len(l), M!Dashed(l[k])
        PROVE  k \in f .. Len(l)
    <2>1. k \notin 1 .. f - 1
      BY <1>1, <1>3
    <2> QED BY <1>2, <2>1
  <1>4. ASSUME NEW k \in 1 .. Len(l), M!Dashed(l[k])
        PROVE  l[k].dash = "--"
    <2>1. l[k].dash \in {"--", ""}
      BY <1>1, <1>3, <1>4
    <2> QED BY <1>4, <2>1 DEF M!Dashed
  <1>5. ASSUME NEW k \in 1 .. Len(l), Opening(l, k)
        PROVE  k < Len(l) /\ ~M!Dashed(l[k + 1])
    <2>1. k \in f .. Len(l)
      BY <1>3, <1>5 DEF Opening
    <2>2. k # Len(l)
      <3>1. l # << >>
        BY <1>2
      <3> QED BY <1>1, <1>5, <3>1
    <2>3. PICK i \in f .. Len(l) : i = k + 1 /\ i - 1 = k /\ i > f /\ k < Len(l)
      BY <1>2, <2>1, <2>2
    <2>4. ~M!Dashed(l[i])
      BY <1>1, <1>5, <2>3
    <2> QED BY <2>3, <2>4
  <1>6. ASSUME M!Sub = "server", NEW k \in 1 .. Len(l), ~M!Dashed(l[k])
        PROVE  k > 1 /\ Opening(l, k - 1)
    <2>1. f = 1
      BY <1>1, <1>6
    <2> QED BY <1>1, <1>6, <2>1
  <1> QED BY <1>4, <1>5, <1>6

(* It names the file once, if at all.                                      *)
LEMMA ConfigOnce ==
  ASSUME NEW l \in Seq(M!Word), M!Usual(l)
  PROVE  Configs(l) = {} \/ \E k \in DOMAIN l : Configs(l) = {k}
  <1> SUFFICES ASSUME NEW i \in Configs(l), NEW j \in Configs(l), i # j
               PROVE  FALSE
    BY DEF Configs
  <1>1. IsFiniteSet(Configs(l)) /\ Cardinality(Configs(l)) <= 1
    <2>1. IsFiniteSet(1 .. Len(l))
      BY FS_Interval
    <2>2. Configs(l) \subseteq 1 .. Len(l)
      BY DEF Configs
    <2>3. M!Cardinality(Configs(l)) <= 1
      BY DEF M!Usual, Configs
    <2>4. M!Cardinality(Configs(l)) = Cardinality(Configs(l))
      BY Zenon DEF M!Cardinality, Cardinality
    <2> QED BY <2>1, <2>2, <2>3, <2>4, FS_Subset
  <1>2. Cardinality({i, j}) = 2
    <2>1. IsFiniteSet({i}) /\ Cardinality({i}) = 1
      BY FS_Singleton
    <2>2. Cardinality({i} \cup {j}) = Cardinality({i}) + 1
      BY <2>1, FS_AddElement
    <2>3. Cardinality({i} \cup {j}) = 2
      BY <2>1, <2>2
    <2>4. {i, j} = {i} \cup {j}
      OBVIOUS
    <2> QED BY Zenon, <2>3, <2>4
  <1>3. {i, j} \in SUBSET Configs(l)
    OBVIOUS
  <1>4. Cardinality({i, j}) <= Cardinality(Configs(l))
    BY <1>1, <1>3, FS_Subset
  <1>5. Cardinality(Configs(l)) \in Nat
    BY <1>1, FS_CardinalityType
  <1> QED BY <1>1, <1>2, <1>4, <1>5

(* The file that follows from the one place k of the word config.          *)
ValueAt(l, k) == IF l[k].text # M!NoText THEN l[k].text ELSE M!ValueOf(l[k + 1])

LEMMA NamedValue ==
  ASSUME NEW l \in Seq(M!Word), M!Usual(l), NEW k \in DOMAIN l, Configs(l) = {k}
  PROVE  /\ l[k].dash = "--" /\ (l[k].text # M!NoText \/ k < Len(l))
         /\ M!Named(l) = ValueAt(l, k)
  <1>1. k \in 1 .. Len(l) /\ l[k] \in M!Word /\ l[k].name = "config"
    BY DEF Configs
  <1>2. M!Dashed(l[k]) /\ l[k].dash = "--"
    <2>1. M!Dashed(l[k])
      BY <1>1 DEF M!Word, M!Dashed
    <2> QED BY <1>1, <2>1, UsualWords
  <1>3. l[k].text # M!NoText \/ (k < Len(l) /\ ~M!Dashed(l[k + 1]))
    BY <1>1, <1>2, UsualWords DEF Opening
  <1>4. M!Named(l) = IF l[k].text # M!NoText THEN l[k].text ELSE l[k + 1].text
    <2>1. {i \in DOMAIN l : l[i].name = "config"} = {k}
      BY DEF Configs
    <2>2. (CHOOSE i \in {k} : TRUE) = k
      OBVIOUS
    <2> QED BY <2>1, <2>2 DEF M!Named
  <1> QED BY <1>2, <1>3, <1>4 DEF ValueAt, M!ValueOf

\* The search of loadConfigAndStore finds it.
LEMMA ConfigPathOf ==
  ASSUME NEW l \in Seq(M!Word), M!Usual(l)
  PROVE  M!ConfigPath(l) = M!Named(l)
  <1> DEFINE Here == {k \in DOMAIN l : /\ l[k].dash = "--" /\ l[k].name = "config"
                                       /\ l[k].text # M!NoText \/ k < Len(l)}
  <1>1. M!ConfigPath(l) = IF Here = {} THEN M!DefaultPath ELSE ValueAt(l, M!Min(Here))
    BY DEF M!ConfigPath, ValueAt
  <1>2. Here \subseteq Configs(l)
    BY DEF Configs
  <1>3. CASE Configs(l) = {}
    <2>1. M!Named(l) = M!DefaultPath
      BY <1>3 DEF M!Named, Configs
    <2> QED BY <1>1, <1>2, <1>3, <2>1
  <1>4. CASE Configs(l) # {}
    <2>1. PICK k \in DOMAIN l : Configs(l) = {k}
      BY <1>4, ConfigOnce
    <2>2. k \in Here
      BY <2>1, NamedValue DEF Configs
    <2>3. Here = {k}
      BY <1>2, <2>1, <2>2
    <2>4. M!Min({k}) = k
      BY DEF M!Min
    <2> QED BY <1>1, <2>1, <2>3, <2>4, NamedValue
  <1> QED BY <1>3, <1>4

ServerFlags == {"config", "addr"}

(* What the flag package takes of a usual line for the server, if it finds *)
(* no fault: all the flags.                                                *)
LEMMA FlagsParsed ==
  ASSUME NEW l \in Seq(M!Word), M!Usual(l), M!Sub = "server", M!ParseFits(l, ServerFlags)
  PROVE  M!Parsed(l, ServerFlags) = {k \in 1 .. Len(l) : M!Dashed(l[k])}
  <1> DEFINE Open == {k \in 1 .. Len(l) : Opening(l, k) /\ l[k].name \in ServerFlags}
             Vals == M!Values(l, ServerFlags)
             Loose == {k \in 1 .. Len(l) : ~M!Dashed(l[k]) /\ k - 1 \notin Open}
  <1>1. Len(l) \in Nat /\ DOMAIN l = 1 .. Len(l)
    OBVIOUS
  <1>2. \A k \in 1 .. Len(l) : k - 1 \in Open => ~M!Dashed(l[k])
    <2> TAKE k \in 1 .. Len(l)
    <2> HAVE k - 1 \in Open
    <2>1. PICK i \in 1 .. Len(l) : i = k - 1 /\ k = i + 1
      BY <1>1
    <2> QED BY <2>1, UsualWords
  <1>3. \A k \in 1 .. Len(l) : k \in Vals <=> k - 1 \in Open
    <2>1. Vals = M!Taken(l, Open)
      BY <1>1 DEF M!Values, Opening
    <2>2. \A k \in 1 .. Len(l) - 1 : k - 1 \in Open => k \notin Open
      BY <1>1, <1>2 DEF Opening
    <2>3. Open \in SUBSET (1 .. Len(l)) /\ Len(l) <= Len(l)
      BY <1>1
    <2> HIDE DEF Open, Vals
    <2> QED BY <1>1, <2>1, <2>2, <2>3, TakenFollow
  <1>4. M!Parsed(l, ServerFlags) = {k \in (1 .. Len(l)) \ Vals : \A j \in (1 .. k) \ Vals : M!Dashed(l[j])}
    BY <1>1 DEF M!Parsed
  <1> HIDE DEF Vals
  <1>5. Loose = {}
    <2> SUFFICES ASSUME Loose # {}
                 PROVE  FALSE
      OBVIOUS
    <2>1. PICK j \in Loose : \A i \in Loose : j <= i
      <3>1. Loose \in SUBSET Nat
        BY <1>1
      <3> HIDE DEF Loose
      <3> QED BY <3>1, LeastOf
    <2>2. PICK i \in 1 .. Len(l) : i = j - 1 /\ Opening(l, i)
      <3>1. j > 1 /\ Opening(l, j - 1)
        BY <2>1, UsualWords
      <3> QED BY <1>1, <2>1, <3>1
    <2>3. l[i].name \notin ServerFlags
      BY <2>1, <2>2
    <2>4. i \notin Vals
      BY <1>2, <1>3, <2>2 DEF Opening
    <2>5. \A k \in (1 .. i) \ Vals : M!Dashed(l[k])
      <3> TAKE k \in (1 .. i) \ Vals
      <3>1. k \in 1 .. Len(l) /\ ~(j <= k)
        BY <1>1, <2>1, <2>2
      <3>2. k \notin Loose /\ k - 1 \notin Open
        BY <1>3, <2>1, <3>1
      <3> QED BY <3>1, <3>2
    <2>6. i \in M!Parsed(l, ServerFlags)
      BY <1>4, <2>2, <2>4, <2>5
    <2> QED BY <2>3, <2>6 DEF M!ParseFits
  <1>6. \A k \in 1 .. Len(l) : k \notin Vals <=> M!Dashed(l[k])
    BY <1>2, <1>3, <1>5
  <1>7. ASSUME NEW k \in 1 .. Len(l), NEW j \in (1 .. k) \ Vals
        PROVE  M!Dashed(l[j])
    BY <1>1, <1>6
  <1> QED BY <1>4, <1>6, <1>7

\* The flag package finds the same file as the search.
LEMMA FlagPathOf ==
  ASSUME NEW l \in Seq(M!Word), M!Usual(l), M!Sub = "server", M!ParseFits(l, ServerFlags)
  PROVE  M!FlagValue(l, ServerFlags, "config", M!DefaultPath) = M!Named(l)
  <1> DEFINE Here == {k \in M!Parsed(l, ServerFlags) : l[k].name = "config"}
  <1>1. M!FlagValue(l, ServerFlags, "config", M!DefaultPath)
          = IF Here = {} THEN M!DefaultPath ELSE ValueAt(l, M!Max(Here))
    BY DEF M!FlagValue, ValueAt
  <1>2. Here = Configs(l)
    <2>1. ASSUME NEW k \in 1 .. Len(l), l[k].name = "config"
          PROVE  M!Dashed(l[k])
      <3>1. l[k] \in M!Word
        OBVIOUS
      <3> QED BY <2>1, <3>1 DEF M!Word, M!Dashed
    <2>2. DOMAIN l = 1 .. Len(l)
      OBVIOUS
    <2> QED BY <2>1, <2>2, FlagsParsed DEF Configs
  <1>3. CASE Configs(l) = {}
    <2>1. M!Named(l) = M!DefaultPath
      BY <1>3 DEF M!Named, Configs
    <2> QED BY <1>1, <1>2, <1>3, <2>1
  <1>4. CASE Configs(l) # {}
    <2>1. PICK k \in DOMAIN l : Configs(l) = {k}
      BY <1>4, ConfigOnce
    <2>2. M!Max({k}) = k
      BY DEF M!Max
    <2> QED BY <1>1, <1>2, <2>1, <2>2, NamedValue
  <1> QED BY <1>3, <1>4

----------------------------------------------------------------------------
(* my.cnf                                                                  *)

(* The state of LoadMycnf's loop after each of the first n lines.          *)
Reading(f, lines, n) ==
  f = [k \in 0 .. n |-> IF k = 0 THEN [inClient |-> FALSE, out |-> M!NoCnf]
                        ELSE M!ReadLine(f[k - 1], lines[k])]

\* There is one, however many lines there are.
LEMMA ReadingExists ==
  ASSUME NEW lines, NEW n \in Nat
  PROVE  \E f : Reading(f, lines, n)
  <1> DEFINE Endless == {m \in Nat : ~\E f : Reading(f, lines, m)}
  <1> SUFFICES ASSUME Endless # {}
               PROVE  FALSE
    OBVIOUS
  <1>1. PICK m \in Nat : m \in Endless /\ \A i \in Endless : m <= i
    <2>1. Endless \in SUBSET Nat
      OBVIOUS
    <2> HIDE DEF Endless
    <2> QED BY <2>1, LeastOf
  <1>2. CASE m = 0
    <2> DEFINE f == [k \in 0 .. m |-> [inClient |-> FALSE, out |-> M!NoCnf]]
    <2>1. 0 .. m = {0}
      BY <1>2
    <2>2. Reading(f, lines, m)
      BY <2>1 DEF Reading
    <2> QED BY <1>1, <2>2
  <1>3. CASE m > 0
    <2>1. m - 1 \in Nat /\ ~(m <= m - 1)
      BY <1>3
    <2>2. PICK f : Reading(f, lines, m - 1)
      BY <1>1, <2>1
    <2> DEFINE g == [k \in 0 .. m |-> IF k = m THEN M!ReadLine(f[m - 1], lines[m]) ELSE f[k]]
               h == [k \in 0 .. m |-> IF k = 0 THEN [inClient |-> FALSE, out |-> M!NoCnf]
                                      ELSE M!ReadLine(g[k - 1], lines[k])]
    <2>3. ASSUME NEW k \in 0 .. m
          PROVE  g[k] = h[k]
      <3>1. CASE k = m
        <4>1. g[m - 1] = f[m - 1]
          BY <1>3
        <4> QED BY <1>3, <3>1, <4>1
      <3>2. CASE k # m
        <4>1. k \in 0 .. m - 1
          BY <3>2
        <4>2. f[k] = IF k = 0 THEN [inClient |-> FALSE, out |-> M!NoCnf]
                     ELSE M!ReadLine(f[k - 1], lines[k])
          BY <2>2, <4>1 DEF Reading
        <4>3. k # 0 => g[k - 1] = f[k - 1]
          BY <4>1
        <4> QED BY <3>2, <4>2, <4>3
      <3> QED BY <3>1, <3>2
    <2>4. g = h
      BY <2>3
    <2>5. Reading(g, lines, m)
      BY <2>4 DEF Reading
    <2> QED BY <1>1, <2>5
  <1> QED BY <1>1, <1>2, <1>3

LEMMA MycnfRead ==
  ASSUME NEW lines, Len(lines) \in Nat
  PROVE  \E f : Reading(f, lines, Len(lines)) /\ M!LoadMycnf(lines) = f[Len(lines)].out
  <1>1. \E f : Reading(f, lines, Len(lines))
    BY ReadingExists
  <1> DEFINE after == CHOOSE f : Reading(f, lines, Len(lines))
  <1>2. Reading(after, lines, Len(lines))
    BY <1>1
  <1>3. M!LoadMycnf(lines) = after[Len(lines)].out
    BY Zenon DEF M!LoadMycnf, Reading
  <1> QED BY <1>2, <1>3

LEMMA MaxIs ==
  ASSUME NEW T \in SUBSET Int, NEW k \in T, \A j \in T : j <= k
  PROVE  M!Max(T) = k
  <1>1. \E x \in T : \A y \in T : x >= y
    OBVIOUS
  <1>2. M!Max(T) \in T /\ M!Max(T) >= k
    BY <1>1 DEF M!Max
  <1>3. \A x \in T : x >= k => x = k
    OBVIOUS
  <1> QED BY <1>2, <1>3

LEMMA MinIs ==
  ASSUME NEW T \in SUBSET Int, NEW k \in T, \A j \in T : k <= j
  PROVE  M!Min(T) = k
  <1>1. \E x \in T : \A y \in T : x <= y
    OBVIOUS
  <1>2. M!Min(T) \in T /\ M!Min(T) <= k
    BY <1>1 DEF M!Min
  <1>3. \A x \in T : x <= k => x = k
    OBVIOUS
  <1> QED BY <1>2, <1>3

\* The headers among the first k lines, whether the last one is [client]'s.
Headers(lines, k) == {j \in 1 .. k : lines[j].is = "header"}
InClient(lines, k) ==
  /\ Headers(lines, k) # {}
  /\ lines[M!Max(Headers(lines, k))].name \in {"client", "CLIENT"}

\* The lines among the first k that set a key there.
Settings(lines, key, k) ==
  {i \in 1 .. k : lines[i].is = "set" /\ lines[i].key = key /\ InClient(lines, i)}
SaysBefore(lines, key, k) ==
  IF Settings(lines, key, k) = {} THEN << >> ELSE lines[M!Max(Settings(lines, key, k))].val

LEMMA SaysAll ==
  ASSUME NEW lines, Len(lines) \in Nat, DOMAIN lines = 1 .. Len(lines), NEW key
  PROVE  M!CnfSays(lines, key) = SaysBefore(lines, key, Len(lines))
  BY DEF M!CnfSays, SaysBefore, Settings, InClient, Headers

(* What one more line changes.                                             *)
LEMMA OneMoreLine ==
  ASSUME NEW lines, NEW k \in Nat, k > 0, NEW key
  PROVE  /\ lines[k].is = "header" =>
              /\ InClient(lines, k) <=> lines[k].name \in {"client", "CLIENT"}
              /\ SaysBefore(lines, key, k) = SaysBefore(lines, key, k - 1)
         /\ lines[k].is # "header" => (InClient(lines, k) <=> InClient(lines, k - 1))
         /\ lines[k].is = "set" /\ lines[k].key = key /\ InClient(lines, k)
              => SaysBefore(lines, key, k) = lines[k].val
         /\ ~(lines[k].is = "set" /\ lines[k].key = key /\ InClient(lines, k))
              => SaysBefore(lines, key, k) = SaysBefore(lines, key, k - 1)
  <1>1. k \in 1 .. k /\ \A j \in 1 .. k : j = k \/ j \in 1 .. k - 1
    OBVIOUS
  <1>2. 1 .. k - 1 \subseteq 1 .. k
    OBVIOUS
  <1>3. ASSUME lines[k].is = "header"
        PROVE  InClient(lines, k) <=> lines[k].name \in {"client", "CLIENT"}
    <2>1. k \in Headers(lines, k)
      BY <1>1, <1>3 DEF Headers
    <2>2. Headers(lines, k) \in SUBSET Int /\ \A j \in Headers(lines, k) : j <= k
      BY DEF Headers
    <2>3. M!Max(Headers(lines, k)) = k
      BY <2>1, <2>2, MaxIs
    <2> QED BY <2>1, <2>3 DEF InClient
  <1>4. ASSUME lines[k].is # "header"
        PROVE  InClient(lines, k) <=> InClient(lines, k - 1)
    <2>1. Headers(lines, k) = Headers(lines, k - 1)
      BY <1>1, <1>2, <1>4 DEF Headers
    <2> QED BY <2>1 DEF InClient
  <1>5. ASSUME lines[k].is = "set", lines[k].key = key, InClient(lines, k)
        PROVE  SaysBefore(lines, key, k) = lines[k].val
    <2>1. k \in Settings(lines, key, k)
      BY <1>1, <1>5 DEF Settings
    <2>2. Settings(lines, key, k) \in SUBSET Int /\ \A j \in Settings(lines, key, k) : j <= k
      BY DEF Settings
    <2>3. M!Max(Settings(lines, key, k)) = k
      BY <2>1, <2>2, MaxIs
    <2> QED BY <2>1, <2>3 DEF SaysBefore
  <1>6. ASSUME ~(lines[k].is = "set" /\ lines[k].key = key /\ InClient(lines, k))
        PROVE  SaysBefore(lines, key, k) = SaysBefore(lines, key, k - 1)
    <2>1. Settings(lines, key, k) = Settings(lines, key, k - 1)
      BY <1>1, <1>2, <1>6 DEF Settings
    <2> QED BY <2>1 DEF SaysBefore
  <1> QED BY <1>3, <1>4, <1>5, <1>6

(* LoadMycnf has of each key what its last line in a [client] section      *)
(* says (mycnf.go:50-95), for any number of lines.                         *)
LEMMA MycnfSays ==
  ASSUME NEW lines \in Seq(M!CnfLine)
  PROVE  /\ M!LoadMycnf(lines) \in [M!CnfKeys -> Seq(STRING)]
         /\ \A key \in M!CnfKeys : M!LoadMycnf(lines)[key] = M!CnfSays(lines, key)
  <1> DEFINE n == Len(lines)
  <1>1. n \in Nat /\ DOMAIN lines = 1 .. n /\ \A k \in 1 .. n : lines[k] \in M!CnfLine
    OBVIOUS
  <1>2. PICK f : Reading(f, lines, n) /\ M!LoadMycnf(lines) = f[n].out
    BY <1>1, MycnfRead
  <1> DEFINE Right(k) ==
               /\ f[k] \in [inClient : BOOLEAN, out : [M!CnfKeys -> Seq(STRING)]]
               /\ f[k].inClient <=> InClient(lines, k)
               /\ \A key \in M!CnfKeys : f[k].out[key] = SaysBefore(lines, key, k)
  <1>3. Right(0)
    <2>1. f[0] = [inClient |-> FALSE, out |-> M!NoCnf]
      BY <1>1, <1>2 DEF Reading
    <2>2. M!NoCnf \in [M!CnfKeys -> Seq(STRING)] /\ \A key \in M!CnfKeys : M!NoCnf[key] = << >>
      BY DEF M!NoCnf
    <2>3. ~InClient(lines, 0)
      BY DEF InClient, Headers
    <2>4. \A key : SaysBefore(lines, key, 0) = << >>
      BY DEF SaysBefore, Settings
    <2> QED BY <2>1, <2>2, <2>3, <2>4
  <1>4. ASSUME NEW k \in 1 .. n, Right(k - 1)
        PROVE  Right(k)
    <2> DEFINE st == f[k - 1]
               l  == lines[k]
    <2>1. f[k] = M!ReadLine(st, l)
      <3>1. k \in 0 .. n /\ k # 0
        BY <1>1
      <3>2. f[k] = IF k = 0 THEN [inClient |-> FALSE, out |-> M!NoCnf] ELSE M!ReadLine(f[k - 1], lines[k])
        BY <1>2, <3>1 DEF Reading
      <3> QED BY <3>1, <3>2
    <2>2. k \in Nat /\ k > 0
      OBVIOUS
    <2>3. st \in [inClient : BOOLEAN, out : [M!CnfKeys -> Seq(STRING)]]
          /\ (st.inClient <=> InClient(lines, k - 1))
          /\ \A key \in M!CnfKeys : st.out[key] = SaysBefore(lines, key, k - 1)
      BY <1>4
    <2>4. l \in M!CnfLine
      BY <1>1
    <2> HIDE DEF st
    <2>5. CASE l.is = "header"
      <3>1. f[k] = [st EXCEPT !.inClient = l.name \in {"client", "CLIENT"}]
        BY <2>1, <2>5 DEF M!ReadLine
      <3>2. f[k].out = st.out /\ f[k].inClient = (l.name \in {"client", "CLIENT"})
            /\ f[k] = [inClient |-> f[k].inClient, out |-> f[k].out]
        <4>1. st = [inClient |-> st.inClient, out |-> st.out]
          BY <2>3
        <4> QED BY <3>1, <4>1
      <3>3. f[k].inClient \in BOOLEAN /\ (f[k].inClient <=> l.name \in {"client", "CLIENT"})
        <4> DEFINE Client == l.name \in {"client", "CLIENT"}
        <4>1. f[k].inClient = Client
          BY <3>2
        <4>2. Client \in BOOLEAN
          OBVIOUS
        <4> HIDE DEF Client
        <4>3. f[k].inClient \in BOOLEAN /\ (f[k].inClient <=> Client)
          BY Zenon, <4>1, <4>2
        <4> QED BY <4>3 DEF Client
      <3>4. f[k].out \in [M!CnfKeys -> Seq(STRING)]
        BY <2>3, <3>2
      <3>5. f[k] \in [inClient : BOOLEAN, out : [M!CnfKeys -> Seq(STRING)]]
        BY Zenon, <3>2, <3>3, <3>4
      <3>6. f[k].inClient <=> InClient(lines, k)
        BY <2>2, <2>5, <3>3, OneMoreLine
      <3>7. ASSUME NEW key \in M!CnfKeys
            PROVE  f[k].out[key] = SaysBefore(lines, key, k)
        BY <2>2, <2>3, <2>5, <3>2, OneMoreLine
      <3> QED BY <3>5, <3>6, <3>7
    <2>6. CASE l.is = "set" /\ st.inClient /\ l.key \in M!CnfKeys
      <3>1. f[k] = [st EXCEPT !.out[l.key] = l.val]
        BY <2>1, <2>6 DEF M!ReadLine
      <3>2. l.val \in Seq(STRING)
        BY <2>4, <2>6 DEF M!CnfLine, M!OtherLine
      <3>3. /\ f[k].inClient = st.inClient
            /\ f[k].out = [st.out EXCEPT ![l.key] = l.val]
            /\ f[k] \in [inClient : BOOLEAN, out : [M!CnfKeys -> Seq(STRING)]]
        BY <2>3, <2>6, <3>1, <3>2
      <3>4. InClient(lines, k) /\ InClient(lines, k - 1)
        BY <2>2, <2>3, <2>6, OneMoreLine
      <3>5. ASSUME NEW key \in M!CnfKeys
            PROVE  f[k].out[key] = SaysBefore(lines, key, k)
        <4>1. CASE key = l.key
          <5>1. f[k].out[key] = l.val
            BY <2>3, <3>3, <4>1
          <5> QED BY <2>2, <2>6, <3>4, <4>1, <5>1, OneMoreLine
        <4>2. CASE key # l.key
          <5>1. f[k].out[key] = st.out[key]
            BY <2>3, <3>3, <4>2
          <5> QED BY <2>2, <2>3, <4>2, <5>1, OneMoreLine
        <4> QED BY <4>1, <4>2
      <3> QED BY <2>3, <2>6, <3>3, <3>4, <3>5
    <2>7. CASE l.is # "header" /\ ~(l.is = "set" /\ st.inClient /\ l.key \in M!CnfKeys)
      <3>1. f[k] = st
        BY <2>1, <2>7 DEF M!ReadLine
      <3>2. InClient(lines, k) <=> InClient(lines, k - 1)
        BY <2>2, <2>7, OneMoreLine
      <3>3. ASSUME NEW key \in M!CnfKeys
            PROVE  SaysBefore(lines, key, k) = SaysBefore(lines, key, k - 1)
        BY <2>2, <2>3, <2>7, <3>2, OneMoreLine
      <3> QED BY <2>3, <3>1, <3>2, <3>3
    <2> QED BY <2>5, <2>6, <2>7
  <1>5. Right(n)
    <2> DEFINE Wrong == {k \in 0 .. n : ~Right(k)}
    <2> HIDE DEF Right, n
    <2> SUFFICES ASSUME Wrong # {}
                 PROVE  FALSE
      BY <1>1
    <2>1. PICK k \in 0 .. n : ~Right(k) /\ \A i \in Wrong : k <= i
      <3>1. Wrong \in SUBSET Nat
        OBVIOUS
      <3>2. \E m \in Wrong : \A i \in Wrong : m <= i
        <4> HIDE DEF Wrong
        <4> QED BY <3>1, LeastOf
      <3> QED BY <3>2
    <2>2. k \in 1 .. n /\ k - 1 \in 0 .. n /\ ~(k <= k - 1)
      BY <1>1, <1>3, <2>1
    <2>3. Right(k - 1)
      BY <2>1, <2>2
    <2> QED BY <1>4, <2>1, <2>2, <2>3
  <1>6. f[n].out \in [M!CnfKeys -> Seq(STRING)]
        /\ \A key \in M!CnfKeys : f[n].out[key] = SaysBefore(lines, key, n)
    BY <1>5
  <1> QED BY <1>1, <1>2, <1>6, SaysAll


----------------------------------------------------------------------------
(* Where a setting comes from                                              *)

LEMMA FirstOf ==
  ASSUME NEW a, NEW b, NEW c, NEW d, d # << >>
  PROVE  M!First(<<a, b, c, d>>) = IF a # << >> THEN a[1] ELSE IF b # << >> THEN b[1]
                                   ELSE IF c # << >> THEN c[1] ELSE d[1]
  <1> DEFINE said == <<a, b, c, d>>
             here == {i \in DOMAIN said : said[i] # << >>}
  <1>1. DOMAIN said = {1, 2, 3, 4} /\ said[1] = a /\ said[2] = b /\ said[3] = c /\ said[4] = d
    OBVIOUS
  <1>2. M!First(said) = said[M!Min(here)][1]
    BY DEF M!First
  <1> HIDE DEF said
  <1>3. here \in SUBSET {1, 2, 3, 4} /\ 4 \in here
    BY <1>1
  <1>4. ASSUME NEW m \in here, \A i \in here : m <= i
        PROVE  M!Min(here) = m
    <2>1. here \in SUBSET Int
      BY <1>3
    <2> HIDE DEF here
    <2> QED BY <1>4, <2>1, MinIs
  <1>5. CASE a # << >>
    <2>1. 1 \in here /\ \A i \in here : 1 <= i
      BY <1>1, <1>3, <1>5
    <2> QED BY <1>1, <1>2, <1>4, <1>5, <2>1 DEF said
  <1>6. CASE a = << >> /\ b # << >>
    <2>1. 2 \in here /\ \A i \in here : 2 <= i
      BY <1>1, <1>3, <1>6
    <2> QED BY <1>1, <1>2, <1>4, <1>6, <2>1 DEF said
  <1>7. CASE a = << >> /\ b = << >> /\ c # << >>
    <2>1. 3 \in here /\ \A i \in here : 3 <= i
      BY <1>1, <1>3, <1>7
    <2> QED BY <1>1, <1>2, <1>4, <1>7, <2>1 DEF said
  <1>8. CASE a = << >> /\ b = << >> /\ c = << >>
    <2>1. \A i \in here : 4 <= i
      BY <1>1, <1>3, <1>8
    <2> QED BY <1>1, <1>2, <1>3, <1>4, <1>8, <2>1 DEF said
  <1> QED BY <1>5, <1>6, <1>7, <1>8

\* What file and environment say of a setting, or its default.
Says(k, file, env) ==
  IF k \in M!EnvKeys /\ env[k] # << >>
  THEN IF k = "allowDrop" THEN env[k] = <<"true">> ELSE env[k]
  ELSE IF file.is = "yaml" /\ k \in DOMAIN file.says THEN file.says[k]
  ELSE M!Default[k]

LEMMA StrongestSays ==
  ASSUME NEW k, NEW flag, NEW file, NEW env
  PROVE  M!First(M!Said(k, flag, file, env))
           = IF k = "addr" /\ flag # "" THEN <<flag>> ELSE Says(k, file, env)
  <1> DEFINE a == IF k = "addr" /\ flag # "" THEN <<<<flag>>>> ELSE << >>
             v == IF k = "allowDrop" THEN env[k] = <<"true">> ELSE env[k]
             b == IF k \in M!EnvKeys /\ env[k] # << >> THEN <<v>> ELSE << >>
             c == IF file.is = "yaml" /\ k \in DOMAIN file.says THEN <<file.says[k]>> ELSE << >>
             d == <<M!Default[k]>>
  <1>1. \A x : <<x>> # << >> /\ <<x>>[1] = x
    OBVIOUS
  <1>2. M!Said(k, flag, file, env) = <<a, b, c, d>>
    BY DEF M!Said
  <1>3. d # << >> /\ d[1] = M!Default[k]
    BY <1>1
  <1>4. (a # << >> <=> k = "addr" /\ flag # "") /\ (a # << >> => a[1] = <<flag>>)
    BY <1>1
  <1>5. (b # << >> <=> k \in M!EnvKeys /\ env[k] # << >>) /\ (b # << >> => b[1] = v)
    <2> HIDE DEF v
    <2> QED BY <1>1
  <1>6. /\ c # << >> <=> file.is = "yaml" /\ k \in DOMAIN file.says
        /\ c # << >> => c[1] = file.says[k]
    BY <1>1
  <1> HIDE DEF a, b, c, d
  <1>7. M!First(<<a, b, c, d>>) = IF a # << >> THEN a[1] ELSE IF b # << >> THEN b[1]
                                  ELSE IF c # << >> THEN c[1] ELSE d[1]
    BY <1>3, FirstOf
  <1> HIDE DEF v
  <1>8. Says(k, file, env) = IF b # << >> THEN v ELSE IF c # << >> THEN c[1] ELSE d[1]
    BY Zenon, <1>3, <1>5, <1>6 DEF Says, v
  <1> QED BY Zenon, <1>2, <1>4, <1>5, <1>7, <1>8

ConfigKeys == {"addr", "timeout", "storage", "cnf", "allowDrop", "secrets",
               "toFile", "auditFile", "level", "dsn"}

(* Load has of each setting what file and environment say, the paths in    *)
(* their directories and the level in lower case (config.go:98-116).       *)
LEMMA LoadSays ==
  ASSUME NEW file, NEW env
  PROVE  LET c == M!Load(file, env).cfg
         IN  /\ DOMAIN c = ConfigKeys
             /\ \A k \in {"addr", "timeout", "cnf", "allowDrop", "toFile", "dsn"} :
                   c[k] = Says(k, file, env)
             /\ c.level = M!ToLower(Says("level", file, env))
             /\ c.storage = M!Under(M!LibDir, Says("storage", file, env))
             /\ c.secrets = M!Under(M!AppDir, Says("secrets", file, env))
  <1> DEFINE y == IF file.is = "yaml" THEN M!Unmarshal(file.says, M!Default) ELSE M!Default
             e == M!ApplyEnv(env, y)
             c == M!ExpandPaths(e)
  <1>1. DOMAIN M!Default = ConfigKeys
    BY DEF M!Default, ConfigKeys
  <1>2. /\ DOMAIN y = ConfigKeys
        /\ \A k \in ConfigKeys : y[k] = IF file.is = "yaml" /\ k \in DOMAIN file.says
                                        THEN file.says[k] ELSE M!Default[k]
    BY Zenon, <1>1 DEF M!Unmarshal
  <1> HIDE DEF y
  <1>3. /\ e = [k \in ConfigKeys |-> e[k]]
        /\ \A k \in ConfigKeys : e[k] = Says(k, file, env)
    BY Zenon, <1>2 DEF M!ApplyEnv, M!ParseBool, Says
  <1> HIDE DEF e
  <1>4. c = [e EXCEPT !.storage = M!Under(M!LibDir, @), !.secrets = M!Under(M!AppDir, @),
                      !.auditFile = M!Under(M!LogDir, @)]
    BY DEF M!ExpandPaths
  <1>5. M!Load(file, env).cfg = [c EXCEPT !.level = M!ToLower(@)]
    BY Zenon DEF M!Load, c, e, y
  <1> HIDE DEF c
  <1>6. /\ DOMAIN c = ConfigKeys
        /\ c.storage = M!Under(M!LibDir, e.storage)
        /\ c.secrets = M!Under(M!AppDir, e.secrets)
        /\ \A k \in ConfigKeys \ {"storage", "secrets", "auditFile"} : c[k] = e[k]
    BY <1>3, <1>4 DEF ConfigKeys
  <1> DEFINE r == M!Load(file, env).cfg
  <1>7. /\ DOMAIN r = ConfigKeys
        /\ r.level = M!ToLower(c.level)
        /\ \A k \in ConfigKeys \ {"level"} : r[k] = c[k]
    BY <1>5, <1>6 DEF ConfigKeys
  <1> HIDE DEF r
  <1>8. \A k \in {"addr", "timeout", "cnf", "allowDrop", "toFile", "dsn"} :
           r[k] = Says(k, file, env)
    BY <1>3, <1>6, <1>7 DEF ConfigKeys
  <1>9. r.level = M!ToLower(Says("level", file, env))
    BY <1>3, <1>6, <1>7 DEF ConfigKeys
  <1>10. r.storage = M!Under(M!LibDir, Says("storage", file, env))
         /\ r.secrets = M!Under(M!AppDir, Says("secrets", file, env))
    BY <1>3, <1>6, <1>7 DEF ConfigKeys
  <1> QED BY <1>7, <1>8, <1>9, <1>10 DEF r

(* The texts that are put before others, which the provers do not know to  *)
(* be strings.                                                             *)
Texts == STRING \cup {"/", "lib", "apps", "db", "unix", "tcp", "127.0.0.1", "3306"}

LEMMA SeqGrows ==
  ASSUME NEW S, NEW T, S \subseteq T
  PROVE  Seq(S) \subseteq Seq(T)
  <1> SUFFICES ASSUME NEW s \in Seq(S)
               PROVE  s \in Seq(T)
    OBVIOUS
  <1> QED OBVIOUS

LEMMA TextsAre ==
  /\ Seq(STRING) \subseteq Seq(Texts)
  /\ << >> \in Seq(Texts) /\ \A x \in Texts : <<x>> \in Seq(Texts)
  /\ \A a, b \in Seq(Texts) : a \o b \in Seq(Texts)
  <1>1. STRING \subseteq Texts
    BY DEF Texts
  <1>2. Seq(STRING) \subseteq Seq(Texts)
    BY <1>1, SeqGrows
  <1>3. << >> \in Seq(Texts)
    OBVIOUS
  <1>4. ASSUME NEW x \in Texts
        PROVE  <<x>> \in Seq(Texts)
    OBVIOUS
  <1>5. ASSUME NEW a \in Seq(Texts), NEW b \in Seq(Texts)
        PROVE  a \o b \in Seq(Texts)
    OBVIOUS
  <1> QED BY <1>2, <1>3, <1>4, <1>5

\* What is put before a text leaves it at the end.
LEMMA SuffixOf ==
  ASSUME NEW p \in Seq(Texts), NEW s \in Seq(Texts)
  PROVE  M!IsSuffix(s, p \o s)
  <1> DEFINE t == p \o s
  <1>1. /\ t \in Seq(Texts) /\ Len(s) \in Nat /\ Len(p) \in Nat /\ Len(t) = Len(p) + Len(s)
        /\ \A i \in 1 .. Len(s) : t[Len(p) + i] = s[i]
    OBVIOUS
  <1> HIDE DEF t
  <1>2. M!Reverse(s) \in Seq(Texts) /\ Len(M!Reverse(s)) = Len(s)
        /\ \A i \in 1 .. Len(s) : M!Reverse(s)[i] = s[Len(s) - i + 1]
    BY <1>1 DEF M!Reverse
  <1>3. M!Reverse(t) \in Seq(Texts) /\ Len(M!Reverse(t)) = Len(t)
        /\ \A i \in 1 .. Len(t) : M!Reverse(t)[i] = t[Len(t) - i + 1]
    BY <1>1 DEF M!Reverse
  <1>4. ASSUME NEW i \in 1 .. Len(s)
        PROVE  M!Reverse(s)[i] = M!Reverse(t)[i]
    <2>1. i \in 1 .. Len(t) /\ Len(s) - i + 1 \in 1 .. Len(s)
      BY <1>1
    <2>2. Len(t) - i + 1 = Len(p) + (Len(s) - i + 1)
      BY <1>1
    <2> QED BY <1>1, <1>2, <1>3, <2>1, <2>2
  <1>5. /\ SubSeq(M!Reverse(s), 1, Len(s)) = [i \in 1 .. Len(s) |-> M!Reverse(s)[i]]
        /\ SubSeq(M!Reverse(t), 1, Len(s)) = [i \in 1 .. Len(s) |-> M!Reverse(t)[i]]
    BY <1>1, <1>2, <1>3
  <1>6. Len(M!Reverse(s)) <= Len(M!Reverse(t))
    BY <1>1, <1>2, <1>3
  <1> QED BY <1>2, <1>4, <1>5, <1>6 DEF M!IsSuffix, M!IsPrefix, t

\* A path in its directory.
LEMMA UnderDirectory ==
  ASSUME NEW dir \in Seq(Texts), M!IsAbs(dir), NEW p \in Seq(Texts)
  PROVE  M!IsSuffix(p, M!Under(dir, p)) /\ M!IsAbs(M!Under(dir, p))
  <1>1. CASE M!IsAbs(p)
    <2>1. << >> \in Seq(Texts) /\ << >> \o p = p
      OBVIOUS
    <2>2. M!IsSuffix(p, p)
      BY <2>1, SuffixOf
    <2> QED BY <1>1, <2>2 DEF M!Under
  <1>2. CASE ~M!IsAbs(p)
    <2>1. M!Under(dir, p) = dir \o p
      BY <1>2 DEF M!Under
    <2>2. dir # << >> /\ dir[1] = "/"
      BY DEF M!IsAbs
    <2>3. dir \o p # << >> /\ (dir \o p)[1] = "/"
      BY <2>2
    <2> QED BY <2>1, <2>3, SuffixOf DEF M!IsAbs
  <1> QED BY <1>1, <1>2

(* The credentials that resolveAdminDSN finds (main.go:329): those of the  *)
(* environment, or those of [client] in the my.cnf that the settings name. *)
LEMMA Credentials ==
  ASSUME NEW c, NEW cnfs, \A p \in DOMAIN cnfs : cnfs[p] \in Seq(M!CnfLine),
         M!ResolveAdminDSN(c, cnfs).ok
  PROVE  LET dsn == M!ResolveAdminDSN(c, cnfs).dsn
             cnf == cnfs[c.cnf]
         IN  IF c.dsn # << >> THEN dsn = c.dsn
             ELSE /\ dsn.user = M!CnfSays(cnf, "user") /\ dsn.user # << >>
                  /\ dsn.password = M!CnfSays(cnf, "password")
                  /\ M!IsSuffix(IF M!CnfSays(cnf, "socket") # << >>
                                THEN M!CnfSays(cnf, "socket")
                                ELSE M!CnfSays(cnf, "port"), dsn.via)
  <1> DEFINE r == M!ResolveAdminDSN(c, cnfs)
             cnf == cnfs[c.cnf]
             m == M!LoadMycnf(cnf)
  <1>1. CASE c.dsn # << >>
    BY <1>1 DEF M!ResolveAdminDSN
  <1>2. CASE c.dsn = << >>
    <2>1. c.cnf \in DOMAIN cnfs
      BY <1>2 DEF M!ResolveAdminDSN
    <2>2. m.user # << >> /\ r.dsn = M!DSN(m)
      BY <1>2, <2>1 DEF M!ResolveAdminDSN
    <2>3. /\ m \in [M!CnfKeys -> Seq(STRING)]
          /\ \A key \in M!CnfKeys : m[key] = M!CnfSays(cnf, key)
      BY <2>1, MycnfSays
    <2> HIDE DEF m, cnf, r
    <2>4. /\ m.user = M!CnfSays(cnf, "user") /\ m.password = M!CnfSays(cnf, "password")
          /\ m.socket = M!CnfSays(cnf, "socket") /\ m.port = M!CnfSays(cnf, "port")
          /\ m.socket \in Seq(STRING) /\ m.port \in Seq(STRING) /\ m.host \in Seq(STRING)
      BY <2>3 DEF M!CnfKeys
    <2>5. r.dsn.user = m.user /\ r.dsn.password = m.password
      BY <2>2 DEF M!DSN
    <2>6. CASE m.socket # << >>
      <3>1. r.dsn.via = <<"unix">> \o m.socket
        BY <2>2, <2>6 DEF M!DSN
      <3>2. <<"unix">> \in Seq(Texts)
        BY TextsAre DEF Texts
      <3>3. M!IsSuffix(m.socket, r.dsn.via)
        BY <2>4, <3>1, <3>2, TextsAre, SuffixOf
      <3> QED BY <1>2, <2>2, <2>4, <2>5, <2>6, <3>3 DEF r, cnf
    <2>7. CASE m.socket = << >>
      <3> DEFINE host == <<"tcp">> \o M!OrElse(m.host, <<"127.0.0.1">>)
                 port == M!OrElse(m.port, <<"3306">>)
      <3>1. r.dsn.via = host \o port
        BY <2>2, <2>7 DEF M!DSN
      <3>2. host \in Seq(Texts) /\ port \in Seq(Texts) /\ m.port \in Seq(Texts)
        <4>1. /\ <<"tcp">> \in Seq(Texts) /\ <<"127.0.0.1">> \in Seq(Texts)
              /\ <<"3306">> \in Seq(Texts)
          BY TextsAre DEF Texts
        <4>2. /\ M!OrElse(m.host, <<"127.0.0.1">>) \in Seq(Texts) /\ port \in Seq(Texts)
              /\ m.port \in Seq(Texts)
          BY <2>4, <4>1, TextsAre DEF M!OrElse
        <4> QED BY <4>1, <4>2, TextsAre
      <3> HIDE DEF host
      <3>3. M!IsSuffix(m.port, r.dsn.via)
        <4>1. CASE m.port # << >>
          <5>1. port = m.port
            BY <4>1 DEF M!OrElse
          <5> QED BY <2>4, <3>1, <3>2, <5>1, SuffixOf
        <4>2. CASE m.port = << >>
          <5> HIDE DEF port
          <5>1. host \o port \in Seq(Texts) /\ << >> \in Seq(Texts)
                /\ (host \o port) \o << >> = host \o port
            BY <3>2, TextsAre
          <5> QED BY <3>1, <4>2, <5>1, SuffixOf
        <4> QED BY <4>1, <4>2
      <3> QED BY <1>2, <2>2, <2>4, <2>5, <2>7, <3>3 DEF r, cnf
    <2> QED BY <2>6, <2>7
  <1> QED BY <1>1, <1>2

----------------------------------------------------------------------------
(* The process                                                             *)

\* The file whose settings the process takes, and the server's --addr.
Chosen == IF M!Sub = "server" THEN M!FlagValue(M!Rest, ServerFlags, "config", M!DefaultPath)
          ELSE M!ConfigPath(M!Rest)
Flag   == IF M!Sub = "server" THEN M!FlagValue(M!Rest, ServerFlags, "addr", "") ELSE ""

\* The settings that these give.
WithFlag(c) == IF Flag = "" THEN c ELSE [c EXCEPT !.addr = <<Flag>>]
Sourced     == WithFlag(M!Load(M!FileAt(Chosen), main.env).cfg)

MainFields == {"at", "args", "env", "files", "cnfs", "cfg", "dsn", "did", "exit"}

\* A line that is not refused, its settings, and the credentials they give.
Fine      == main.args # << >> /\ (M!Sub = "server" => M!ParseFits(M!Rest, ServerFlags))
Loaded    == main.cfg = Sourced
Connected == LET r == M!ResolveAdminDSN(main.cfg, main.cnfs) IN r.ok /\ main.dsn = r.dsn

Late  == {"secrets", "listen", "serving"}
Going == {"store", "audit", "dsn", "act"} \cup Late

(* The inductive invariant: the process has done nothing before it serves  *)
(* or exits; from the configuration on, to the end of a command that did   *)
(* something, its line has passed the flags of the server and its settings *)
(* are those of the chosen file, of the environment and of the flag; and   *)
(* once it has reached MySQL, it has the credentials that they lead to. It *)
(* keeps line, files and environment.                                      *)
MainInv ==
  \/ main = M!NoProcess
  \/ /\ DOMAIN main = MainFields
     /\ M!LaunchFits(main)
     /\ main.did # "nothing" => main.at \in {"serving", "exited"}
     /\ main.at \in Going \cup {"config"} \/ main.did # "nothing" => Fine
     /\ main.at \in Going \/ main.did # "nothing" => Loaded
     /\ main.at \in {"audit", "dsn"} \cup Late => M!Sub = "server"
     /\ main.at \in Late => Connected

\* What a process keeps.
KeepsLine == DOMAIN main' = DOMAIN main /\ main'.args = main.args /\ main'.env = main.env
             /\ main'.files = main.files /\ main'.cnfs = main.cnfs

LEMMA SameLine ==
  ASSUME KeepsLine
  PROVE  /\ Fine' = Fine /\ Sourced' = Sourced /\ M!Sub' = M!Sub
         /\ M!LaunchFits(main) => M!LaunchFits(main)'
  <1>1. M!Rest' = M!Rest /\ M!Sub' = M!Sub
    BY DEF KeepsLine, M!Rest, M!Sub
  <1>2. Chosen' = Chosen /\ Flag' = Flag
    BY <1>1 DEF Chosen, Flag
  <1>3. Fine' = Fine
    BY Zenon, <1>1 DEF Fine, KeepsLine
  <1>4. M!FileAt(Chosen)' = M!FileAt(Chosen)
    BY <1>2 DEF M!FileAt, KeepsLine
  <1>5. Sourced' = Sourced
    BY Zenon, <1>2, <1>4 DEF Sourced, WithFlag, KeepsLine
  <1>6. M!LaunchFits(main) => M!LaunchFits(main)'
    BY DEF M!LaunchFits, KeepsLine
  <1> QED BY <1>1, <1>3, <1>5, <1>6

\* Steps after the configuration: on to the next, or to the end.
GoesOn ==
  /\ KeepsLine /\ main'.cfg = main.cfg
  /\ main'.at \in Going \cup {"exited"}
  /\ main'.did # "nothing" => main'.at \in {"serving", "exited"}
  /\ main'.at \in {"audit", "dsn"} \cup Late
       => M!Sub = "server" \/ main.at \in {"audit", "dsn"} \cup Late
  /\ main'.at \in Late => Connected' \/ (main.at \in Late /\ main'.dsn = main.dsn)

LEMMA GoingOn ==
  ASSUME MainInv, main.at \in Going, main # M!NoProcess, GoesOn
  PROVE  MainInv'
  <1>1. /\ DOMAIN main = MainFields /\ M!LaunchFits(main) /\ Fine /\ Loaded
        /\ main.at \in {"audit", "dsn"} \cup Late => M!Sub = "server"
        /\ main.at \in Late => Connected
    BY DEF MainInv
  <1>2. KeepsLine /\ main'.cfg = main.cfg
    BY DEF GoesOn
  <1>3. Fine' /\ Sourced' = Sourced /\ M!Sub' = M!Sub /\ M!LaunchFits(main)'
    BY Zenon, <1>1, <1>2, SameLine
  <1>4. Loaded'
    BY Zenon, <1>1, <1>2, <1>3 DEF Loaded
  <1>5. main'.at \in {"audit", "dsn"} \cup Late => M!Sub' = "server"
    BY Zenon, <1>1, <1>3 DEF GoesOn
  <1>6. main'.at \in Late => Connected'
    <2>1. Connected /\ main'.dsn = main.dsn => Connected'
      BY Zenon, <1>2 DEF Connected, KeepsLine
    <2> QED BY Zenon, <1>1, <2>1 DEF GoesOn
  <1>7. DOMAIN main' = MainFields
        /\ (main'.did # "nothing" => main'.at \in {"serving", "exited"})
    BY <1>1, <1>2 DEF GoesOn, KeepsLine
  <1> QED BY Zenon, <1>3, <1>4, <1>5, <1>6, <1>7 DEF MainInv

LEMMA MainInvariant == M!Spec => []MainInv
  <1>1. M!Init => MainInv
    BY DEF M!Init, MainInv
  <1>2. ASSUME MainInv, [M!Next]_main
        PROVE  MainInv'
    <2>1. CASE UNCHANGED main
      <3>1. KeepsLine
        BY <2>1 DEF KeepsLine
      <3>2. Fine' = Fine /\ Sourced' = Sourced /\ M!Sub' = M!Sub
            /\ (M!LaunchFits(main) => M!LaunchFits(main)')
        BY <3>1, SameLine
      <3>3. Loaded' = Loaded /\ Connected' = Connected
        BY Zenon, <2>1, <3>2 DEF Loaded, Connected
      <3> QED BY Zenon, <1>2, <2>1, <3>2, <3>3 DEF MainInv
    <2>2. CASE M!Launch
      <3>1. PICK x \in Launches :
              main' = [at |-> "main", args |-> x.args, env |-> x.env, files |-> x.files,
                       cnfs |-> x.cnfs, cfg |-> M!Default, dsn |-> << >>, did |-> "nothing",
                       exit |-> "none"]
        BY <2>2 DEF M!Launch
      <3>2. M!LaunchFits(x)
        BY MainAssumption DEF M!MainAssumption
      <3>3. /\ DOMAIN main' = MainFields /\ main'.at = "main" /\ main'.did = "nothing"
            /\ main'.args = x.args /\ main'.env = x.env /\ main'.files = x.files
            /\ main'.cnfs = x.cnfs
        BY <3>1 DEF MainFields
      <3>4. M!LaunchFits(main)'
        BY <3>2, <3>3 DEF M!LaunchFits
      <3> QED BY <3>3, <3>4 DEF MainInv, Going, Late
    <2>3. CASE M!Gone
      BY <2>3 DEF M!Gone, MainInv
    <2> SUFFICES ASSUME M!Next, main.at # "none", main.at # "exited", main # M!NoProcess
                 PROVE  MainInv'
      <3>1. CASE main.at = "none"
        BY <1>2, <2>1, <2>2, <2>3, <3>1 DEF M!Next, M!Dispatch, M!LoadConfig, M!OpenStore,
             M!OpenAudit, M!ConnectMySQL, M!OpenSecrets, M!Listen, M!StopServing,
             M!TokenCommand, M!AuditCommand
      <3>2. CASE main.at = "exited"
        BY <1>2, <2>1, <2>2, <2>3, <3>2 DEF M!Next, M!Dispatch, M!LoadConfig, M!OpenStore,
             M!OpenAudit, M!ConnectMySQL, M!OpenSecrets, M!Listen, M!StopServing,
             M!TokenCommand, M!AuditCommand
      <3>3. main = M!NoProcess => main.at = "none"
        BY DEF M!NoProcess
      <3> QED BY <1>2, <2>1, <3>1, <3>2, <3>3
    <2>4. /\ DOMAIN main = MainFields
          /\ M!LaunchFits(main)
          /\ main.did # "nothing" => main.at \in {"serving", "exited"}
          /\ main.at \in Going \cup {"config"} => Fine
          /\ main.at \in {"audit", "dsn"} \cup Late => M!Sub = "server"
      BY <1>2 DEF MainInv
    <2>5. ASSUME NEW code, M!Exit(code)
          PROVE  KeepsLine /\ main'.at = "exited" /\ main'.cfg = main.cfg /\ main'.did = main.did
      BY <2>4, <2>5 DEF M!Exit, KeepsLine, MainFields
    <2>6. ASSUME NEW what, M!Did(what), main.at \in Going
          PROVE  MainInv'
      <3>1. GoesOn
        BY <2>4, <2>6 DEF M!Did, GoesOn, KeepsLine, MainFields, Late
      <3> QED BY <1>2, <2>6, <3>1, GoingOn
    <2>7. ASSUME NEW code, M!Exit(code), main.at \in Going
          PROVE  MainInv'
      <3>1. GoesOn
        BY <2>4, <2>5, <2>7 DEF GoesOn, Going, Late
      <3> QED BY <1>2, <2>7, <3>1, GoingOn
    <2>8. ASSUME NEW code, M!Exit(code), main.at \in {"main", "config"}
          PROVE  MainInv'
      <3>1. KeepsLine /\ main'.at = "exited" /\ main'.did = "nothing"
        BY <2>4, <2>5, <2>8
      <3>2. M!LaunchFits(main)' /\ DOMAIN main' = MainFields
        BY <2>4, <3>1, SameLine DEF KeepsLine
      <3> QED BY <3>1, <3>2 DEF MainInv, Going, Late
    <2>9. CASE M!Dispatch
      <3>1. main.at = "main" /\ main.did = "nothing"
        BY <2>4, <2>9 DEF M!Dispatch
      <3>2. ASSUME main' = [main EXCEPT !.at = "config"], Fine
            PROVE  MainInv'
        <4>1. KeepsLine /\ main'.at = "config" /\ main'.did = main.did
          BY <2>4, <3>2 DEF KeepsLine, MainFields
        <4>2. Fine' /\ M!LaunchFits(main)'
          BY Zenon, <2>4, <3>2, <4>1, SameLine
        <4>3. DOMAIN main' = MainFields
          BY <2>4, <4>1 DEF KeepsLine
        <4> QED BY <3>1, <4>1, <4>2, <4>3 DEF MainInv, Going, Late
      <3>3. (\E code : M!Exit(code)) \/ (main' = [main EXCEPT !.at = "config"] /\ Fine)
        <4>1. main.args = << >> => M!Sub = "no text"
          BY DEF M!Sub, M!NoText
        <4> QED BY <2>9, <4>1 DEF M!Dispatch, M!Accept, Fine, ServerFlags
      <3> QED BY <2>8, <3>1, <3>2, <3>3
    <2>10. CASE M!LoadConfig
      <3> DEFINE r == M!Load(M!FileAt(Chosen), main.env)
      <3>1. main.at = "config" /\ main.did = "nothing" /\ Fine
        BY <2>4, <2>10 DEF M!LoadConfig
      <3>2. \/ M!Exit("1")
            \/ main' = [main EXCEPT !.at = "store", !.cfg = WithFlag(r.cfg)]
        BY <2>10 DEF M!LoadConfig, Chosen, Flag, WithFlag, ServerFlags
      <3>3. ASSUME main' = [main EXCEPT !.at = "store", !.cfg = WithFlag(r.cfg)]
            PROVE  MainInv'
        <4>1. WithFlag(r.cfg) = Sourced
          BY Zenon DEF Sourced
        <4> HIDE DEF r
        <4>2. KeepsLine /\ main'.at = "store" /\ main'.did = main.did /\ main'.cfg = Sourced
          BY <2>4, <3>3, <4>1 DEF KeepsLine, MainFields
        <4>3. Fine' /\ Sourced' = Sourced /\ M!LaunchFits(main)'
          BY Zenon, <2>4, <3>1, <4>2, SameLine
        <4>4. Loaded'
          BY Zenon, <4>2, <4>3 DEF Loaded
        <4>5. DOMAIN main' = MainFields
          BY <2>4, <4>2 DEF KeepsLine
        <4> QED BY <3>1, <4>2, <4>3, <4>4, <4>5 DEF MainInv, Late
      <3> HIDE DEF r
      <3> QED BY <2>8, <3>1, <3>2, <3>3
    <2>11. ASSUME NEW a \in Going, main' = [main EXCEPT !.at = a], main.at \in Going \ {"serving"},
                  a = "audit" => M!Sub = "server", a = "dsn" => main.at = "audit",
                  a \in Late => main.at \in Late
           PROVE  MainInv'
      <3>1. GoesOn
        <4>1. KeepsLine /\ main'.cfg = main.cfg /\ main'.at = a /\ main'.did = main.did
              /\ main'.dsn = main.dsn
          BY <2>4, <2>11 DEF KeepsLine, MainFields
        <4>2. main.did = "nothing"
          BY <2>4, <2>11 DEF Going, Late
        <4> QED BY <2>11, <4>1, <4>2 DEF GoesOn, Going, Late
      <3> QED BY <1>2, <2>11, <3>1, GoingOn
    <2>12. CASE M!OpenStore
      BY <2>7, <2>11, <2>12 DEF M!OpenStore, Going, Late
    <2>13. CASE M!OpenAudit
      BY <2>7, <2>11, <2>13 DEF M!OpenAudit, Going, Late
    <2>14. CASE M!ConnectMySQL
      <3>1. main.at \in Going
        BY <2>14 DEF M!ConnectMySQL, Going
      <3> DEFINE r == M!ResolveAdminDSN(main.cfg, main.cnfs)
      <3>2. M!Exit("1") \/ (r.ok /\ main' = [main EXCEPT !.at = "secrets", !.dsn = r.dsn])
        BY <2>14 DEF M!ConnectMySQL
      <3>3. ASSUME r.ok, main' = [main EXCEPT !.at = "secrets", !.dsn = r.dsn]
            PROVE  MainInv'
        <4>1. main.at = "dsn" /\ main.did = "nothing" /\ M!Sub = "server"
          BY <2>4, <2>14 DEF M!ConnectMySQL
        <4>2. ASSUME NEW d, main' = [main EXCEPT !.at = "secrets", !.dsn = d]
              PROVE  KeepsLine /\ main'.cfg = main.cfg /\ main'.at = "secrets"
                     /\ main'.did = main.did /\ main'.dsn = d
          BY <2>4, <4>2 DEF KeepsLine, MainFields
        <4>3. KeepsLine /\ main'.cfg = main.cfg /\ main'.at = "secrets"
              /\ main'.did = main.did /\ main'.dsn = r.dsn
          BY Zenon, <3>3, <4>2
        <4>4. Connected'
          BY Zenon, <3>3, <4>3 DEF Connected, KeepsLine
        <4> HIDE DEF r
        <4>5. GoesOn
          BY <4>1, <4>3, <4>4 DEF GoesOn, Going, Late
        <4> QED BY <1>2, <3>1, <4>5, GoingOn
      <3> HIDE DEF r
      <3> QED BY <2>7, <3>1, <3>2, <3>3
    <2>15. CASE M!OpenSecrets
      BY <2>7, <2>11, <2>15 DEF M!OpenSecrets, Going, Late
    <2>16. CASE M!Listen
      <3>1. main.at \in Going
        BY <2>16 DEF M!Listen, Going, Late
      <3>2. ASSUME main' = [main EXCEPT !.at = "serving", !.did = "serve"]
            PROVE  MainInv'
        <4>1. GoesOn
          BY <2>4, <2>16, <3>2 DEF M!Listen, GoesOn, KeepsLine, MainFields, Going, Late
        <4> QED BY <1>2, <3>1, <4>1, GoingOn
      <3> QED BY <2>7, <2>16, <3>1, <3>2 DEF M!Listen
    <2>17. CASE M!StopServing
      BY <2>7, <2>17 DEF M!StopServing, Going, Late
    <2>18. CASE M!TokenCommand
      <3>1. main.at \in Going
        BY <2>18 DEF M!TokenCommand, Going
      <3>2. (\E code : M!Exit(code)) \/ (\E what : M!Did(what))
        BY <2>18 DEF M!TokenCommand
      <3> QED BY <2>6, <2>7, <3>1, <3>2
    <2>19. CASE M!AuditCommand
      BY <2>6, <2>7, <2>19 DEF M!AuditCommand, Going
    <2> QED BY <2>2, <2>3, <2>9, <2>10, <2>12, <2>13, <2>14, <2>15, <2>16, <2>17, <2>18, <2>19
            DEF M!Next
  <1> QED BY <1>1, <1>2, PTL DEF M!Spec

(* The server and the commands for its tokens and its log find the same    *)
(* store for the same --config and environment, one with the flag package, *)
(* the others with a search of their own (main.go:69, 106).                *)
THEOREM OneStore == M!Spec => []OneStoreForAll
  <1>1. MainInv => OneStoreForAll
    <2> SUFFICES ASSUME MainInv, main.at \in {"serving", "exited"}, main.did # "nothing",
                        M!Usual(M!Rest)
                 PROVE  main.cfg.storage = M!Load(M!FileAt(M!Named(M!Rest)), main.env).cfg.storage
      BY DEF OneStoreForAll, M!OneStoreForAll
    <2>1. main # M!NoProcess
      BY DEF M!NoProcess
    <2>2. main.args \in Seq(M!Word) /\ Fine /\ Loaded
      BY <2>1 DEF MainInv, M!LaunchFits
    <2>3. M!Rest \in Seq(M!Word)
      BY <2>2 DEF Fine, M!Rest
    <2>4. Chosen = M!Named(M!Rest)
      BY <2>2, <2>3, ConfigPathOf, FlagPathOf DEF Chosen, Fine
    <2> DEFINE c == M!Load(M!FileAt(Chosen), main.env).cfg
    <2>5. main.cfg = WithFlag(c)
      BY Zenon, <2>2 DEF Loaded, Sourced
    <2>6. DOMAIN c = ConfigKeys
      BY LoadSays
    <2> HIDE DEF c
    <2>7. main.cfg.storage = c.storage
      BY <2>5, <2>6 DEF WithFlag, ConfigKeys
    <2> QED BY Zenon, <2>4, <2>7 DEF c
  <1> QED BY <1>1, MainInvariant, PTL

(* A server that serves has every setting from the strongest source that   *)
(* says anything of it, its paths in their directories, and its MySQL      *)
(* credentials from the environment or from the [client] sections of the   *)
(* my.cnf that the settings name (config.go:98, main.go:329), whatever the *)
(* files say and however many lines they have.                             *)
THEOREM ConfiguredAsSaid == M!Spec => []ServesAsConfigured
  <1>1. MainInv => ServesAsConfigured
    <2> DEFINE source == M!FileAt(M!FlagValue(M!Rest, {"config", "addr"}, "config", M!DefaultPath))
               word == M!FlagValue(M!Rest, {"config", "addr"}, "addr", "")
               Strongest(k) == M!First(M!Said(k, word, source, main.env))
               cnf == main.cnfs[main.cfg.cnf]
               c == M!Load(source, main.env).cfg
    <2>1. ASSUME NEW k
          PROVE  Strongest(k) = IF k = "addr" /\ word # "" THEN <<word>>
                                ELSE Says(k, source, main.env)
      BY Zenon, StrongestSays
    <2> SUFFICES ASSUME MainInv, main.at = "serving"
                 PROVE  /\ \A k \in {"addr", "timeout", "cnf", "allowDrop", "toFile"} :
                             main.cfg[k] = Strongest(k)
                        /\ main.cfg.level = M!ToLower(Strongest("level"))
                        /\ M!IsSuffix(Strongest("storage"), main.cfg.storage)
                        /\ M!IsAbs(main.cfg.storage)
                        /\ M!IsSuffix(Strongest("secrets"), main.cfg.secrets)
                        /\ M!IsAbs(main.cfg.secrets)
                        /\ IF main.env.dsn # << >> THEN main.dsn = main.env.dsn
                           ELSE /\ main.dsn.user = M!CnfSays(cnf, "user")
                                /\ main.dsn.user # << >>
                                /\ main.dsn.password = M!CnfSays(cnf, "password")
                                /\ M!IsSuffix(IF M!CnfSays(cnf, "socket") # << >>
                                              THEN M!CnfSays(cnf, "socket")
                                              ELSE M!CnfSays(cnf, "port"), main.dsn.via)
      BY DEF ServesAsConfigured, M!ServesAsConfigured
    <2>2. main # M!NoProcess
      BY DEF M!NoProcess
    <2>3. M!LaunchFits(main) /\ Loaded /\ M!Sub = "server" /\ Connected
      BY <2>2 DEF MainInv, Going, Late
    <2>4. main.cfg = IF word = "" THEN c ELSE [c EXCEPT !.addr = <<word>>]
      BY Zenon, <2>3 DEF Loaded, Sourced, WithFlag, Flag, Chosen, ServerFlags
    <2>5. /\ DOMAIN c = ConfigKeys
          /\ \A k \in {"addr", "timeout", "cnf", "allowDrop", "toFile", "dsn"} :
                c[k] = Says(k, source, main.env)
          /\ c.level = M!ToLower(Says("level", source, main.env))
          /\ c.storage = M!Under(M!LibDir, Says("storage", source, main.env))
          /\ c.secrets = M!Under(M!AppDir, Says("secrets", source, main.env))
      BY Zenon, LoadSays
    <2>6. M!FileFits(source)
      BY <2>3 DEF M!LaunchFits, M!FileAt, M!FileFits, M!Absent
    <2> HIDE DEF c, word, source, Strongest
    <2>7. /\ main.cfg.addr = IF word = "" THEN c.addr ELSE <<word>>
          /\ \A k \in ConfigKeys \ {"addr"} : main.cfg[k] = c[k]
      BY <2>4, <2>5 DEF ConfigKeys
    <2>8. \A k \in {"addr", "timeout", "cnf", "allowDrop", "toFile"} :
             main.cfg[k] = Strongest(k)
      BY <2>5, <2>1, <2>7 DEF ConfigKeys
    <2>9. main.cfg.level = M!ToLower(Strongest("level"))
      BY <2>5, <2>1, <2>7 DEF ConfigKeys
    <2>10. Says("storage", source, main.env) \in Seq(Texts)
           /\ Says("secrets", source, main.env) \in Seq(Texts)
           /\ Says("dsn", source, main.env) = main.env.dsn
      <3>1. main.env \in [M!EnvKeys -> Seq(STRING)]
        BY <2>3 DEF M!LaunchFits
      <3>2. ASSUME source.is = "yaml"
            PROVE  /\ DOMAIN source.says \subseteq M!YamlKeys
                   /\ \A k \in DOMAIN source.says \cap {"storage", "secrets"} :
                         source.says[k] \in Seq(STRING)
        BY <2>6, <3>2 DEF M!FileFits, M!Absent, M!Broken
      <3>3. /\ M!Default.storage \in Seq(Texts) /\ M!Default.secrets \in Seq(Texts)
            /\ M!Default.dsn = << >>
        <4>1. M!LibDir \in Seq(Texts) /\ M!AppDir \in Seq(Texts) /\ <<"db">> \in Seq(Texts)
          BY DEF M!LibDir, M!AppDir, Texts
        <4> QED BY <4>1, TextsAre DEF M!Default
      <3>4. ASSUME NEW k \in {"storage", "secrets"}
            PROVE  Says(k, source, main.env) \in Seq(Texts)
        <4>1. main.env[k] \in Seq(Texts)
          BY <3>1, TextsAre DEF M!EnvKeys
        <4>2. source.is = "yaml" /\ k \in DOMAIN source.says => source.says[k] \in Seq(Texts)
          BY <3>2, TextsAre
        <4>3. M!Default[k] \in Seq(Texts)
          BY <3>3
        <4> QED BY <4>1, <4>2, <4>3 DEF Says
      <3>5. Says("dsn", source, main.env) = main.env.dsn
        BY <3>2, <3>3 DEF Says, M!EnvKeys, M!YamlKeys
      <3> QED BY <3>4, <3>5
    <2>11. M!IsSuffix(Strongest("storage"), main.cfg.storage) /\ M!IsAbs(main.cfg.storage)
      <3>1. M!LibDir \in Seq(Texts) /\ M!IsAbs(M!LibDir)
        BY DEF M!LibDir, M!IsAbs, Texts
      <3>2. main.cfg.storage = M!Under(M!LibDir, Strongest("storage"))
            /\ Strongest("storage") \in Seq(Texts)
        BY <2>5, <2>1, <2>7, <2>10 DEF ConfigKeys
      <3> QED BY <3>1, <3>2, UnderDirectory
    <2>12. M!IsSuffix(Strongest("secrets"), main.cfg.secrets) /\ M!IsAbs(main.cfg.secrets)
      <3>1. M!AppDir \in Seq(Texts) /\ M!IsAbs(M!AppDir)
        BY DEF M!AppDir, M!IsAbs, Texts
      <3>2. main.cfg.secrets = M!Under(M!AppDir, Strongest("secrets"))
            /\ Strongest("secrets") \in Seq(Texts)
        BY <2>5, <2>1, <2>7, <2>10 DEF ConfigKeys
      <3> QED BY <3>1, <3>2, UnderDirectory
    <2>13. main.cfg.dsn = main.env.dsn
      BY <2>5, <2>7, <2>10 DEF ConfigKeys
    <2>14. \A p \in DOMAIN main.cnfs : main.cnfs[p] \in Seq(M!CnfLine)
      BY <2>3 DEF M!LaunchFits
    <2> DEFINE r == M!ResolveAdminDSN(main.cfg, main.cnfs)
    <2>15. r.ok /\ main.dsn = r.dsn
      BY Zenon, <2>3 DEF Connected
    <2>16. IF main.cfg.dsn # << >> THEN r.dsn = main.cfg.dsn
           ELSE /\ r.dsn.user = M!CnfSays(cnf, "user") /\ r.dsn.user # << >>
                /\ r.dsn.password = M!CnfSays(cnf, "password")
                /\ M!IsSuffix(IF M!CnfSays(cnf, "socket") # << >>
                              THEN M!CnfSays(cnf, "socket")
                              ELSE M!CnfSays(cnf, "port"), r.dsn.via)
      BY Zenon, <2>14, <2>15, Credentials
    <2> HIDE DEF r, cnf
    <2> QED BY Zenon, <2>8, <2>9, <2>11, <2>12, <2>13, <2>15, <2>16
  <1> QED BY <1>1, MainInvariant, PTL

=============================================================================
