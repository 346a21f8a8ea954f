-------------------------------- MODULE Calls --------------------------------
(***************************************************************************)
(* One client of the HTTP API that makes one call after the other, as dbi  *)
(* and the MCP server do, and the server as its clients see it: what a     *)
(* call does to the projects, which class of answer comes back, and calls  *)
(* whose client has given up while the server still works on them.         *)
(***************************************************************************)
EXTENDS FiniteSets, Naturals, Sequences

CONSTANTS
    Names,      \* valid project names
    Typed,      \* what users and agents give as a name, Names among it
    None,       \* no name: what names no project, or nothing given
    Page,       \* a path that serves any GET: the list of projects, /health
    Trimmed,    \* Trimmed[t]: the project that t names in the body of a create
    PathOf,     \* PathOf[op][t]: where the path leads that the client makes of t
    MaxLate     \* bound: calls in the server that their client has left

(* The clients put a name into the path as it is typed. What is left of a  *)
(* name after "?", blanks and escapes is up to the server's URL package; a *)
(* path that is not clean ("//", "/./", "/../") is redirected.             *)
PathOps == {"status", "rotate", "delete"}
Target  == [to : Names \cup {None, Page}, clean : BOOLEAN]

ASSUME CallsAssumption ==
    /\ None \notin Names /\ Page \notin Names \cup {None} /\ Names \subseteq Typed
    /\ Trimmed \in [Typed -> Names \cup {None}]
    /\ PathOf \in [PathOps -> [Typed -> Target]]
    /\ \A n \in Names : /\ Trimmed[n] = n
                        /\ \A op \in PathOps : PathOf[op][n] = [to |-> n, clean |-> TRUE]
    /\ \A op \in PathOps, t \in Typed : PathOf[op][t].clean => PathOf[op][t].to # Page
    /\ MaxLate \in Nat

VARIABLES
    project,    \* project[n]: "none", "ready", or "failed" (pending or error)
    call,       \* the client's call
    late        \* what the server still does for calls that were given up

callVars == <<project, call, late>>

Ops     == {"list", "status", "create", "rotate", "delete"}

\* The answers by their status: < 400, 4xx and 5xx; "lost": none came back.
Answers == {"ok", "refused", "failed", "lost"}

\* What a request is about: create has its name in the body.
About(op, t) ==
    IF op = "list" \/ t = None THEN None
    ELSE IF op = "create" THEN Trimmed[t]
    ELSE PathOf[op][t].to

Call == [at      : {"none", "sent", "answered", "returned"},
         op      : Ops,
         typed   : Typed \cup {None},
         confirm : Typed \cup {None},
         answer  : Answers,
         cut     : BOOLEAN,   \* only a part of the answer's body arrived
         done    : BOOLEAN]   \* history: the server has carried out op

NoCall == [at |-> "none", op |-> "list", typed |-> None, confirm |-> None,
           answer |-> "lost", cut |-> FALSE, done |-> FALSE]

CallsTypeOK ==
    /\ project \in [Names -> {"none", "ready", "failed"}]
    /\ call \in Call
    /\ late \subseteq Call /\ Cardinality(late) <= MaxLate

CallsInit ==
    /\ project = [n \in Names |-> "none"]
    /\ call = NoCall
    /\ late = {}

Send(op, t, confirm) ==
    call' = [NoCall EXCEPT !.at = "sent", !.op = op, !.typed = t, !.confirm = confirm]

----------------------------------------------------------------------------
(* The server                                                              *)

\* The mux answers 301, whatever the method, before it looks at the token.
Redirected(c) == c.op \in PathOps /\ c.typed # None /\ ~PathOf[c.op][c.typed].clean

\* Which handler runs: the client follows a 301 with a GET that has no body.
HandledAs(c) == IF Redirected(c) THEN "status" ELSE c.op

(* What a call c may come to: the answer, and the status of its project    *)
(* afterwards. A step that fails leaves a project failed, or as it was, or *)
(* (Delete, which goes on) gone. Any token may be refused. Delete compares *)
(* the confirmation with the name of the project, not with what was typed. *)
Outcomes(c) ==
    LET n == About(c.op, c.typed)
        s == IF n \in Names THEN project[n] ELSE "none"
    IN  {<<"refused", s>>, <<"failed", s>>} \cup
        (CASE HandledAs(c) = "list" -> {<<"ok", s>>}
           [] HandledAs(c) = "status" -> IF s = "none" /\ n # Page THEN {} ELSE {<<"ok", s>>}
           [] HandledAs(c) = "create" ->
                IF n = None \/ s = "failed" THEN {}
                ELSE IF s = "ready" THEN {<<"ok", s>>}
                ELSE {<<"ok", "ready">>, <<"failed", "failed">>}
           [] HandledAs(c) = "rotate" -> IF s = "none" THEN {} ELSE {<<"ok", s>>}
           [] HandledAs(c) = "delete" ->
                IF s = "none" \/ c.confirm # n THEN {}
                ELSE {<<"ok", "none">>, <<"failed", "none">>})

SetProject(c, s) ==
    LET n == About(c.op, c.typed)
    IN  project' = IF n \in Names THEN [project EXCEPT ![n] = s] ELSE project

\* The handler of op has answered that it is done, not another one in its place.
IsDone(c, answer) == answer = "ok" /\ HandledAs(c) = c.op /\ About(c.op, c.typed) # Page

\* The handler runs to its answer.
Execute ==
    /\ call.at = "sent"
    /\ \E o \in Outcomes(call) :
          /\ SetProject(call, o[2])
          /\ call' = [call EXCEPT !.at = "answered", !.answer = o[1],
                                  !.done = IsDone(call, o[1])]
    /\ UNCHANGED late

\* The same for a call that nobody waits for, which may also be cut short.
ExecuteLate ==
    /\ \E c \in late :
          /\ late' = late \ {c}
          /\ \/ \E o \in Outcomes(c) : SetProject(c, o[2])
             \/ UNCHANGED project
    /\ UNCHANGED call

----------------------------------------------------------------------------
(* The client                                                              *)

\* Variant: a 4xx is taken for an answer like any other.
ReceiveUnless5xx ==
    /\ call.at = "answered"
    /\ \E cut \in BOOLEAN :
          call' = [call EXCEPT !.at = "returned", !.cut = cut,
                               !.answer = IF @ = "refused" THEN "ok" ELSE @]
    /\ UNCHANGED <<project, late>>

(* The status decides. The error of ReadAll is dropped, so that a body that *)
(* breaks off, the timeout included, is taken as it is.                    *)
Receive ==
    /\ call.at = "answered"
    /\ \E cut \in BOOLEAN : call' = [call EXCEPT !.at = "returned", !.cut = cut]
    /\ UNCHANGED <<project, late>>

\* Variant: a client without a timeout waits as long as the server takes.
GiveUpNever == FALSE /\ UNCHANGED callVars

(* The timeout of 30 s, a refused or broken connection, a server that is    *)
(* stopped: with the request on its way, in the server, or answered. A name *)
(* that makes no URL ends the call before anything is sent.                *)
GiveUp ==
    /\ \/ call.at = "sent" /\ late' = late \cup {call} /\ Cardinality(late') <= MaxLate
       \/ call.at \in {"sent", "answered"} /\ UNCHANGED late
    /\ call' = [call EXCEPT !.at = "returned", !.answer = "lost"]
    /\ UNCHANGED project

CallStep == Execute \/ ExecuteLate \/ Receive \/ GiveUp
=============================================================================
