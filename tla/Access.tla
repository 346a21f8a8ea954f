------------------------------- MODULE Access -------------------------------
(***************************************************************************)
(* Bearer tokens: the server's requireAuth middleware and auth.Verifier on *)
(* one side, the commands "token create" and "token revoke", which run in  *)
(* processes of their own on the same SQLite file, on the other. One       *)
(* action is one SQL statement, or the audit entry with its line in the    *)
(* file. A token is named by its row's id, for its hash and raw form too.  *)
(***************************************************************************)
EXTENDS Naturals

CONSTANTS
    Tokens,     \* ids of the table tokens
    Unknown,    \* a bearer value without a row, or a malformed header
    Clients,    \* requests to the server
    Admins,     \* processes of the token command
    MaxTime,    \* bound: the clock stops there
    Failures    \* TRUE: any SQL statement may fail

ASSUME AccessAssumption ==
    /\ Unknown \notin Tokens
    /\ MaxTime \in Nat \ {0}
    /\ Failures \in BOOLEAN

VARIABLES
    token,   \* the table tokens, and what became of each token
    req,     \* requests in the middleware
    cmd,     \* token commands
    clock

vars == <<token, req, cmd, clock>>

Times == 0 .. MaxTime     \* 0: NULL

Token ==
    [stored  : BOOLEAN,   \* the row exists
     shown   : BOOLEAN,   \* its raw form was printed, clients may have it
     used    : Times,     \* last_used_at
     revoked : Times,     \* revoked_at
     told    : BOOLEAN]   \* history: a revoke command has reported success

Request ==
    [at   : {"idle", "lookup", "touch", "audit", "served", "denied"},
     tok  : Tokens \cup {Unknown},
     time : Times,        \* now() of the statement that is waiting
     pass : BOOLEAN,      \* Lookup has accepted the token
     late : BOOLEAN]      \* history: began after the revocation was reported

Command ==
    [at   : {"idle", "insert", "readback", "revoke", "done"},
     tok  : Tokens \cup {Unknown},
     time : Times,
     ok   : BOOLEAN]      \* exit status 0

TypeOK ==
    /\ token \in [Tokens -> Token]
    /\ req \in [Clients -> Request]
    /\ cmd \in [Admins -> Command]
    /\ clock \in Times \ {0}

NoToken == [stored |-> FALSE, shown |-> FALSE, used |-> 0, revoked |-> 0, told |-> FALSE]

\* A new request.
Fresh(l, t, late) == [at |-> l, tok |-> t, time |-> 0, pass |-> FALSE, late |-> late]
NoRequest == Fresh("idle", Unknown, FALSE)

NoCommand == [at |-> "idle", tok |-> Unknown, time |-> 0, ok |-> FALSE]

Init ==
    /\ token = [t \in Tokens |-> NoToken]
    /\ req = [p \in Clients |-> NoRequest]
    /\ cmd = [c \in Admins |-> NoCommand]
    /\ clock = 1

Tick == clock < MaxTime /\ clock' = clock + 1 /\ UNCHANGED <<token, req, cmd>>

----------------------------------------------------------------------------
(* A request                                                               *)

Continue(p, r) == req' = [req EXCEPT ![p] = r] /\ UNCHANGED <<cmd, clock>>

Step(p, l) == [req[p] EXCEPT !.at = l]

Begin(p) ==
    /\ req[p].at = "idle"
    /\ \E t \in {s \in Tokens : token[s].shown} :
          Continue(p, Fresh("lookup", t, token[t].told))
    /\ UNCHANGED token

\* No Bearer, no prefix, or a value that was never issued.
BeginUnknown(p) ==
    /\ req[p].at = "idle"
    /\ Continue(p, Fresh("audit", Unknown, FALSE))
    /\ UNCHANGED token

Accepted(p) == [Step(p, "touch") EXCEPT !.pass = TRUE, !.time = clock]

\* Variant: the row is enough.
LookupAnyRow(p) ==
    /\ req[p].at = "lookup"
    /\ \/ token[req[p].tok].stored /\ Continue(p, Accepted(p))
       \/ ~token[req[p].tok].stored /\ Continue(p, Step(p, "audit"))
       \/ Failures /\ Continue(p, Step(p, "audit"))
    /\ UNCHANGED token

\* Variant: the use is noted before the revocation is looked at.
LookupTouching(p) ==
    /\ req[p].at = "lookup"
    /\ \/ /\ token[req[p].tok].stored
          /\ token' = [token EXCEPT ![req[p].tok].used = clock]
          /\ Continue(p, IF token[req[p].tok].revoked = 0 THEN Accepted(p)
                                                         ELSE Step(p, "audit"))
       \/ Failures /\ Continue(p, Step(p, "audit")) /\ UNCHANGED token

(* GetTokenByHash and the checks on its row. An error of the store denies   *)
(* the request as well. now() of TouchToken is taken before its statement. *)
Lookup(p) ==
    /\ req[p].at = "lookup"
    /\ \/ /\ token[req[p].tok].stored /\ token[req[p].tok].revoked = 0
          /\ Continue(p, Accepted(p))
       \/ ~token[req[p].tok].stored /\ Continue(p, Step(p, "audit"))
       \/ token[req[p].tok].revoked # 0 /\ Continue(p, Step(p, "audit"))
       \/ Failures /\ Continue(p, Step(p, "audit"))
    /\ UNCHANGED token

\* An error is ignored, with or without the statement's effect.
TouchToken(p) ==
    /\ req[p].at = "touch"
    /\ \/ token' = [token EXCEPT ![req[p].tok].used = req[p].time]
       \/ Failures /\ UNCHANGED token
    /\ Continue(p, Step(p, "audit"))

\* The audit entry and its copy in the file; an error of either is ignored.
AuditAuth(p) ==
    /\ req[p].at = "audit"
    /\ Continue(p, Step(p, IF req[p].pass THEN "served" ELSE "denied"))
    /\ UNCHANGED token

\* The handler has run, or 401 was sent.
End(p) ==
    /\ req[p].at \in {"served", "denied"}
    /\ Continue(p, NoRequest)
    /\ UNCHANGED token

----------------------------------------------------------------------------
(* The token command                                                       *)

Proceed(c, r) == cmd' = [cmd EXCEPT ![c] = r] /\ UNCHANGED <<req, clock>>

Exit(c, ok) == [cmd[c] EXCEPT !.at = "done", !.ok = ok]

TokenCreate(c) ==
    /\ cmd[c].at = "idle"
    /\ Proceed(c, [NoCommand EXCEPT !.at = "insert", !.time = clock])
    /\ UNCHANGED token

\* The id is the next one; an INSERT that fails late may have stored the row.
InsertToken(c) ==
    /\ cmd[c].at = "insert"
    /\ \/ \E t \in Tokens :
             /\ ~token[t].stored
             /\ token' = [token EXCEPT ![t].stored = TRUE]
             /\ \/ Proceed(c, [cmd[c] EXCEPT !.at = "readback", !.tok = t])
                \/ Failures /\ Proceed(c, Exit(c, FALSE))
       \/ Failures /\ Proceed(c, Exit(c, FALSE)) /\ UNCHANGED token

\* The raw token is printed only if the row is read back.
ReadBack(c) ==
    /\ cmd[c].at = "readback"
    /\ \/ /\ token' = [token EXCEPT ![cmd[c].tok].shown = TRUE]
          /\ Proceed(c, Exit(c, TRUE))
       \/ Failures /\ Proceed(c, Exit(c, FALSE)) /\ UNCHANGED token

\* Any id may be given. now() is taken before the statement.
TokenRevoke(c) ==
    /\ cmd[c].at = "idle"
    /\ \E t \in Tokens :
          Proceed(c, [NoCommand EXCEPT !.at = "revoke", !.tok = t, !.time = clock])
    /\ UNCHANGED token

(* UPDATE ... SET revoked_at = COALESCE(revoked_at, ?) WHERE id = ?, which  *)
(* is no error if there is no such row.                                    *)
Revoke(c) ==
    /\ cmd[c].at = "revoke"
    /\ LET t == cmd[c].tok
           first == IF token[t].revoked = 0 THEN cmd[c].time ELSE token[t].revoked
       IN  \/ /\ token' = [token EXCEPT ![t] =
                    IF @.stored THEN [@ EXCEPT !.revoked = first, !.told = TRUE] ELSE @]
              /\ Proceed(c, Exit(c, TRUE))
           \/ /\ Failures
              /\ \/ UNCHANGED token
                 \/ /\ token[t].stored
                    /\ token' = [token EXCEPT ![t].revoked = first]
              /\ Proceed(c, Exit(c, FALSE))

Finish(c) ==
    /\ cmd[c].at = "done"
    /\ Proceed(c, NoCommand)
    /\ UNCHANGED token

Next ==
    \/ Tick
    \/ \E p \in Clients :
          \/ Begin(p) \/ BeginUnknown(p) \/ Lookup(p) \/ TouchToken(p)
          \/ AuditAuth(p) \/ End(p)
    \/ \E c \in Admins :
          \/ TokenCreate(c) \/ InsertToken(c) \/ ReadBack(c)
          \/ TokenRevoke(c) \/ Revoke(c) \/ Finish(c)

Spec == Init /\ [][Next]_vars

----------------------------------------------------------------------------
(* Properties                                                              *)

(* From the moment a revoke command has reported success in its own        *)
(* process, no request that begins with the token is served by the server, *)
(* which keeps nothing of a token between requests (auth.go:47-56).        *)
RevokedIsDenied == \A p \in Clients : req[p].at = "served" => ~req[p].late

(* last_used_at moves only for a request that is let in: a token that was  *)
(* reported as revoked is not shown as used because of requests that are   *)
(* denied (auth.go:54-62).                                                 *)
DeniedLeavesNoUse ==
    [][\A t \in Tokens : token'[t].used # token[t].used =>
          \E p \in Clients : /\ req[p].tok = t /\ req[p].pass /\ ~req[p].late
                             /\ req[p].at = "touch"]_vars

----------------------------------------------------------------------------
(* The inductive invariant                                                 *)

\* A reported revocation is in the table.
ToldInv == \A t \in Tokens : token[t].told => token[t].revoked # 0

\* A request that began after it has not passed and cannot pass any more.
RequestInv == \A p \in Clients :
    /\ req[p].late => req[p].tok \in Tokens /\ token[req[p].tok].told /\ ~req[p].pass
    /\ req[p].at \in {"lookup", "touch"} => req[p].tok \in Tokens
    /\ req[p].at \in {"touch", "served"} => req[p].pass

CommandInv == \A c \in Admins :
    /\ cmd[c].at \in {"insert", "readback", "revoke"} => cmd[c].time # 0
    /\ cmd[c].at \in {"readback", "revoke"} => cmd[c].tok \in Tokens

(* A revocation that was reported is stored and stays stored, and Lookup   *)
(* looks at the row once per request.                                      *)
IInv == TypeOK /\ ToldInv /\ RequestInv /\ CommandInv
=============================================================================
