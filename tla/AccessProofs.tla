---------------------------- MODULE AccessProofs ----------------------------
(***************************************************************************)
(* The properties of Access, for any number of tokens, requests and token  *)
(* commands, with and without failing statements.                          *)
(***************************************************************************)
EXTENDS Access, TLAPS

USE AccessAssumption

LEMMA InvInit == Init => IInv
  BY DEF Init, IInv, TypeOK, ToldInv, RequestInv, CommandInv, NoToken, NoRequest, Fresh,
         NoCommand, Token, Request, Command, Times

(* What a request may do to the invariant: its own record has to keep its  *)
(* part, and the table at most gets new times of last use.                 *)
RequestOK(r) ==
    /\ r \in Request
    /\ r.late => r.tok \in Tokens /\ token[r.tok].told /\ ~r.pass
    /\ r.at \in {"lookup", "touch"} => r.tok \in Tokens
    /\ r.at \in {"touch", "served"} => r.pass

LEMMA RequestFrame ==
    ASSUME IInv, NEW p \in Clients, NEW r, RequestOK(r), Continue(p, r),
           token' \in [Tokens -> Token],
           \A t \in Tokens : /\ token'[t].told = token[t].told
                             /\ token'[t].revoked = token[t].revoked
    PROVE  IInv'
  <1> USE DEF IInv, RequestOK, Continue
  <1>1. TypeOK'
    BY DEF TypeOK
  <1>2. ToldInv'
    BY DEF ToldInv
  <1>3. RequestInv'
    BY DEF TypeOK, RequestInv
  <1>4. CommandInv'
    BY DEF CommandInv
  <1> QED
    BY <1>1, <1>2, <1>3, <1>4

(* Every action of a request is such a step: Lookup, which accepts only a  *)
(* row without a revocation, and so not one whose revocation was reported. *)
LEMMA RequestStep ==
    ASSUME IInv, NEW p \in Clients,
           \/ Begin(p) \/ BeginUnknown(p) \/ Lookup(p) \/ TouchToken(p)
           \/ AuditAuth(p) \/ End(p)
    PROVE  IInv'
  <1>1. /\ RequestOK(req[p]) /\ token \in [Tokens -> Token] /\ clock \in Times
        /\ \A t \in Tokens : token[t].told => token[t].revoked # 0
    BY DEF IInv, TypeOK, RequestInv, ToldInv, RequestOK
  <1>2. CASE Begin(p)
    <2>1. PICK t \in Tokens : Continue(p, Fresh("lookup", t, token[t].told))
      BY <1>2 DEF Begin
    <2>2. token[t].told \in BOOLEAN
      BY <1>1 DEF Token
    <2>3. RequestOK(Fresh("lookup", t, token[t].told))
      BY <2>2 DEF RequestOK, Fresh, Request, Times
    <2> QED
      BY <1>1, <1>2, <2>1, <2>3, RequestFrame DEF Begin
  <1>3. CASE BeginUnknown(p)
    <2>1. RequestOK(Fresh("audit", Unknown, FALSE))
      BY DEF RequestOK, Fresh, Request, Times
    <2> QED
      BY <1>1, <1>3, <2>1, RequestFrame DEF BeginUnknown
  <1>4. CASE Lookup(p)
    <2>1. RequestOK(Step(p, "audit"))
      BY <1>1, <1>4 DEF Lookup, RequestOK, Step, Request
    <2>2. ASSUME token[req[p].tok].revoked = 0 PROVE RequestOK(Accepted(p))
      BY <1>1, <1>4, <2>2 DEF Lookup, RequestOK, Accepted, Step, Request, Token
    <2> QED
      BY <1>1, <1>4, <2>1, <2>2, RequestFrame DEF Lookup
  <1>5. CASE TouchToken(p)
    <2>1. RequestOK(Step(p, "audit"))
      BY <1>1, <1>5 DEF TouchToken, RequestOK, Step, Request
    <2>2. token' \in [Tokens -> Token]
      BY <1>1, <1>5 DEF TouchToken, RequestOK, Request, Token
    <2>3. \A t \in Tokens : /\ token'[t].told = token[t].told
                            /\ token'[t].revoked = token[t].revoked
      BY <1>1, <1>5 DEF TouchToken, Token
    <2> QED
      BY <1>5, <2>1, <2>2, <2>3, RequestFrame DEF TouchToken
  <1>6. CASE AuditAuth(p)
    <2> DEFINE r == Step(p, IF req[p].pass THEN "served" ELSE "denied")
    <2>1. RequestOK(r)
      BY <1>1, <1>6 DEF AuditAuth, RequestOK, Step, Request
    <2> QED
      BY <1>1, <1>6, <2>1, RequestFrame DEF AuditAuth
  <1>7. CASE End(p)
    <2>1. RequestOK(NoRequest)
      BY DEF RequestOK, NoRequest, Fresh, Request, Times
    <2> QED
      BY <1>1, <1>7, <2>1, RequestFrame DEF End
  <1> QED
    BY <1>2, <1>3, <1>4, <1>5, <1>6, <1>7

(* What a command may do to it: reports and revocations only come.         *)
CommandOK(r) ==
    /\ r \in Command
    /\ r.at \in {"insert", "readback", "revoke"} => r.time # 0
    /\ r.at \in {"readback", "revoke"} => r.tok \in Tokens

LEMMA CommandFrame ==
    ASSUME IInv, NEW c \in Admins, NEW r, CommandOK(r), Proceed(c, r),
           token' \in [Tokens -> Token],
           \A t \in Tokens : /\ token[t].told => token'[t].told
                             /\ token'[t].told => token'[t].revoked # 0
    PROVE  IInv'
  <1> USE DEF IInv, CommandOK, Proceed
  <1>1. TypeOK'
    BY DEF TypeOK
  <1>2. ToldInv'
    BY DEF ToldInv
  <1>3. RequestInv'
    BY DEF RequestInv
  <1>4. CommandInv'
    BY DEF TypeOK, CommandInv
  <1> QED
    BY <1>1, <1>2, <1>3, <1>4

(* Every action of a command is such a step: COALESCE keeps a revocation,  *)
(* and success is reported with a revocation if there is a row.            *)
LEMMA CommandStep ==
    ASSUME IInv, NEW c \in Admins,
           \/ TokenCreate(c) \/ InsertToken(c) \/ ReadBack(c)
           \/ TokenRevoke(c) \/ Revoke(c) \/ Finish(c)
    PROVE  IInv'
  <1>1. /\ CommandOK(cmd[c]) /\ token \in [Tokens -> Token] /\ clock \in Times \ {0}
        /\ \A t \in Tokens : token[t].told => token[t].revoked # 0
    BY DEF IInv, TypeOK, CommandInv, ToldInv, CommandOK
  <1>2. CommandOK(Exit(c, TRUE)) /\ CommandOK(Exit(c, FALSE))
    BY <1>1 DEF CommandOK, Exit, Command
  <1>3. CASE TokenCreate(c)
    <2>1. CommandOK([NoCommand EXCEPT !.at = "insert", !.time = clock])
      BY <1>1 DEF CommandOK, NoCommand, Command
    <2> QED
      BY <1>1, <1>3, <2>1, CommandFrame DEF TokenCreate
  <1>4. CASE InsertToken(c)
    <2>1. CASE Proceed(c, Exit(c, FALSE)) /\ UNCHANGED token
      BY <1>1, <1>2, <2>1, CommandFrame
    <2>2. ASSUME NEW t \in Tokens,
                 token' = [token EXCEPT ![t].stored = TRUE],
                 \/ Proceed(c, [cmd[c] EXCEPT !.at = "readback", !.tok = t])
                 \/ Proceed(c, Exit(c, FALSE))
          PROVE  IInv'
      <3>1. token' \in [Tokens -> Token]
        BY <1>1, <2>2 DEF Token
      <3>2. \A s \in Tokens : /\ token'[s].told = token[s].told
                              /\ token'[s].revoked = token[s].revoked
        BY <1>1, <2>2 DEF Token
      <3>3. CommandOK([cmd[c] EXCEPT !.at = "readback", !.tok = t])
        BY <1>1, <1>4 DEF InsertToken, CommandOK, Command
      <3> QED
        BY <1>1, <1>2, <2>2, <3>1, <3>2, <3>3, CommandFrame
    <2> QED
      BY <1>4, <2>1, <2>2 DEF InsertToken
  <1>5. CASE ReadBack(c)
    <2>1. CASE UNCHANGED token
      BY <1>1, <1>2, <1>5, <2>1, CommandFrame DEF ReadBack
    <2>2. CASE token' = [token EXCEPT ![cmd[c].tok].shown = TRUE]
      <3>1. token' \in [Tokens -> Token]
        BY <1>1, <2>2 DEF Token
      <3>2. \A s \in Tokens : /\ token'[s].told = token[s].told
                              /\ token'[s].revoked = token[s].revoked
        BY <1>1, <2>2 DEF Token
      <3> QED
        BY <1>1, <1>2, <1>5, <3>1, <3>2, CommandFrame DEF ReadBack
    <2> QED
      BY <1>5, <2>1, <2>2 DEF ReadBack
  <1>6. CASE TokenRevoke(c)
    <2>1. PICK t \in Tokens : Proceed(c, [NoCommand EXCEPT
                               !.at = "revoke", !.tok = t, !.time = clock])
      BY <1>6 DEF TokenRevoke
    <2>2. CommandOK([NoCommand EXCEPT !.at = "revoke", !.tok = t, !.time = clock])
      BY <1>1 DEF CommandOK, NoCommand, Command
    <2> QED
      BY <1>1, <1>6, <2>1, <2>2, CommandFrame DEF TokenRevoke
  <1>7. CASE Revoke(c)
    <2> DEFINE t == cmd[c].tok
               first == IF token[t].revoked = 0 THEN cmd[c].time ELSE token[t].revoked
    <2>1. t \in Tokens /\ first \in Times /\ first # 0
      BY <1>1, <1>7 DEF Revoke, CommandOK, Command, Token
    <2>2. Proceed(c, Exit(c, TRUE)) \/ Proceed(c, Exit(c, FALSE))
      BY <1>7 DEF Revoke
    <2>3. CASE UNCHANGED token
      BY <1>1, <1>2, <2>2, <2>3, CommandFrame
    <2>4. CASE token' = [token EXCEPT ![t] =
                           IF @.stored THEN [@ EXCEPT !.revoked = first, !.told = TRUE]
                                       ELSE @]
      <3>1. token' \in [Tokens -> Token]
        BY <1>1, <2>1, <2>4 DEF Token
      <3>2. \A s \in Tokens : /\ token[s].told => token'[s].told
                              /\ token'[s].told => token'[s].revoked # 0
        BY <1>1, <2>1, <2>4 DEF Token
      <3> QED
        BY <1>2, <2>2, <3>1, <3>2, CommandFrame
    <2>5. CASE token' = [token EXCEPT ![t].revoked = first]
      <3>1. token' \in [Tokens -> Token]
        BY <1>1, <2>1, <2>5 DEF Token
      <3>2. \A s \in Tokens : /\ token[s].told => token'[s].told
                              /\ token'[s].told => token'[s].revoked # 0
        BY <1>1, <2>1, <2>5 DEF Token
      <3> QED
        BY <1>2, <2>2, <3>1, <3>2, CommandFrame
    <2> QED
      BY <1>7, <2>3, <2>4, <2>5 DEF Revoke
  <1>8. CASE Finish(c)
    <2>1. CommandOK(NoCommand)
      BY DEF CommandOK, NoCommand, Command, Times
    <2> QED
      BY <1>1, <1>8, <2>1, CommandFrame DEF Finish
  <1> QED
    BY <1>3, <1>4, <1>5, <1>6, <1>7, <1>8

LEMMA InvStep == IInv /\ [Next]_vars => IInv'
  <1> SUFFICES ASSUME IInv, [Next]_vars PROVE IInv'
    OBVIOUS
  <1>1. CASE Tick
    BY <1>1 DEF Tick, IInv, TypeOK, ToldInv, RequestInv, CommandInv, Times
  <1>2. CASE UNCHANGED vars
    BY <1>2 DEF vars, IInv, TypeOK, ToldInv, RequestInv, CommandInv
  <1> QED
    BY <1>1, <1>2, RequestStep, CommandStep DEF Next

(* Every reachable state is one in which a reported revocation is stored   *)
(* and no request that began after it has been accepted.                   *)
THEOREM AccessInvariant == Spec => []IInv
  BY InvInit, InvStep, PTL DEF Spec

(* A request with a revoked token is denied if it begins after the revoke  *)
(* command has reported success (auth.go:47-56).                           *)
THEOREM RevokedDenied == Spec => []RevokedIsDenied
  <1>1. IInv => RevokedIsDenied
    BY DEF IInv, RequestInv, RevokedIsDenied
  <1> QED
    BY <1>1, AccessInvariant, PTL

(* last_used_at is moved by the TouchToken of a request that was accepted,  *)
(* and by nothing else (auth.go:54-62).                                    *)
THEOREM UsedByAccepted == Spec => DeniedLeavesNoUse
  <1> DEFINE Noted == \A t \in Tokens : token'[t].used # token[t].used =>
                         \E p \in Clients : /\ req[p].tok = t /\ req[p].pass /\ ~req[p].late
                                            /\ req[p].at = "touch"
             Unused == \A t \in Tokens : token'[t].used = token[t].used
  <1>1. IInv /\ [Next]_vars => [Noted]_vars
    <2> SUFFICES ASSUME IInv, Next PROVE Noted
      OBVIOUS
    <2> USE DEF IInv, TypeOK, Token
    <2>1. ASSUME NEW p \in Clients, TouchToken(p) PROVE Noted
      <3>1. /\ req[p].at = "touch" /\ req[p].pass /\ ~req[p].late
            /\ req[p].tok \in Tokens
        BY <2>1 DEF TouchToken, RequestInv
      <3>2. \A t \in Tokens : t # req[p].tok => token'[t].used = token[t].used
        BY <2>1 DEF TouchToken
      <3> QED
        BY <3>1, <3>2
    <2>2. ASSUME NEW p \in Clients,
                 Begin(p) \/ BeginUnknown(p) \/ Lookup(p) \/ AuditAuth(p) \/ End(p)
          PROVE  Unused
      BY <2>2 DEF Begin, BeginUnknown, Lookup, AuditAuth, End
    <2>3. ASSUME NEW c \in Admins, InsertToken(c) PROVE Unused
      <3>1. ASSUME NEW t \in Tokens, token' = [token EXCEPT ![t].stored = TRUE]
            PROVE  Unused
        BY <3>1
      <3> QED
        BY <2>3, <3>1 DEF InsertToken
    <2>4. ASSUME NEW c \in Admins, ReadBack(c) PROVE Unused
      <3>1. CASE token' = [token EXCEPT ![cmd[c].tok].shown = TRUE]
        BY <3>1
      <3> QED
        BY <2>4, <3>1 DEF ReadBack
    <2>5. ASSUME NEW c \in Admins, Revoke(c) PROVE Unused
      <3> DEFINE u == cmd[c].tok
                 first == IF token[u].revoked = 0 THEN cmd[c].time ELSE token[u].revoked
      <3>1. CASE token' = [token EXCEPT ![u] =
                   IF @.stored THEN [@ EXCEPT !.revoked = first, !.told = TRUE] ELSE @]
        BY <3>1
      <3>2. CASE token' = [token EXCEPT ![u].revoked = first]
        BY <3>2
      <3> QED
        BY <2>5, <3>1, <3>2 DEF Revoke
    <2>6. ASSUME NEW c \in Admins, TokenCreate(c) \/ TokenRevoke(c) \/ Finish(c)
          PROVE  Unused
      BY <2>6 DEF TokenCreate, TokenRevoke, Finish
    <2>7. CASE Tick
      BY <2>7 DEF Tick
    <2> QED
      BY <2>1, <2>2, <2>3, <2>4, <2>5, <2>6, <2>7 DEF Next
  <1> QED
    BY <1>1, AccessInvariant, PTL DEF Spec, DeniedLeavesNoUse
=============================================================================
