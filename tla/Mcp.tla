--------------------------------- MODULE Mcp ---------------------------------
(***************************************************************************)
(* cmd/mcp: the JSON-RPC server on stdin and stdout, between an agent that *)
(* writes messages whenever it likes and the HTTP API. Messages are read,  *)
(* handled and answered one at a time; the pipes keep their order.         *)
(***************************************************************************)
EXTENDS Calls, SequencesExt

CONSTANTS
    Asked,      \* the messages an agent may write, without their ids
    Token,      \* DB_ISOLATION_TOKEN or -token is given
    MaxMsgs     \* bound: messages of the agent

(* What tools/call asks for: the operation of a tool, params or arguments   *)
(* that do not decode, or a tool that does not exist.                      *)
ToolAsks == Ops \cup {"bad params", "bad arguments", "unknown"}
Methods  == {"initialize", "notifications/initialized", "tools/list", "tools/call",
             "ping", "unknown"}
Message  == [request : BOOLEAN,     \* it has an id, the agent waits for an answer
             method  : Methods \cup {"broken"},   \* broken: not JSON
             tool    : ToolAsks,
             typed   : Typed \cup {None},
             confirm : Typed \cup {None}]

\* A notification has no id: that is up to the agent (JSON-RPC 2.0, section 4.1).
ASSUME McpAssumption ==
    /\ Asked \subseteq Message /\ Token \in BOOLEAN /\ MaxMsgs \in Nat
    /\ \A m \in Asked : m.method = "notifications/initialized" => ~m.request

VARIABLES
    sent,       \* what the agent has written to stdin
    read,       \* how much of it has been decoded
    busy,       \* the last message decoded is being handled
    out,        \* the responses on stdout
    agent,      \* "open", "closed" (stdin) or "gone" (stdin and stdout)
    mcpExit     \* "none" while the server runs, or its exit code

ownVars == <<sent, read, busy, out, agent, mcpExit>>
mcpVars == <<callVars, ownVars>>

Response == [id   : 0 .. MaxMsgs,    \* the position of the request, 0: no id 
             kind : {"result", "toolError", "error"}]

McpTypeOK ==
    /\ CallsTypeOK
    /\ sent \in Seq(Asked) /\ Len(sent) <= MaxMsgs
    /\ read \in 0 .. Len(sent) /\ busy \in BOOLEAN
    /\ out \in Seq(Response)
    /\ agent \in {"open", "closed", "gone"} /\ mcpExit \in {"none", "0", "1"}

McpInit ==
    /\ CallsInit
    /\ sent = << >> /\ read = 0 /\ busy = FALSE /\ out = << >>
    /\ agent = "open" /\ mcpExit = "none"

----------------------------------------------------------------------------
(* The agent                                                               *)

Ask ==
    /\ agent = "open" /\ Len(sent) < MaxMsgs
    /\ \E m \in Asked : sent' = Append(sent, m)
    /\ UNCHANGED <<callVars, read, busy, out, agent, mcpExit>>

Disconnect ==
    /\ agent # "gone" /\ agent' \in {"closed", "gone"} \ {agent}
    /\ UNCHANGED <<callVars, sent, read, busy, out, mcpExit>>

----------------------------------------------------------------------------
(* run                                                                     *)

Req  == sent[read]
IdOf == IF Req.request THEN read ELSE 0

Ready == mcpExit = "none" /\ ~busy

\* Variant: whatever the decoder returns ends the loop in good order.
DecodeQuietly ==
    /\ Ready /\ read < Len(sent)
    /\ read' = read + 1
    /\ IF sent[read + 1].method = "broken" THEN mcpExit' = "0" /\ UNCHANGED busy
                                 ELSE busy' = TRUE /\ UNCHANGED mcpExit
    /\ UNCHANGED <<callVars, sent, out, agent>>

Decode ==
    /\ Ready /\ read < Len(sent)
    /\ read' = read + 1
    /\ IF sent[read + 1].method = "broken" THEN mcpExit' = "1" /\ UNCHANGED busy
                                 ELSE busy' = TRUE /\ UNCHANGED mcpExit
    /\ UNCHANGED <<callVars, sent, out, agent>>

\* io.EOF after the last message.
EndOfInput ==
    /\ Ready /\ read = Len(sent) /\ agent # "open"
    /\ mcpExit' = "0"
    /\ UNCHANGED <<callVars, sent, read, busy, out, agent>>

\* Encode, which fails (or ends the process by SIGPIPE) once the agent reads no more.
Respond(kind) ==
    /\ busy' = FALSE
    /\ IF agent = "gone" THEN mcpExit' = "1" /\ UNCHANGED out
       ELSE out' = Append(out, [id |-> IdOf, kind |-> kind]) /\ UNCHANGED mcpExit
    /\ UNCHANGED <<sent, read, agent>>

----------------------------------------------------------------------------
(* handle, callTool and do                                                 *)

IsCall == Req.method = "tools/call"

\* callTool ends before do. list needs no name.
Rejected ==
    \/ ~Token
    \/ Req.tool \in {"bad arguments", "unknown"}
    \/ Req.tool \in Ops \ {"list"} /\ Req.typed = None
    \/ Req.tool = "delete" /\ Req.confirm = None

\* The kind of the response if handle needs no call to answer.
LocalKind ==
    IF IsCall THEN IF Req.tool = "bad params" THEN "error" ELSE "toolError"
    ELSE IF Req.method = "unknown" THEN "error" ELSE "result"

NeedsCall == IsCall /\ Req.tool # "bad params" /\ ~Rejected

\* Variant: params that do not decode are skipped like a notification.
HandleSilently ==
    /\ mcpExit = "none" /\ busy /\ ~NeedsCall
    /\ IF Req.method = "notifications/initialized" \/ LocalKind = "error"
       THEN busy' = FALSE /\ UNCHANGED <<sent, read, out, agent, mcpExit>>
       ELSE Respond(LocalKind)
    /\ UNCHANGED callVars

\* The one message that handle knows for a notification has no answer.
Handle ==
    /\ mcpExit = "none" /\ busy /\ ~NeedsCall
    /\ IF Req.method = "notifications/initialized"
       THEN busy' = FALSE /\ UNCHANGED <<sent, read, out, agent, mcpExit>>
       ELSE Respond(LocalKind)
    /\ UNCHANGED callVars

CallTool ==
    /\ mcpExit = "none" /\ busy /\ NeedsCall /\ call.at = "none"
    /\ Send(Req.tool, IF Req.tool = "list" THEN None ELSE Req.typed,
            IF Req.tool = "delete" THEN Req.confirm ELSE None)
    /\ UNCHANGED <<project, late, ownVars>>

\* A part of a body is a result as good as the whole.
Answer ==
    /\ call.at = "returned"
    /\ Respond(IF call.answer = "ok" THEN "result" ELSE "toolError")
    /\ call' = NoCall
    /\ UNCHANGED <<project, late>>

McpNext ==
    \/ Ask \/ Disconnect \/ Decode \/ EndOfInput \/ Handle \/ CallTool \/ Answer
    \/ CallStep /\ UNCHANGED ownVars

McpSpec == McpInit /\ [][McpNext]_mcpVars

(* The process is scheduled and its HTTP client has a timeout. Of the HTTP  *)
(* server nothing is assumed; of the agent, that it goes on reading stdout  *)
(* until it closes it: a response that nobody reads would fill the pipe and *)
(* block Encode. It need neither write anything nor ever disconnect.       *)
McpFairSpec ==
    /\ McpSpec
    /\ WF_mcpVars(Decode) /\ WF_mcpVars(Handle) /\ WF_mcpVars(CallTool) /\ WF_mcpVars(Answer)
    /\ WF_mcpVars(GiveUp /\ UNCHANGED ownVars)

----------------------------------------------------------------------------
(* Properties                                                              *)

Waiting  == {k \in DOMAIN sent : sent[k].request}

\* The requests that the first n responses answer.
ByFirst(n) == {out[i].id : i \in 1 .. n} \ {0}
Answered   == ByFirst(Len(out))

(* Responses come in the order of the requests, one for each and none for  *)
(* anything else that has an id, so that an agent which sends several      *)
(* requests at once can match them: when one is answered, those before it  *)
(* are, and it is not yet (run, main.go:137-155).                          *)
AnswersMatch ==
    \A i \in DOMAIN out :
        LET k == out[i].id
        IN  k # 0 => /\ k \in Waiting
                     /\ ByFirst(i - 1) = {j \in Waiting : j < k}

ToolResult == Len(out') > Len(out) /\ Last(out').kind = "result" /\ IsCall

(* A tool result without isError means that the HTTP server has done what  *)
(* the tool was called for, whatever the agent had asked before, gave up   *)
(* or asked twice (do, main.go:346-364), if the name makes a path that is   *)
(* not redirected.                                                         *)
ResultIsTrue == [][ToolResult /\ ~Redirected(call) => call.done]_mcpVars

(* database_delete: "drop the database, user, secret file, and metadata"    *)
(* (main.go:241). Its result means that this was done, for any name. It is  *)
(* false: a name such as "/a" is redirected, the DELETE becomes a GET, and  *)
(* the status of a is the result of the deletion (main.go:316, 346).       *)
DeleteResultIsTrue == [][ToolResult /\ Req.tool = "delete" => call.done]_mcpVars

(* Exit code 0 means that every request the agent wrote was answered,      *)
(* unless it stopped reading (main.go:139-145).                            *)
CleanEnd == mcpExit = "0" /\ agent # "gone" => Answered = Waiting

(* Every request is answered or the process ends, even if the HTTP server  *)
(* never answers (the timeout of main.go:104), as long as the agent reads.  *)
EveryRequestAnswered ==
    \A k \in 1 .. MaxMsgs :
        k \in Waiting ~> k \in Answered \/ mcpExit # "none"
=============================================================================
