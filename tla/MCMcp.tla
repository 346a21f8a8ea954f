-------------------------------- MODULE MCMcp --------------------------------
\* Instances of Mcp: every method, every way a tools/call can end, a name that
\* is redirected.
EXTENDS Mcp

MCNames  == {"a"}
MCTyped  == {"a", "a?", " a", "/a"}

MCTrimmed == [t \in MCTyped |-> IF t \in {"a", " a"} THEN "a" ELSE "none"]
MCPathOf  ==
    [op \in PathOps |-> [t \in MCTyped |->
        [to    |-> IF op = "rotate" /\ t \in {"a?", "/a"} THEN "none" ELSE "a",
         clean |-> t # "/a"]]]

Msg(method)          == [request |-> TRUE, method |-> method, tool |-> "unknown",
                         typed |-> None, confirm |-> None]
Tool(t, name, confirm) == [Msg("tools/call") EXCEPT !.tool = t, !.typed = name, !.confirm = confirm]

MCAsked ==
    {Msg("ping"), Msg("unknown"), Msg("broken"),
     [Msg("notifications/initialized") EXCEPT !.request = FALSE],
     [Msg("unknown") EXCEPT !.request = FALSE],
     Tool("bad params", None, None), Tool("unknown", None, None),
     Tool("list", None, None), Tool("create", " a", None), Tool("create", None, None),
     Tool("rotate", "a?", None), Tool("delete", "a", "a"), Tool("delete", "a?", "a"),
     Tool("delete", "/a", "a")}
=============================================================================
