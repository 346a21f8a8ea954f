--------------------------- MODULE AtomicService ---------------------------
(***************************************************************************)
(* What clients of the service observe as long as nothing fails: Create,   *)
(* Rotate and Delete take effect in one atomic step between their call and *)
(* their answer, on the credentials the application finds. Get takes no    *)
(* lock: while another request works on the project it may show a project  *)
(* that is not complete yet or not removed yet.                            *)
(***************************************************************************)
CONSTANTS Names, NoName, Procs, Passwords, NoPw

VARIABLES
    cred,   \* cred[n]: the password published for project n, or NoPw
    call    \* call[p]: the operation p has called and not returned from

vars == <<cred, call>>

NoCall == [op |-> "none", name |-> NoName, reply |-> "none"]

Init ==
    /\ cred = [n \in Names |-> NoPw]
    /\ call = [p \in Procs |-> NoCall]

Called(p, op) == call[p].op = op
Exists(n)     == cred[n] # NoPw

Invoke(p) ==
    /\ Called(p, "none")
    /\ \E op \in {"create", "rotate", "delete", "get"}, n \in Names :
          call' = [call EXCEPT ![p] = [op |-> op, name |-> n, reply |-> "none"]]
    /\ UNCHANGED cred

Done(p, reply) == call' = [call EXCEPT ![p].op = "done", ![p].reply = reply]

Publish(p, w) == cred' = [cred EXCEPT ![call[p].name] = w]

Create(p) ==
    /\ Called(p, "create")
    /\ \/ /\ ~Exists(call[p].name)
          /\ \E w \in Passwords : Publish(p, w)
          /\ Done(p, "created")
       \/ Exists(call[p].name) /\ Done(p, "existing") /\ UNCHANGED cred

Rotate(p) ==
    /\ Called(p, "rotate")
    /\ Exists(call[p].name)
    /\ \E w \in Passwords : Publish(p, w)
    /\ Done(p, "rotated")

Delete(p) ==
    /\ Called(p, "delete")
    /\ Exists(call[p].name)
    /\ Publish(p, NoPw)
    /\ Done(p, "deleted")

NotFound(p) ==
    /\ call[p].op \in {"rotate", "delete", "get"}
    /\ ~Exists(call[p].name)
    /\ Done(p, "notfound")
    /\ UNCHANGED cred

InProgress(n, p) ==
    \E q \in Procs \ {p} : call[q].name = n /\ call[q].op \in {"create", "delete", "done"}

Get(p) ==
    /\ Called(p, "get")
    /\ Exists(call[p].name) \/ InProgress(call[p].name, p)
    /\ Done(p, "shown")
    /\ UNCHANGED cred

Return(p) ==
    /\ Called(p, "done")
    /\ call' = [call EXCEPT ![p] = NoCall]
    /\ UNCHANGED cred

Next == \E p \in Procs :
    Invoke(p) \/ Create(p) \/ Rotate(p) \/ Delete(p) \/ NotFound(p) \/ Get(p) \/ Return(p)

Spec == Init /\ [][Next]_vars
=============================================================================
