------------------------- MODULE ProvisionInvariant -------------------------
(***************************************************************************)
(* The inductive invariant behind the safety properties of Provision: who  *)
(* holds the per-name mutex, and what each program point of Create, Rotate *)
(* and Delete may rely on. It presumes that no two project names share an  *)
(* identifier (Injective), which the code does not enforce.                *)
(***************************************************************************)
EXTENDS Provision

Injective == \A m, n \in Names : SafeOf[m] = SafeOf[n] => m = n

\* p owns its project: it is between the mutexes, or about to report success.
Holding(p) ==
    \/ InCritical(p)
    \/ Answered(p, "created") \/ Answered(p, "rotated") \/ Answered(p, "deleted")

LockFor(p) == Holding(p) => ioLock[Name(p)] = p

\* What the answer is before it is given.
FlowInv(p) ==
    /\ req[p].at \in {"rb_user", "rb_db", "c_mark"} => req[p].reply = "error"
    /\ At(p, "r_final") => req[p].reply = "rotated"

RowInv(p) ==
    /\ At(p, "c_insert") => rows[Name(p)] = "none"
    /\ req[p].at \in CreateLabels \ {"c_get", "c_insert", "c_final"}
          => rows[Name(p)] = "pending"
    /\ At(p, "c_final") \/ Answered(p, "created") => rows[Name(p)] = "ready"
    /\ req[p].at \in (RotateLabels \cup DeleteLabels) \ {"r_get", "d_get"}
          => rows[Name(p)] # "none"
    /\ Answered(p, "rotated") => rows[Name(p)] # "none"
    /\ Answered(p, "deleted") => rows[Name(p)] = "none" /\ Name(p) \notin leaked

HostHas(p, h, w) == acct[Id(p)][h] = w

\* The accounts hold the new password up to, not including, the current host.
UpTo(p, l, w) == At(p, l) /\ req[p].host = 2 => HostHas(p, 1, w)

After(p, labels, reply) == req[p].at \in labels \/ Answered(p, reply)

CreateInv(p) ==
    /\ req[p].at \in {"c_db", "c_user", "c_grant", "c_flush", "c_secret", "c_ready", "c_final"}
          => req[p].pw # NoPw
    /\ After(p, {"c_user", "c_grant", "c_flush", "c_secret", "c_ready", "c_final"}, "created")
          => Id(p) \in dbs
    /\ Name(p) \notin leaked =>
          /\ At(p, "c_db") \/ (At(p, "c_user") /\ req[p].host = 1)
                => HostHas(p, 1, NoPw) /\ HostHas(p, 2, NoPw)
          /\ At(p, "c_user") /\ req[p].host = 2
                => HostHas(p, 1, req[p].pw) /\ HostHas(p, 2, NoPw)
          /\ After(p, {"c_grant", "c_flush", "c_secret", "c_ready", "c_final"}, "created")
                => HostHas(p, 1, req[p].pw) /\ HostHas(p, 2, req[p].pw)
    /\ At(p, "c_user") /\ req[p].host = 2 => HasAccount(Id(p), 1)
    /\ After(p, {"c_grant", "c_flush", "c_secret", "c_ready", "c_final"}, "created")
          => HasAccount(Id(p), 1) /\ HasAccount(Id(p), 2)
    /\ At(p, "c_grant") /\ req[p].host = 2 => 1 \in granted[Id(p)]
    /\ After(p, {"c_flush", "c_secret", "c_ready", "c_final"}, "created")
          => 1 \in granted[Id(p)] /\ 2 \in granted[Id(p)]
    /\ After(p, {"c_ready", "c_final"}, "created") => secret[Name(p)] = req[p].pw

RotateInv(p) ==
    /\ UpTo(p, "r_alter", req[p].pw)
    /\ After(p, {"r_secret"}, "rotated") => HostHas(p, 1, req[p].pw) /\ HostHas(p, 2, req[p].pw)
    /\ Answered(p, "rotated") => secret[Name(p)] = req[p].pw

\* What a Delete without a failure so far has removed.
Removed(p, labels) ==
    Answered(p, "deleted") \/ (req[p].at \in labels /\ ~req[p].partial)

DeleteInv(p) ==
    /\ Removed(p, {"d_user", "d_secret", "d_row"}) => Id(p) \notin dbs
    /\ Removed(p, {"d_user"}) /\ req[p].host = 2
          => HostHas(p, 1, NoPw) /\ 1 \notin granted[Id(p)]
    /\ Removed(p, {"d_secret", "d_row"})
          => HostHas(p, 1, NoPw) /\ HostHas(p, 2, NoPw) /\ granted[Id(p)] = {}
    /\ Removed(p, {"d_row"}) => secret[Name(p)] = NoPw

RowFor(p)      == FlowInv(p) /\ RowInv(p)
ResourceFor(p) == CreateInv(p) /\ RotateInv(p) /\ DeleteInv(p)

Nothing(i) ==
    /\ i \notin dbs
    /\ acct[i][1] = NoPw /\ acct[i][2] = NoPw
    /\ granted[i] = {}

OrphanFor(n) ==
    rows[n] = "none" /\ n \notin leaked => Nothing(SafeOf[n]) /\ secret[n] = NoPw

OrphanInv ==
    /\ \A n \in Names : OrphanFor(n)
    /\ \A i \in Ids : (\A n \in Names : SafeOf[n] # i) => Nothing(i)

(* The part that concerns the mutexes and the rows (service.go:85-107). It  *)
(* is inductive for any identifiers, shared or not.                        *)
ControlInv == TypeOK /\ \A p \in Procs : LockFor(p) /\ RowFor(p)

(* The inductive invariant: control, and what is known of the databases,    *)
(* accounts and secrets at every program point of service.go:80-263.        *)
IInv == ControlInv /\ (\A p \in Procs : ResourceFor(p)) /\ OrphanInv
----------------------------------------------------------------------------
(* What holds beyond that while no client gives up and the metadata can be *)
(* read and written.                                                       *)

Attended == "sqlite" \notin Faults /\ "cancel" \notin Faults

\* Which fields of a request go together: nothing has been changed before
\* the row is looked up, and a change is logged before the request ends.
Reliable(r) ==
    /\ r.live
    /\ r.at \in {"c_store", "c_io", "c_get", "g_get"} => r.pw = NoPw
    /\ r.at \in {"r_alter", "r_secret"} => r.pw # NoPw
    /\ r.at = "fin" => r.logged \/ (r.pw = NoPw /\ r.reply \notin {"deleted", "partial"})
    /\ r.at = "r_final" => r.logged

Serves(n) == Usable(n) /\ secret[n] # NoPw

\* A Delete of n may have removed resources and will remove the row.
BeingDeleted(n) ==
    \E p \in Procs : Name(p) = n /\ req[p].at \in {"d_user", "d_secret", "d_row"}

ReadyFor(n) == rows[n] = "ready" => Serves(n) \/ BeingDeleted(n)

ReliableInv == \A p \in Procs : Reliable(req[p])
ReadyInv    == \A n \in Names : ReadyFor(n)
----------------------------------------------------------------------------
(* What holds beyond that while nothing fails.                             *)

\* No answer is known before the end, and none of them is an error.
Smooth(r) ==
    /\ r.at \notin {"rb_user", "rb_db", "c_mark"}
    /\ r.reply \notin {"error", "partial", "refused"} /\ ~r.partial
    /\ r.at \in {"c_store", "c_io", "r_io", "d_io", "g_get"} \cup (Critical \ {"r_final"})
          => r.reply = "none"

BeingCreated(n) ==
    \E p \in Procs : Name(p) = n /\ req[p].at \in CreateLabels \ {"c_get", "c_insert", "c_final"}

\* No project is left pending or in error, and the secret file of a project
\* is the last resource that a Delete removes.
StatusFor(n)  == rows[n] \in {"none", "ready"} \/ (rows[n] = "pending" /\ BeingCreated(n))
SecretFor(p)  == req[p].at \in {"d_user", "d_secret"} => secret[Name(p)] # NoPw

SmoothInv ==
    /\ \A p \in Procs : Smooth(req[p]) /\ SecretFor(p)
    /\ \A n \in Names : StatusFor(n)
=============================================================================
