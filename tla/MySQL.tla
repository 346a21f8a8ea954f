------------------------------- MODULE MySQL -------------------------------
(***************************************************************************)
(* The MySQL server, as far as internal/mysqlx/provisioner.go drives it.   *)
(* An identifier i stands for the pair <i>_db, <i>_user that              *)
(* model.ProjectIdentifiers derives; every account exists once per host.  *)
(* Each operator is the effect of one SQL statement; a method of the      *)
(* Provisioner is a sequence of them, and Provision.tla executes it one   *)
(* statement at a time.                                                    *)
(***************************************************************************)
EXTENDS Naturals

CONSTANTS
    Ids,        \* the identifiers the project names map to
    Passwords,  \* what model.RandomPassword returns
    NoPw        \* "no password": the account, or the secret, does not exist

VARIABLES
    dbs,        \* the databases <i>_db that exist
    acct,       \* acct[i][h]: the password of <i>_user at host h, or NoPw
    granted     \* granted[i]: hosts whose <i>_user holds the grant on <i>_db

mysqlVars == <<dbs, acct, granted>>

\* 127.0.0.1 and localhost, numbered in the order every loop visits them.
Hosts == 1..2

MaybePassword == Passwords \cup {NoPw}

MySQLTypeOK ==
    /\ dbs \subseteq Ids
    /\ acct \in [Ids -> [Hosts -> MaybePassword]]
    /\ granted \in [Ids -> SUBSET Hosts]

MySQLInit ==
    /\ dbs = {}
    /\ acct = [i \in Ids |-> [h \in Hosts |-> NoPw]]
    /\ granted = [i \in Ids |-> {}]

HasAccount(i, h) == acct[i][h] # NoPw

SetAccount(i, h, w) == acct' = [acct EXCEPT ![i] = [@ EXCEPT ![h] = w]]

----------------------------------------------------------------------------
(* The statements.                                                         *)

\* CREATE DATABASE IF NOT EXISTS
CreateDatabase(i) ==
    /\ dbs' = dbs \cup {i}
    /\ UNCHANGED <<acct, granted>>

\* DROP DATABASE IF EXISTS; MySQL keeps the grants on a dropped database.
DropDatabase(i) ==
    /\ dbs' = dbs \ {i}
    /\ UNCHANGED <<acct, granted>>

\* CREATE USER IF NOT EXISTS: an account that exists keeps its password.
CreateUser(i, h, w) ==
    /\ SetAccount(i, h, IF HasAccount(i, h) THEN acct[i][h] ELSE w)
    /\ UNCHANGED <<dbs, granted>>

\* ALTER USER has no IF EXISTS: it is refused for an account that is missing.
AlterUser(i, h, w) ==
    /\ HasAccount(i, h)
    /\ SetAccount(i, h, w)
    /\ UNCHANGED <<dbs, granted>>

\* DROP USER IF EXISTS takes the account's grants with it.
DropUser(i, h) ==
    /\ SetAccount(i, h, NoPw)
    /\ granted' = [granted EXCEPT ![i] = @ \ {h}]
    /\ UNCHANGED dbs

\* GRANT creates no account (NO_AUTO_CREATE_USER, MySQL 8): refused without one.
Grant(i, h) ==
    /\ HasAccount(i, h)
    /\ granted' = [granted EXCEPT ![i] = @ \cup {h}]
    /\ UNCHANGED <<dbs, acct>>
============================================================================
