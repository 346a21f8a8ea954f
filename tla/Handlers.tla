------------------------------ MODULE Handlers ------------------------------
(***************************************************************************)
(* internal/api: which answer a client gets for which outcome of the       *)
(* service, with the checks on names of internal/model, and of MySQL and   *)
(* internal/secrets on the identifiers made from them. The handlers choose *)
(* some error codes by words in the error's text, and the text may contain *)
(* the name or the path of the secret file. A text is the set of the words *)
(* the handlers look for that occur in it.                                 *)
(***************************************************************************)
EXTENDS Naturals

CONSTANTS
    Names,      \* the names that clients send
    DirWords    \* words in the path of the secret directory

Words == {"secret", "create database", "create user", "grant", "alter user"}

\* What of a name matters: length, first character, characters, words in it.
Name == [len   : Nat,
         first : {"alnum", "sep", "other"},
         chars : SUBSET {"alnum", "hyphen", "underscore", "other"},
         words : SUBSET Words]

ASSUME HandlersAssumption == Names \subseteq Name /\ DirWords \subseteq Words

VARIABLE call   \* one request in its handler

Ops == {"list", "get", "create", "rotate", "delete"}

CallerFaults == {"body", "name", "notfound", "unconfirmed", "mismatch"}
MySQLFaults  == {"database", "user", "grant", "flush", "alter", "drop"}
ServerFaults == MySQLFaults \cup {"store", "secret", "refused"}
Outcomes     == {"ok"} \cup CallerFaults \cup ServerFaults

Codes == {"OK", "BAD_REQUEST", "INVALID_PROJECT_NAME", "DATABASE_NOT_FOUND",
          "CONFIRMATION_REQUIRED", "MYSQL_ERROR", "SECRET_WRITE_ERROR", "INTERNAL_ERROR"}

NoCall == [at |-> "idle"]

Init == call = NoCall

----------------------------------------------------------------------------
(* Names and identifiers                                                   *)

MaxProjectNameLen == 63

\* Variant: the pattern without its first character.
ValidateUnanchored(n) ==
    n.len \in 1 .. MaxProjectNameLen /\ "other" \notin n.chars

\* ^[a-z0-9][a-z0-9_-]{0,62}$
ValidateProjectName(n) ==
    n.len \in 1 .. MaxProjectNameLen /\ n.first = "alnum" /\ "other" \notin n.chars

\* ProjectIdentifiers: "-" becomes "_", and a suffix is appended.
Identifier(n, suffix) ==
    [len |-> n.len + suffix, chars |-> (n.chars \ {"hyphen"}) \cup {"underscore"}]

Database(n) == Identifier(n, 3)    \* _db
User(n)     == Identifier(n, 5)    \* _user

\* assertIdentifier: letters, digits and "_".
Safe(id) == id.len > 0 /\ id.chars \subseteq {"alnum", "underscore"}

\* Limits of MySQL 8 for the names of databases and users.
FitsMySQL(n) == Database(n).len <= 64 /\ User(n).len <= 32

\* secrets.validateIdentifier, on the name and both identifiers.
FitsSecrets(n) == \A id \in {n, Database(n), User(n)} : id.len <= 64 /\ "other" \notin id.chars

----------------------------------------------------------------------------
(* The service's outcome and the text of its error                         *)

Possible(op) ==
    {"ok", "store"} \cup
    (CASE op = "list"   -> {}
       [] op = "get"    -> {"notfound"}
       [] op = "create" -> {"refused", "database", "user", "grant", "flush", "secret"}
       [] op = "rotate" -> {"notfound", "alter", "secret"}
       [] op = "delete" -> {"unconfirmed", "mismatch", "notfound", "drop", "secret"})

\* Without faults around it, a create gets as far as the identifiers allow.
Attainable(op, n) ==
    IF op # "create" THEN Possible(op)
    ELSE IF ~FitsMySQL(n) THEN Possible(op) \ {"ok", "grant", "flush", "secret"}
    ELSE Possible(op)

(* "%w" appends the text of MySQL, which may quote an identifier, or of the *)
(* system call on the file, which quotes its path. Delete puts a label     *)
(* before each text, "delete_secret" for the file.                         *)
Texts(op, n, outcome) ==
    CASE outcome = "refused"  -> {n.words}
      [] outcome = "database" -> {{"create database"}, {"create database"} \cup n.words}
      [] outcome = "user"     -> {{"create user"}, {"create user"} \cup n.words}
      [] outcome = "grant"    -> {{"grant"}, {"grant"} \cup n.words}
      [] outcome = "alter"    -> {{"alter user"}, {"alter user"} \cup n.words}
      [] outcome = "secret"   -> IF op = "delete" THEN {{"secret"}}
                                                  ELSE {DirWords \cup n.words}
      [] OTHER -> {{}}

----------------------------------------------------------------------------
(* The handlers                                                            *)

\* The path's or the body's name, and a body that may be malformed.
Receive ==
    /\ call.at = "idle"
    /\ \E op \in Ops, n \in Names :
          call' = [at |-> "received", op |-> op, name |-> n]

Answer(outcome, code) ==
    call' = [at |-> "answered", op |-> call.op, name |-> call.name,
             outcome |-> outcome, code |-> code]

\* createDatabase decodes the body first, deleteDatabase checks the name first.
BadRequest ==
    /\ call.at = "received"
    /\ \/ call.op = "create"
       \/ call.op = "delete" /\ ValidateProjectName(call.name)
    /\ Answer("body", "BAD_REQUEST")

InvalidName ==
    /\ call.at = "received"
    /\ call.op # "list"
    /\ ~ValidateProjectName(call.name)
    /\ Answer("name", "INVALID_PROJECT_NAME")

\* The handler calls the service, which returns an outcome and its text.
Serve ==
    /\ call.at = "received"
    /\ call.op = "list" \/ ValidateProjectName(call.name)
    /\ \E outcome \in Attainable(call.op, call.name) :
       \E text \in Texts(call.op, call.name, outcome) :
          call' = [at |-> "returned", op |-> call.op, name |-> call.name,
                   outcome |-> outcome, text |-> text]

\* Variant: what has no code of its own is reported as not found.
MapToNotFound(outcome) ==
    CASE outcome \in {"unconfirmed", "mismatch"} -> "CONFIRMATION_REQUIRED"
      [] OTHER -> "DATABASE_NOT_FOUND"

(* mapProvisionError. It has an answer for every error, so that the         *)
(* handlers' writeInternal after it is never reached.                      *)
MapProvisionError(outcome) ==
    CASE outcome = "notfound" -> "DATABASE_NOT_FOUND"
      [] outcome \in {"unconfirmed", "mismatch"} -> "CONFIRMATION_REQUIRED"
      [] OTHER -> "INTERNAL_ERROR"

MySQLWords == {"create database", "create user", "grant", "alter user"}

CodeOf(op, outcome, text) ==
    IF outcome = "ok" THEN "OK"
    ELSE IF op \in {"create", "rotate"} /\ "secret" \in text THEN "SECRET_WRITE_ERROR"
    ELSE IF op = "create" /\ text \cap MySQLWords # {} THEN "MYSQL_ERROR"
    ELSE MapProvisionError(outcome)

Respond ==
    /\ call.at = "returned"
    /\ Answer(call.outcome, CodeOf(call.op, call.outcome, call.text))

End == call.at = "answered" /\ call' = NoCall

Next == Receive \/ BadRequest \/ InvalidName \/ Serve \/ Respond \/ End

Spec == Init /\ [][Next]_call

----------------------------------------------------------------------------
(* Properties                                                              *)

ClientCodes == {"BAD_REQUEST", "INVALID_PROJECT_NAME", "DATABASE_NOT_FOUND",
                "CONFIRMATION_REQUIRED"}

(* A client is told that the fault is its own if and only if it is,        *)
(* whatever words its project's name and the error texts contain.          *)
BlameIsRight ==
    call.at = "answered" => (call.code \in ClientCodes <=> call.outcome \in CallerFaults)

(* "a validated project name always produces a safe identifier here"       *)
(* (provisioner.go:205-207), and a file name that stays in the directory   *)
(* and is not hidden among the temporary files. The checks of secrets.Write *)
(* come after MySQL has the accounts and refuse no name that MySQL takes.  *)
NamesAreSafe ==
    call.at = "returned" /\ call.op \in {"create", "rotate", "delete"} =>
        /\ Safe(Database(call.name)) /\ Safe(User(call.name))
        /\ call.name.first = "alnum" /\ "other" \notin call.name.chars
        /\ FitsMySQL(call.name) => FitsSecrets(call.name)
=============================================================================
