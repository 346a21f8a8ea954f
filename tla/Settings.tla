------------------------------ MODULE Settings ------------------------------
(***************************************************************************)
(* internal/config: where each setting of the server comes from. A text is *)
(* a sequence of words, << >> the empty one; a path that begins with "/"   *)
(* is absolute. The YAML file is what it says (a function on some of the   *)
(* keys), the environment has a text for each of its keys.                 *)
(***************************************************************************)
EXTENDS Naturals, SequencesExt

YamlKeys == {"addr", "timeout", "storage", "cnf", "allowDrop", "secrets",
             "toFile", "auditFile", "level"}
EnvKeys  == {"addr", "storage", "secrets", "level", "cnf", "allowDrop", "dsn"}

LibDir == <<"/", "lib">>    \* /var/lib/db-isolation
AppDir == <<"/", "apps">>   \* /etc/db-isolation/apps
LogDir == <<"/", "log">>    \* /var/log/db-isolation

Default ==
    [addr      |-> <<"localhost">>,
     timeout   |-> 10,
     storage   |-> LibDir \o <<"db">>,
     cnf       |-> <<"/", "root.my.cnf">>,
     allowDrop |-> FALSE,
     secrets   |-> AppDir,
     toFile    |-> TRUE,
     auditFile |-> LogDir \o <<"audit">>,
     level     |-> <<"info">>,
     dsn       |-> << >>]

\* yaml.Unmarshal into the defaults: what the file does not mention stays.
Unmarshal(yaml, c) == [k \in DOMAIN c |-> IF k \in DOMAIN yaml THEN yaml[k] ELSE c[k]]

\* strconv.ParseBool
Booleans     == {<<"true">>, <<"false">>}
ParseBool(t) == t = <<"true">>

EnvFits(env) == env.allowDrop \in {<< >>} \cup Booleans

\* applyEnv: a variable that is empty says nothing.
ApplyEnv(env, c) ==
    [k \in DOMAIN c |->
        IF k \notin EnvKeys \/ env[k] = << >> THEN c[k]
        ELSE IF k = "allowDrop" THEN ParseBool(env[k])
        ELSE env[k]]

IsAbs(p)      == p # << >> /\ p[1] = "/"
Under(dir, p) == IF IsAbs(p) THEN p ELSE dir \o p

\* An empty path becomes its directory.
ExpandPaths(c) ==
    [c EXCEPT !.storage   = Under(LibDir, @),
              !.secrets   = Under(AppDir, @),
              !.auditFile = Under(LogDir, @)]

ToLower(t) == IF t = <<"INFO">> THEN <<"info">> ELSE t

\* validate, which comes after expandPaths: the paths are never empty here.
Valid(c) ==
    /\ c.addr # << >> /\ c.storage # << >> /\ c.secrets # << >>
    /\ ToLower(c.level) \in {<<"debug">>, <<"info">>, <<"warn">>, <<"error">>}

\* A configuration file: absent, unreadable or malformed, or YAML.
Absent == [is |-> "absent"]
Broken == [is |-> "broken"]
Yaml(y) == [is |-> "yaml", says |-> y]

FileFits(f) ==
    f # Absent /\ f # Broken =>
        /\ f.is = "yaml" /\ DOMAIN f.says \subseteq YamlKeys
        /\ \A k \in DOMAIN f.says \cap {"storage", "secrets"} : f.says[k] \in Seq(STRING)

\* Variant: the environment is applied first.
LoadEnvFirst(file, env) ==
    LET e == ApplyEnv(env, Default)
        c == ExpandPaths(IF file.is = "yaml" THEN Unmarshal(file.says, e) ELSE e)
    IN  [ok |-> file.is # "broken" /\ EnvFits(env) /\ Valid(c),
         cfg |-> [c EXCEPT !.level = ToLower(@)]]

\* Load. A file that does not exist is as good as an empty one.
Load(file, env) ==
    LET y == IF file.is = "yaml" THEN Unmarshal(file.says, Default) ELSE Default
        c == ExpandPaths(ApplyEnv(env, y))
    IN  [ok  |-> file.is # "broken" /\ EnvFits(env) /\ Valid(c),
         cfg |-> [c EXCEPT !.level = ToLower(@)]]

----------------------------------------------------------------------------
(* my.cnf: its lines are section headers, settings and others              *)

Header(s)   == [is |-> "header", name |-> s]
Set(k, v)   == [is |-> "set", key |-> k, val |-> v]
OtherLine   == [is |-> "other"]
CnfKeys     == {"user", "password", "host", "port", "socket"}
CnfLine     == [is : {"header"}, name : STRING]
               \cup [is : {"set"}, key : STRING, val : Seq(STRING)] \cup {OtherLine}
NoCnf       == [k \in CnfKeys |-> << >>]

\* One turn of LoadMycnf's loop. strings.EqualFold compares the headers.
ReadLine(st, l) ==
    IF l.is = "header" THEN [st EXCEPT !.inClient = l.name \in {"client", "CLIENT"}]
    ELSE IF l.is = "set" /\ st.inClient /\ l.key \in CnfKeys
         THEN [st EXCEPT !.out[l.key] = l.val]
    ELSE st

LoadMycnf(lines) ==
    LET after[k \in 0 .. Len(lines)] ==
            IF k = 0 THEN [inClient |-> FALSE, out |-> NoCnf]
            ELSE ReadLine(after[k - 1], lines[k])
    IN  after[Len(lines)].out

OrElse(t, default) == IF t = << >> THEN default ELSE t

\* DSN: a socket is preferred to a host; the password needs a user.
DSN(m) ==
    [user     |-> m.user,
     password |-> IF m.user = << >> THEN << >> ELSE m.password,
     via      |-> IF m.socket # << >> THEN <<"unix">> \o m.socket
                  ELSE <<"tcp">> \o OrElse(m.host, <<"127.0.0.1">>) \o OrElse(m.port, <<"3306">>)]

(* resolveAdminDSN: the environment's DSN as it is, or what my.cnf says.   *)
(* cnfs has the my.cnf files that can be read.                             *)
ResolveAdminDSN(c, cnfs) ==
    IF c.dsn # << >> THEN [ok |-> TRUE, dsn |-> c.dsn]
    ELSE IF c.cnf \notin DOMAIN cnfs THEN [ok |-> FALSE]
    ELSE LET m == LoadMycnf(cnfs[c.cnf])
         IN  IF m.user = << >> THEN [ok |-> FALSE] ELSE [ok |-> TRUE, dsn |-> DSN(m)]
=============================================================================
