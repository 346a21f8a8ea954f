# A verification of db-isolation in TLA+

db-isolation is one Go server that gives every project its own MySQL database,
its own accounts and a file with the connection string. The difficulty is not in
any one call but in their sequence: a `create`, `rotate` or `delete` changes three
stores that know nothing of each other (rows in SQLite, databases, accounts and
grants in MySQL, files in the secret directory), any call may fail, a client that
disconnects makes all later SQL calls of its request fail, and the server may be
stopped between any two of them. This directory models that and says what holds.

## The system

| Component | Source | State | Operations | Talks to |
|---|---|---|---|---|
| Provisioning service | `internal/provision/service.go` | one mutex per name (`inflight`) | Create, Rotate, Delete, Get, List | all of the following |
| Metadata store | `internal/store/store.go` | SQLite tables `projects`, `tokens`, `audit_logs`; one mutex per name (`creatingMu`) | Create/Get/List/Update/DeleteProject, LockCreate, tokens, audit | SQLite |
| MySQL provisioner | `internal/mysqlx/provisioner.go` | databases, accounts at two hosts, grants (in MySQL) | EnsureDatabase, EnsureUser, GrantProjectPrivileges, SetUserPassword, DropUser, DropDatabase | MySQL |
| Secret files | `internal/secrets/secrets.go` | one `.env` file per project | Write, Delete | the file system |
| Audit log | `internal/audit/audit.go` | rows and a JSONL file | Write, Close | store, file |
| Authentication | `internal/auth/auth.go` | tokens (in the store) | Lookup | store |
| HTTP API | `internal/api` | none | dispatch, error codes | service, authentication, audit |
| Domain model | `internal/model` | none | names, identifiers, passwords, tokens | |
| Server command | `cmd/server/main.go` | the process, the parts it has opened | serve, shut down; token and audit subcommands | all of the above |
| CLI and MCP clients | `cmd/dbi`, `cmd/mcp` | none | HTTP calls with a timeout | HTTP API |
| Configuration | `internal/config` | the settings of a process | Load, LoadMycnf, DSN | environment, files |
| Deployment | `.github/workflows/deploy.yml`, `scripts/ci-deploy.sh`, `scripts/ecosystem.config.json` | the installed file, its backups, pm2's app | upload, verify, back up, install, restart, check | the server, as a process |
| Installation scripts | `scripts/install.sh`, `deploy-aliyun.sh`, `smoke-pm2.sh` | files on the host | run once, by hand | |

What is hard: handlers run concurrently, one goroutine per request; Create takes
two mutexes and the others one; a request reads the row and acts on it several
calls later; statements run host by host and may stop after the first host; Create
rolls back with best effort and Delete goes on after failures; the request's context
is used for every SQL call, rollback and audit entry included; file operations and
mutexes ignore it; and MySQL statements are `IF [NOT] EXISTS`, so that a leftover of
one request is silently taken over by the next. Around that: handlers outlive the
shutdown of their server, which pm2 may kill; two deployments may overlap, and copy to
the same place; a setting has up to four sources; three programs look for their flags in
ways of their own; and times are stored as text and sorted as text.

What makes the components correct: a success answer is true (the resources, the
secret and the row agree); no resource exists without a record of it; requests on one
project do not see each other's intermediate states; requests on different projects do
not touch each other; a row goes through its statuses in one direction; every change
has an audit entry; every request ends; a server that exits with code 0 has finished its
work; a process has the settings that were asked for; a deployment installs what was
verified and reports what is true.

## The modules

| Module | Models |
|---|---|
| `MySQL` | the MySQL server: the effect of each SQL statement the provisioner sends |
| `Provision` | the service, its stores and mutexes: one action per call, all requests, faults and crashes; the properties |
| `ProjectLifecycle` | abstract: how the status of a project may move |
| `AtomicService` | abstract: what clients observe when nothing fails |
| `SecretFile` | `secrets.Write` and `Delete`, system call by system call, with errors, killed processes and power failures |
| `AtomicFile` | abstract: the file operation that `Provision` takes them for, and what a power failure may do |
| `RandomPassword` | the choice of the four positions that get one character of each class |
| `Access` | tokens: requests in the server, `token create` and `token revoke` in other processes |
| `Handlers` | which names pass, which identifiers come of them, which code answers which outcome |
| `Calls` | one client of the HTTP API, and the server as its clients see it |
| `Dbi` | `cmd/dbi`: the command line, the call, the exit code |
| `Mcp` | `cmd/mcp`: the JSON-RPC loop on stdin and stdout |
| `Settings` | `internal/config`: which source a setting comes from, `my.cnf`, the DSN |
| `Main` | `cmd/server`: the command lines of one process after the other, up to an exit code or a server that serves |
| `Commands` | `Dbi` and `Main` beside each other: both binaries that are run by hand |
| `Serving` | `runServer`: the parts it opens, its handlers, Shutdown, its deferred calls |
| `Host` | the machine: pm2, and deployments that may overlap |
| `Listing` | times as text, and the lists sorted by them |
| `ProvisionInvariant` | the inductive invariants of the proofs about `Provision` |
| `ProvisionProofs`, `ProvisionTheorems`, `ProvisionAtomicity` | the proofs about `Provision`: its steps, its properties, its refinement of `AtomicService` |
| `SecretProofs` | the proofs about `SecretFile` and `RandomPassword` |
| `AccessProofs`, `HostProofs` | the proofs about `Access`, and about `Host` and `Serving` |
| `HandlersProofs` | the proofs about `Handlers` and `Listing` |
| `CommandProofs` | the proofs about `Dbi`, `Mcp`, `Main` and `Settings` |
| `MCProvision`, `MCSecretFile`, `MCAccess`, `MCHandlers`, `MCCommandLines`, `MCMcp`, `MCHost` | instances for TLC |

`Provision` extends `MySQL`; `ProvisionInvariant` extends `Provision`, and `MCProvision`
and the proofs extend that. `Provision` instantiates `ProjectLifecycle` (the status is
the row) and `AtomicService` (the published credential and the calls are functions of
the state) and states refinement as `ImplementsLifecycle` and `ImplementsAtomicService`.
`SecretFile` refines `AtomicFile` in the same way; `Provision!SetSecret` and `FileCall` are
the same atomic operation as seen by the service, which holds the mutex of the name
meanwhile. `Dbi` and `Mcp` extend `Calls`. Its server has no steps but whole calls: a call
may have any outcome that `Provision` and `Handlers` allow for the status of the project.
`Main` extends `Settings`: every process loads its settings. `Host` extends `Serving`, whose
process it starts and stops, and `HostImplementsServing` says that no step of the host does
more to a server than `Serving` allows. Three pairs of components are checked beside each
other, in one run each, and share no state, so that one moves while the other is in its
initial state: `Commands` extends `Dbi` and instantiates `Main`, `MCHandlers` extends
`Handlers` and `Listing`, and `MCSecretFile` extends `SecretFile` and `RandomPassword` (the
file moves with one of the draws of the bytes).

### How the state corresponds to the code

`rows[n]` is the status column of the project's row (`"none"`: no row). `secret[n]` is the
password in the project's file. `dbs`, `acct[i][h]` and `granted[i]` are MySQL's databases,
the password of the account at each host, and the hosts whose account holds the grant.
`storeLock` and `ioLock` are the two mutexes per name. `req[p]` is the goroutine of one
request: `at` is its program point, `host` the index of the loop over the hosts, `pw` the
password it has drawn, `live` whether its context is still valid, `partial` whether Delete
has noted a failure, `reply` what it answers. Two variables are history, written and never
read by the program: `req[p].logged` (the audit entry was stored) and `leaked` (the names
whose row a Delete has removed although a step before had failed, whether or not anyone was
told of it).

Names map to identifiers by the constant `SafeOf`, which need not be injective:
`ProjectIdentifiers` turns `-` into `_`.

### How the actions correspond to the code

One action is one call that can fail or that others can see: a query, an `INSERT`,
`UPDATE` or `DELETE`, one SQL statement for one host, one file operation, one mutex
operation, one audit entry. What Go does between two of them is part of the action.
The labels of `CreateLabels`, `RotateLabels` and `DeleteLabels` are in the order of
`service.go`.

A call that takes the request's context (`Returns`, `Failing`) may succeed; it may fail
because the server errs, because the context is cancelled already, or because it is
cancelled while the call runs. In the last two cases the call may or may not have taken
its effect. File operations ignore the context, and one that fails leaves the file as it
was, as the temporary file and the rename in `secrets.Write` see to.
`ALTER USER` and `GRANT` are refused for a missing account.

`Faults` says which faults an instance has: `"mysql"`, `"sqlite"`, `"file"`, `"cancel"`
(clients disconnect) and `"crash"` (the process is killed, or `Shutdown` gives up, and the
server is started again: mutexes and requests are gone, the three stores stay).

`RandomPassword` has no error in the model: since Go 1.24 (`go.mod` asks for 1.25)
`crypto/rand.Read` never returns one. Passwords are drawn freely, two requests may draw
the same. The name check is not modelled here, names are valid; the reply of a
`SELECT` that fails, the `ErrConflict` branch (`InsertIsFresh` shows that it is dead) and
`List`, which only reads, have no action.

### The other modules

`SecretFile`: `file` is what other processes read, `durable` the set of contents that the
file may have after a power failure (more than one between a rename and the sync of the
directory), and `op` the call in progress, with its temporary file. Every system call of
`Write` is an action with its error as a disjunct. A rename of a file that was not synced
may leave a torn one on the disk: the model would find a missing `tmp.Sync`. `op.missed` is
history: a best-effort step (the sync of the directory, the removal of the temporary file)
has failed and the code has gone on.

`RandomPassword`: the four bytes drawn, the four positions, `seen` and the loop index. A
position is a byte modulo the length; one that is taken becomes the first free one.

`Access`: `token[t]` is a row, `req[p]` a request in `requireAuth` between `Lookup`'s
`SELECT`, `TouchToken` and the audit entry, `cmd[c]` a process of the `token` command, which
reads the clock before it waits for SQLite. History: `token[t].told` (a revoke command has
reported success) and `req[p].late` (the request began after that).

`Handlers`: one request from the handler's first check to its answer. A name is its length,
its first character, the kinds of characters and the words in it; the text of an error is
the set of words in it for which the handlers look.

`Calls`: `project[n]` is the status of a project, `call` the client's call and `late` the
calls that were given up while the server works on them. Users and agents may give any text
as a name (`Typed`). `create` has it in its body, and the handlers trim it (`Trimmed`); the
other calls put it into the path as it is, and `PathOf` says where that leads: to which name,
and whether the path is clean. One that is not is redirected by the `ServeMux` with 301, before
authentication, and Go's client follows with a GET, so that the handler of `status` or
`list` runs in place of the one that was meant (`HandledAs`). `call.done` is history: the
handler of the operation that was asked for has carried it out; an answer without an error
may come from another one. `Dbi`: `line` is the command line, a sequence of words, `exit` and
`output` what a caller sees. `Mcp`: `sent` is everything the agent has written to stdin,
`read` how much of it has been decoded, `out` the responses on stdout, `mcpExit` its exit code.

`Settings`: a text is a sequence of words, a configuration file is absent, broken or a
function on some of the keys. `Load` is `applyEnv` after the file after the defaults, then
the paths, then `validate`; `LoadMycnf` is a recursive function with one `ReadLine` per line.
`FileFits` and `CnfLine` say what a decoded file may be.

`Main`: `main` is the process: its arguments, environment and files, its program point `at`
(one per call of `runServer` that may end it), its settings, its exit code and what it has
done. Two readers of `--config` are modelled as they are: the flag package for the server,
`loadConfigAndStore` and `stripConfig` for the other commands.

`Serving`: `srv` has the point of the process and the parts that are open, `job[h]` the point
of a handler. `Shutdown` is taken for what its documentation says: it returns nil when no
connection is active, and its context's error when the timeout is first. `srv.lost` is
history: a request got no answer, or what it has changed no record.

`Host`: `bin` is the contents of the installed file, `staged` of the uploaded one, `backups`
the contents that were saved; `build` is what the process executes. `dep[d].at` is the command
of the deployment that is next, in the order of `deploy.yml` and `ci-deploy.sh`. `install`
opens, then copies: a torn file is in between. pm2 has one app with the states it shows.
`last` is history: the last deployment to begin, what it found, and whether it was alone.

`Listing`: a writer takes the time (`Create`, `WriteAudit`), and waits for SQLite's one
connection, so that rows are inserted in any order. `Text` is RFC3339Nano, `Before` the order
of bytes; a list is any order that `ORDER BY` allows.

## What is checked

| Run | Instance | Question |
|---|---|---|
| `one_name` | 1 name, 2 requests, 3 passwords, all faults | mutual exclusion, no orphans, every success answer is true, the row implements `ProjectLifecycle` |
| `server_faults` | 1 name, 2 requests, 2 passwords, MySQL and file errors, fairness | while the process, the metadata and the clients stay up, ready projects are usable, changes are audited, every request ends |
| `two_names` | 2 names, 2 requests, 2 passwords, crashes | requests leave other projects alone |
| `atomic` | 1 name, 3 requests, no fault | the service implements `AtomicService` |
| `secret_file` | 3 passwords, all faults; a password of 8 positions, bytes 0 to 9 | the file is never torn, temporary files go away, acknowledged writes are durable, the implementation of `AtomicFile`; every class is in the password |
| `access` | 1 token, 2 requests, 2 commands, 3 ticks of the clock, failing SQL | what a reported revocation means for later requests, and what a refused request leaves |
| `answers` | names of every kind and of every length at which something changes; 2 projects, 2 writers, 4 times | which errors are blamed on the client; validated names give safe identifiers; what is listed is in order |
| `command_lines` | about 450 command lines of `dbi`, names with blanks and names that are redirected among them, 1 call that was given up; about 2000 launches of the server's binary | exit code 0 is true unless the name was redirected, the subcommand meant is the one that runs, a delete is confirmed; a server serves as configured, all commands find one store |
| `mcp` | 3 messages of 14 kinds, 1 call that was given up, fairness | answers match requests, results are true unless the name was redirected, every request is answered |
| `host` | 2 deployments, 1 handler, every command may fail, fairness | what exit code 0 of the server means, what a deployment installs and reports, that it can be undone, that it ends |
| `shared_database` | 2 names with one identifier, no fault | violated: see below |
| `redirected_delete` | as `mcp`, for calls of `database_delete` whatever the name | violated: see below |

The inductive invariants of the proofs are not among the properties of the runs: that they
hold is what the proofs show.

**Bounds.** There is no bound in the actions: a request that has ended may start again as
any other, so that every run explores unbounded sequences of requests. One name is enough
for what happens within a project; two for the isolation of projects and for shared
identifiers. Two requests are all that can be in the critical section and waiting for it;
a third, in `atomic`, adds a waiter for the other mutex. Three passwords distinguish the old, the new
and a concurrently drawn one; the runs with two do not compare more. Requests, passwords
and, where the identifiers allow it, names are symmetric.

The mutex admits one call on a file at a time; three passwords tell the new one, the old one
and one that was there before. Eight positions are fewer than the code's passwords have, which
makes collisions more frequent; the theorem covers every length. This run does not
look for deadlocks, since a password that is complete has no further step. In `access` two requests
and two commands are enough for a revocation between any two steps of a lookup, with another
one beside it; `MaxTime` bounds the clock. Command lines have up to two words
before the subcommand and up to three after it, which covers a flag taken for the value of
another one and `--confirm` in every position. One project, `a`, is enough for a client that
makes one call at a time; the texts given as names are `a`, ` a` (trimmed), `a?` (cut by the
URL), `/a` (redirected to `a`, or to the `rotate` of `a`, which no GET serves), `.` (redirected
to the list) and one that names nothing. `MaxMsgs` is 3 (a message before, one in
progress, one waiting) and `MaxLate` 1 (a client has no reason to leave more than one).

The launches of the server's binary vary the command line on one host (up to two flags or
words after the subcommand, every flag in its three forms), the environment and the
configuration file with one command line, and `my.cnf` (four lines of eight kinds): the code
reads them one after the other, so that a combination of all three shows nothing new. In
`host` two deployments are what an overlap takes, and one handler what keeps a server from
ending; the theorems cover any number. `max_restarts` is a choice (`AgainOrNot`), not a
count. The first three times of `Listing` are within one second and their texts are in the
reverse order; `MaxEntries` is one more than the limit of the list.

**Fairness** (`server_faults`, no symmetry). Goroutines are scheduled and every call returns,
by an answer or an error, so that a request that can go on does (`WF` of `Run`). A
`sync.Mutex` hands itself over to a waiter that has starved for one millisecond, so that a
request for which the mutex is free again and again gets it (`SF` of `LockCreate` and
`LockName`). New requests need not arrive, and crashes are not part of this run: a crash
ends every request at once.

In `mcp` the process and its HTTP client are scheduled, and the client's timeout of 30 s
ends a call (`WF` of `GiveUp`). Nothing is assumed of the
HTTP server, which may never answer. The agent need not send anything, but it goes on reading
stdout until it closes it: on a full pipe that nobody reads the MCP server would wait for ever.

In `host` the server's `main` is scheduled, opening a part returns, and the timer of
`Shutdown` fires (`WF` of `Progress`); pm2 starts an app that is to be started and sees that
a process has ended; a command of a deployment ends. `pm2 stop` ends when the process has, and
that is what `DeploymentsEnd` is about. There is no fairness for handlers, which may hang, for
pm2's `KillTimeout`, or for anything that fails.

### Where the code and its documentation part

Two runs end in a violation. `shared_database` ends in a violation: `ProjectIdentifiers` maps `-` to `_`, the valid names
`a-b` and `a_b` get the same database and accounts, and deleting one project drops the
other's database without any fault, although the repository's README.md:20 promises each project a database
of its own.

`redirected_delete` ends in a violation of `DeleteResultIsTrue`. `dbi` and the MCP server put
a name into the path without escaping it (cmd/dbi/main.go:243,293,329, cmd/mcp/main.go:316).
With `/a` the path is `/v1/databases//a`, which the `ServeMux` redirects, and the client follows
with a GET. `database_delete` of `/a` returns the status of `a` as its result, without an
error, although main.go:241 says that it drops the database; nothing was deleted. In the same
way `dbi delete /a --confirm a` prints "Deleted" and exits with code 0, and `dbi status .`
prints an answer that is about no project. A redirected call never
changes anything. `ExitZeroIsTrue` and `ResultIsTrue` are about names that are not redirected.

While the model was written, the following came up as well. The properties
above are stated so that they hold with these limits.

- `Rotate` "updates MySQL and the secret file atomically" (service.go:175), but a file write
  that fails leaves the accounts with the new and the file with the old password, and the
  row ready. `RotatedIsInSync`: the next successful rotation repairs it.
- `EnsureUser` keeps the password of an account that exists (provisioner.go:89). After a
  `Delete` whose `DROP USER` failed, the next `Create` reports a project as ready whose file
  has a password no account accepts. `CreatedIsUsable` says nothing of the passwords of these
  names (`leaked`), and `Usable` asks of no name whether its password is accepted.
- A `Delete` that goes on after a failure reports it in its answer and in its audit entry, but
  both come after the row was removed (service.go:253-259). If the process is killed in between,
  or the client is gone, the database or the account has neither a row nor an entry, and nobody
  was told. `NoOrphans` exempts these names with all other leftovers of a `Delete`: it says that
  there is no other way to an orphan.
- Names are trimmed by the handlers (handlers.go:125,152,191,212): `dbi create " a"` creates
  `a`. `--confirm` is compared with the trimmed name, and not trimmed itself.
- Audit entries are written with the request's context and their errors dropped: a client
  that disconnects takes the entry of its change along, although README.md:22 says that
  every operation is recorded; a `Create` refused because of an earlier failure
  (service.go:98) and lookups that fail leave no entry in any case.
- Names of 28 to 63 characters are valid (name.go:10) but their user name, with `_user`
  appended, is longer than the 32 characters of MySQL: no `Create` of such a name succeeds.
- The handlers choose `SECRET_WRITE_ERROR` and `MYSQL_ERROR` by words in the error's text
  (handlers.go:161). The errors of `secrets.Write` do not have the word "secret", nor those of
  `FLUSH PRIVILEGES` one of the MySQL words: both are answered `INTERNAL_ERROR`.
- `RevokeToken` does not look at the number of rows (store.go:303): revoking a mistyped id is
  reported as done.
- `dbi list --json` is an error and `dbi status a --json` prints text, while main.go:36 says
  that `--json` comes after the subcommand.
- The MCP server answers every notification but `notifications/initialized`, without an id
  (main.go:194). Its `database_delete` does not escape the name, so that `a?` with the confirmation
  `a` deletes `a` although both must "match exactly" (main.go:243). A response body that
  breaks off is returned as a result (main.go:351).
- `validate` asks for `storage.path` and `secrets.dir`, but after `expandPaths`, which makes a
  directory of an empty path: the checks never fail (config.go:167), and what fails is the
  start, when the directory is opened as a file. An empty YAML `addr` is refused although
  `--addr` is given; a `shutdown_timeout` of 0 or less is accepted and expires at once.
  A configuration file that does not exist is as good as an empty one, also when `--config`
  names it. Quotes in `my.cnf` are part of the value.
- Of several `--config`, the server takes the last and the other commands the first, and
  only the server knows `-config`: `token create` and `token revoke` refuse it with exit
  code 2, `token list` ignores it. `token --config x` alone panics (main.go:209).
  `OneStoreForAll` is about lines as the usage has them.
- A shutdown that times out ends with exit code 1 while handlers go on: their changes may
  lose their records. pm2's `kill_timeout` is as long as the server's own timeout, and may
  come first.
- The binary is not replaced atomically (README.md:263, deploy-aliyun.sh:91): `install`
  removes the old file and writes a new one, and a start in between fails. The certificate is
  renewed after the health check, not before it (README.md:263). A failed health check undoes
  nothing: the new build stays installed.
- Two deployments copy to the same file, so that one may install the build of the other
  although it has checked its own: `InstalledAsVerified`, `CanGoBack` and `DeployedIsServed`
  are about deployments that do not overlap.
- A server that needs longer than `min_uptime` to fail is restarted for ever.
- The default `my.cnf`, `/root/.my.cnf` (install.sh:55), cannot be read by the user
  `db-isolation`, whom README.md:46 has the server run as.
- `ListProjects` returns "all projects ordered by creation time" (store.go:188), but RFC3339Nano
  drops trailing zeros and `5.1Z` sorts before `5Z`: within a second the order is another one.
  The answer shows whole seconds, which are in order (`ListedInOrder`). `ListTokens` sorts by
  the same text.

## What is proved

`ProvisionTheorems` holds for every set of names, identifiers, requests and passwords and
every combination of faults; the only assumptions are `ProvisionAssumption` (the constants
have their types) and, for the second group, `Injective` (no two names share an
identifier), without which those properties are false, as `shared_database` shows.

For any identifiers, from `ControlInv`: `TypeOK`, `MutualExclusion`, `InsertIsFresh` and
`ImplementsLifecycle`. With `Injective`, from `IInv`: `NoOrphans`, `CreatedIsUsable`,
`RotatedIsInSync`, `DeletedIsGone` and the action property `Undisturbed`.

The argument. Mutual exclusion is not inductive by itself: `LockFor(p)` says that a request
between the mutexes, or about to report success, *holds* the mutex of its name, so that two
of them on one name would be the same holder. `RowFor(p)` says what each program point
knows of the row (there is none before the `INSERT`, it is pending until the project is
completed or marked): it survives the steps of others because they are on other names.
`ResourceFor(p)` says what each program point knows of the database, the accounts, the
grants and the secret, host by host, and `OrphanFor(n)` that a name without a row and
of which no `Delete` has left something has nothing: this is what Create starts from, and why a fresh
project gets the password it was given. Both survive the steps of others because these are
on other identifiers. `leaked` is the case in which `CREATE USER IF NOT EXISTS` finds an
account.

The proofs follow that. `ProvisionProofs` first describes the building blocks (a jump to the
next label, a call that may fail, an SQL statement) by their effect on single fields, and then
has one lemma per action: `Preserved(p)` says what the step keeps of what
`p` itself relies on, and `Frame(p)` what the other requests can see of it.
`ProvisionTheorems` combines them: `p` is covered by `Preserved`, the others by `Frame`,
a crash by the fact that idle requests claim nothing.

Two properties hold for some of the faults only, and their theorems say for which. While no
client gives up and the metadata can be read and written (`Attended`), `ChangesAreAudited`
holds whatever MySQL, the secret files and a crash do: `ReliableInv` is an invariant of the
fields of one request (nothing has been changed before the row was looked up, and what was
changed is logged before the request ends). If the process does not crash either and
`Injective` holds, so does `ReadyIsUsable`: `ReadyInv` says that a project listed as ready
has its resources or is being deleted by the request that holds its mutex. A failed `Rotate`
leaves its passwords out of step but takes none away, and a failed `Delete` removes the row in
the end, so that there is nothing for the next request to find half-deleted.

`ProvisionAtomicity` proves the refinement: with `Injective` and without faults
(`Faults = {}`: that is when clients observe what `AtomicService` says), `Spec` implies
`ImplementsAtomicService` for any number of names, requests and passwords. `SmoothInv` adds to
the invariants above what holds only while no call fails: no reply is an error or known before
the end, a row is ready or pending because a request is creating it, and the secret file is
the last resource that a `Delete` removes. With it every action is a step of `AtomicService` or
a stutter: a `Create` takes effect with the update of its row, a `Rotate` and a `Delete` with
the secret file, and a request that finds no project, or one that exists already, with its
lookup. `NoError` turns each call that might fail into its effect; after that there are one
lemma per group of actions for the invariant and one for the refinement.

`SecretProofs` holds, for the secret files, for every set of passwords and faults: `NeverTorn`,
`TempIsGone`, `WrittenIsDurable` and the refinement of `AtomicFile`. Its invariant `IInv` says what each
system call relies on: the temporary file is complete from `WriteTemp` on and synced from
`Sync` on, success is set by the rename and not before, and after the sync of the directory
the disk has the new file and no other. A step of the refinement proof is a stutter of
`AtomicFile` except for the rename, the sync of the directory, the unlink and the first error.

It also proves `EveryClassPresent` of `RandomPassword`, for every length from 8 on and all random
bytes: the positions the loop has passed are distinct and exactly the marked ones, so that a
replacement is none of them and no later assignment overwrites a class.

`AccessProofs` proves `RevokedIsDenied` and `DeniedLeavesNoUse` for any
number of tokens, requests and commands, from an invariant that ties the history to the table: a
revocation that was reported is stored, and a request that began after it has not passed its
lookup.

`HostProofs` holds for any number of handlers and deployments. `HostImplementsServing` is a
step-by-step refinement: what pm2 and a deployment do to the process is a step of `Serving`
or none. With the invariant of `Serving` (the parts that are open are a prefix of the order in
which they are opened, all of them while the server serves; nothing is lost on the way to
exit code 0) it gives `CleanExitLosesNothing` and `ChangesFindTheStoreOpen` on any host.
`InstalledAsVerified`, `CanGoBack` and `DeployedIsServed` follow from an invariant that says
what each command of the last deployment, if no other one has overlapped it, can rely on:
the files as the commands before have left them and, once the old process was told to stop, that
a process which serves is one that was started from the installed file.

`HandlersProofs` proves `BlameIsRight` and `NamesAreSafe` for all names and any directory. For
`Listing` it proves `ListedInOrder` for any projects and times, because the texts of two
different seconds are ordered as the seconds are; and `AuditIsNewestFirst` for any number of
writers and any limit from `SinceInv`: an entry is stored after those which were there when its
time was taken.

`CommandProofs` is about the programs that are run by hand or by an agent. Its assumptions are
those of the modules, which say what the constants are: sequences of words (`DbiAssumption`),
messages, of which a notification has no id (`McpAssumption`), names and where their paths lead,
of which only the valid ones are known to lead to themselves (`CallsAssumption`), and launches with a line, an
environment and decoded files (`MainAssumption`). There is no bound on how many there are or on
how long they are.

- `Dbi`: `ExitZeroIsTrue` and `DeleteIsConfirmed` follow from `DbiInv`: the call is the one the
  line asks for, and nothing is printed before an answer that says that all is well. If the
  call is not redirected, such an answer comes from the handler that was meant
  (`StraightIsDone`). `DeleteIsConfirmed` says that a project is deleted only if its name stands
  after `--confirm`, not that the line names it a second time: `delete a? --confirm a` deletes
  `a`, and `delete a --confirm b` is sent, and refused by the server.
  `RunsTheCommand` is a statement about the scan of the line: on a line as the usage has it, with
  any number of global flags, every flag that wants a word takes the one after it, and the first
  word which none has taken is the command (`TakenFollow`, `UsualLine`).
- `Mcp`: `AnswersMatch`, `CleanEnd` and `ResultIsTrue` follow from `McpInv`: the requests that are
  answered are those among the messages that the server has dealt with, in their order, and the
  call under way is that of the message it is busy with. `ResultIsTrue` is about calls that are
  not redirected.
- `Main`: `OneStoreForAll` and `ServesAsConfigured` follow from `MainInv`: from the configuration
  on, the settings of a process are those that the chosen file, the environment and the flag give,
  and from the connection on its credentials are those that the settings lead to. For the
  first, the flag package and the search of the other commands find the same word on a usual line
  of any length (`FlagPathOf`, `ConfigPathOf`). For the second, `StrongestSays` and `LoadSays`
  show that the sequence of overrides in `Load` leaves what the strongest source says, and
  `MycnfSays` that `LoadMycnf` has of every key what its last line in a `[client]` section says.
  An induction over the lines is not available, so the proof takes the least line after which the
  state would be wrong (`LeastOf`) and shows that there is none; the recursive function has a
  value by the same argument (`ReadingExists`).

Every invariant and every action property that the passing runs check is a theorem. Only
model-checked are the liveness properties, which are out of the prover's reach:
`EveryRequestEnds`, `EveryRequestAnswered` and `DeploymentsEnd`.

## What is not modelled

A cancelled DDL statement that takes effect in MySQL only after its request has ended. Power
failures outside the secret files, after which SQLite may have lost what was answered. What
audit entries say, beyond when they were written. `health`, the access log and what a token
list shows only read. The JSON of requests and responses, the layout of what `dbi` prints, the
schema of the store. `Provisioner.New` beyond its success and `VerifyProjectIsolation` (a helper
of the integration tests) change nothing the service relies on. The renewal of the certificate
in `ci-deploy.sh` is best effort and does not concern the server. `install.sh`,
`deploy-aliyun.sh` and `smoke-pm2.sh` are linear scripts that an operator runs once.

## What could come next

Late effects of cancelled statements in `MySQL`, as a set of statements in flight; with it,
the faults of `server_faults` beside disconnecting clients. A theorem that a run with faults
implements a weaker abstract service, in which a request that fails may leave its effect.
