--------------------------- MODULE DuckDBMetadata ---------------------------
(***************************************************************************)
(* Metadata, the DuckDB data source that all requests share                *)
(* (internal/connector/duckdb/metadata.go), with the handlers that change  *)
(* its init and session SQL or query it (internal/server/duckdb_handler.go)*)
(* and the sync.RWMutex between them.  A request runs with the context of  *)
(* its connection, which is cancelled when the client goes away.           *)
(*                                                                         *)
(* A database is the sequence of the statements it has run.  A statement   *)
(* creates something: it runs once, after those it depends on.             *)
(***************************************************************************)
EXTENDS Integers, Sequences

CONSTANTS
  Client,
  Nobody,       \* no client
  Statement,
  Needs,        \* the statements that each statement depends on
  Scripts,      \* the SQL that requests send
  Disconnects,  \* whether clients may go away
  MaxSQL        \* bound: the statements of a setting

ASSUME MetadataAssumption ==
  /\ Nobody \notin Client
  /\ Needs \in [Statement -> SUBSET Statement]
  /\ Scripts \subseteq Seq(Statement) /\ Scripts # {}
  /\ Disconnects \in BOOLEAN /\ MaxSQL \in Nat

VARIABLES
  initSQL, sessionSQL,
  ran,        \* what the database of the current pool has run
  unrestored, \* the pool was opened by a rollback that stopped half way
  writer,     \* the client that holds or awaits the write lock, or Nobody
  readers,    \* those that hold the read lock
  call,       \* per client, the local state of its handler
  answer      \* how the last request that changes a setting was answered

lock == <<writer, readers>>
settings == <<initSQL, sessionSQL>>
database == <<ran, unrestored>>
metadataVars == <<settings, database, lock, call, answer>>

Setting == {"setInit", "appendInit", "setSession", "appendSession"}

\* todo is what ExecContext has still to run, and prev what Set had replaced.
Call == [at : {"idle", "RLock", "blocked", "query", "Lock", "locking", "begin", "exec", "restore"},
         op : {"query"} \cup Setting, sql : Scripts, todo : Seq(Statement),
         prev : Seq(Statement), cancelled : BOOLEAN]

Idle == [at |-> "idle", op |-> "query", sql |-> CHOOSE s \in Scripts : TRUE,
         todo |-> <<>>, prev |-> <<>>, cancelled |-> FALSE]

At(c, p) == call[c].at = p

Goto(c, p) == call' = [call EXCEPT ![c].at = p]

\* Whether DuckDB can run a statement now.
Ran == {ran[i] : i \in DOMAIN ran}
Runs(s) == s \notin Ran /\ Needs[s] \subseteq Ran

MetadataInit ==
  /\ initSQL = <<>> /\ sessionSQL = <<>>
  /\ ran = <<>> /\ unrestored = FALSE
  /\ writer = Nobody /\ readers = {}
  /\ call = [c \in Client |-> Idle]
  /\ answer = "none"

-----------------------------------------------------------------------------
\* A setting that would grow beyond the bound is not appended to.
WithinBound(op, sql) ==
  /\ op = "appendInit" => sql # <<>> /\ Len(initSQL) + Len(sql) <= MaxSQL
  /\ op = "appendSession" => sql # <<>> /\ Len(sessionSQL) + Len(sql) <= MaxSQL

Arrive(c) ==
  /\ At(c, "idle")
  /\ \E op \in {"query"} \cup Setting, sql \in Scripts :
       /\ WithinBound(op, sql)
       /\ call' = [call EXCEPT ![c] = [Idle EXCEPT
             !.at = IF op = "query" THEN "RLock" ELSE "Lock", !.op = op, !.sql = sql]]
  /\ UNCHANGED <<settings, database, lock, answer>>

\* The client goes away: what runs with its context from now on fails.
Disconnect(c) ==
  /\ Disconnects /\ ~At(c, "idle") /\ ~call[c].cancelled
  /\ call' = [call EXCEPT ![c].cancelled = TRUE]
  /\ UNCHANGED <<settings, database, lock, answer>>

-----------------------------------------------------------------------------
(* sync.RWMutex: one writer at a time announces itself, which blocks the   *)
(* readers that come later, and waits for those before it; when it unlocks *)
(* all the blocked readers go in before the next writer.                   *)

\* Mutant: readers go in although a writer waits.
RLockAlways(c) ==
  /\ At(c, "RLock")
  /\ IF writer # Nobody /\ ~(At(writer, "locking"))
       THEN Goto(c, "blocked") /\ UNCHANGED readers
       ELSE Goto(c, "query") /\ readers' = readers \cup {c}
  /\ UNCHANGED <<settings, database, writer, answer>>

RLock(c) ==
  /\ At(c, "RLock")
  /\ IF writer # Nobody
       THEN Goto(c, "blocked") /\ UNCHANGED readers
       ELSE Goto(c, "query") /\ readers' = readers \cup {c}
  /\ UNCHANGED <<settings, database, writer, answer>>

Announce(c) ==
  /\ At(c, "Lock") /\ writer = Nobody
  /\ writer' = c
  /\ Goto(c, "locking")
  /\ UNCHANGED <<settings, database, readers, answer>>

\* Mutant: the writer does not wait for the readers.
LockAtOnce(c) ==
  /\ At(c, "locking")
  /\ Goto(c, "begin")
  /\ UNCHANGED <<settings, database, lock, answer>>

Lock(c) ==
  /\ At(c, "locking") /\ readers = {}
  /\ Goto(c, "begin")
  /\ UNCHANGED <<settings, database, lock, answer>>

Blocked == {r \in Client : At(r, "blocked")}

\* The writer is answered; its deferred Unlock lets the blocked readers in.
Unlock(c, a) ==
  /\ answer' = a
  /\ writer' = Nobody
  /\ readers' = readers \cup Blocked
  /\ call' = [r \in Client |-> IF r = c THEN Idle
                               ELSE IF r \in Blocked THEN [call[r] EXCEPT !.at = "query"]
                               ELSE call[r]]

-----------------------------------------------------------------------------
\* DirectQuery, under the read lock: any SQL, so it may create something too.
Query(c) ==
  /\ At(c, "query")
  /\ readers' = readers \ {c}
  /\ call' = [call EXCEPT ![c] = Idle]
  /\ ran' \in {ran} \cup {Append(ran, s) : s \in {t \in Statement : Runs(t) /\ ~call[c].cancelled}}
  /\ UNCHANGED <<settings, unrestored, writer, answer>>

\* SetInitSQL closes the pool and opens another before it runs the script.
BeginSetInit(c) ==
  /\ At(c, "begin") /\ call[c].op = "setInit"
  /\ initSQL' = call[c].sql
  /\ ran' = <<>> /\ unrestored' = FALSE
  /\ call' = [call EXCEPT ![c].at = "exec", ![c].prev = initSQL, ![c].todo = call[c].sql]
  /\ UNCHANGED <<sessionSQL, lock, answer>>

\* SetSessionSQL keeps the pool, with what the old script did to it.
BeginSetSession(c) ==
  /\ At(c, "begin") /\ call[c].op = "setSession"
  /\ sessionSQL' = call[c].sql
  /\ call' = [call EXCEPT ![c].at = "exec", ![c].prev = sessionSQL, ![c].todo = call[c].sql]
  /\ UNCHANGED <<initSQL, database, lock, answer>>

\* AppendInitSQL and AppendSessionSQL run the fragment first.
BeginAppend(c) ==
  /\ At(c, "begin") /\ call[c].op \in {"appendInit", "appendSession"}
  /\ call' = [call EXCEPT ![c].at = "exec", ![c].todo = call[c].sql]
  /\ UNCHANGED <<settings, database, lock, answer>>

\* ExecContext runs one statement after the other, each committed by itself.
Exec(c) ==
  /\ At(c, "exec") \/ At(c, "restore")
  /\ call[c].todo # <<>> /\ ~call[c].cancelled /\ Runs(Head(call[c].todo))
  /\ ran' = Append(ran, Head(call[c].todo))
  /\ call' = [call EXCEPT ![c].todo = Tail(@)]
  /\ UNCHANGED <<settings, unrestored, lock, answer>>

Stopped(c) ==
  call[c].todo # <<>> /\ (call[c].cancelled \/ ~Runs(Head(call[c].todo)))

ExecDone(c) ==
  /\ At(c, "exec") /\ call[c].todo = <<>>
  /\ initSQL' = IF call[c].op = "appendInit" THEN initSQL \o call[c].sql ELSE initSQL
  /\ sessionSQL' = IF call[c].op = "appendSession" THEN sessionSQL \o call[c].sql ELSE sessionSQL
  /\ Unlock(c, "ok")
  /\ UNCHANGED database

\* SetInitSQL rolls back: another pool, on which it runs the previous script,
\* with the same context.
ExecFailsSetInit(c) ==
  /\ At(c, "exec") /\ Stopped(c) /\ call[c].op = "setInit"
  /\ initSQL' = call[c].prev
  /\ ran' = <<>>
  /\ call' = [call EXCEPT ![c].at = "restore", ![c].todo = call[c].prev]
  /\ UNCHANGED <<sessionSQL, unrestored, lock, answer>>

\* Mutant: SetSessionSQL keeps the script that failed.
FailedSessionKept(c) ==
  /\ At(c, "exec") /\ Stopped(c) /\ call[c].op # "setInit"
  /\ Unlock(c, "error")
  /\ UNCHANGED <<settings, database>>

\* Mutant: a fragment is recorded although it failed.
FailedAppendRecorded(c) ==
  /\ At(c, "exec") /\ Stopped(c) /\ call[c].op # "setInit"
  /\ initSQL' = IF call[c].op = "appendInit" THEN initSQL \o call[c].sql ELSE initSQL
  /\ sessionSQL' = IF call[c].op = "setSession" THEN call[c].prev ELSE sessionSQL
  /\ Unlock(c, "error")
  /\ UNCHANGED database

\* The others keep what ran before the failure; SetSessionSQL restores the setting.
ExecFails(c) ==
  /\ At(c, "exec") /\ Stopped(c) /\ call[c].op # "setInit"
  /\ sessionSQL' = IF call[c].op = "setSession" THEN call[c].prev ELSE sessionSQL
  /\ Unlock(c, "error")
  /\ UNCHANGED <<initSQL, database>>

\* The error of the previous script's execution is dropped.
RestoreDone(c) ==
  /\ At(c, "restore") /\ (call[c].todo = <<>> \/ Stopped(c))
  /\ unrestored' = (call[c].todo # <<>>)
  /\ Unlock(c, "error")
  /\ UNCHANGED <<settings, ran>>

-----------------------------------------------------------------------------
HandlerStep(c) ==
  \/ RLock(c) \/ Query(c)
  \/ Announce(c) \/ Lock(c)
  \/ BeginSetInit(c) \/ BeginSetSession(c) \/ BeginAppend(c)
  \/ Exec(c) \/ ExecDone(c) \/ ExecFailsSetInit(c) \/ ExecFails(c) \/ RestoreDone(c)

MetadataNext == \E c \in Client : Arrive(c) \/ Disconnect(c) \/ HandlerStep(c)

\* Goroutines are scheduled, statements end, and the mutex between writers
\* does not starve any of them.  Requests arrive without end, or not at all.
MetadataSpec ==
  /\ MetadataInit /\ [][MetadataNext]_metadataVars
  /\ \A c \in Client : WF_metadataVars(HandlerStep(c)) /\ SF_metadataVars(Announce(c))

-----------------------------------------------------------------------------
MetadataTypeOK ==
  /\ initSQL \in Seq(Statement) /\ sessionSQL \in Seq(Statement)
  /\ ran \in Seq(Statement) /\ unrestored \in BOOLEAN
  /\ writer \in Client \cup {Nobody} /\ readers \subseteq Client
  /\ call \in [Client -> Call] /\ answer \in {"none", "ok", "error"}

\* The lock: writer is the one that announced itself, alone once it is inside.
LockInv ==
  /\ readers = {c \in Client : At(c, "query")}
  /\ \A c \in Client : call[c].at \in {"locking", "begin", "exec", "restore"} <=> writer = c
  /\ \A c \in Client : call[c].at \in {"begin", "exec", "restore"} => readers = {}
  /\ Blocked # {} => writer # Nobody

\* A script was executed among the first n statements of a database r: its
\* statements ran there in their order.
ExecutedBy(r, script, n) ==
  \E f \in [DOMAIN script -> 1 .. n] :
    /\ \A i \in DOMAIN script : r[f[i]] = script[i]
    /\ \A i, j \in DOMAIN script : i < j => f[i] < f[j]

Executed(script) == ExecutedBy(ran, script, Len(ran))

\* After its first n statements the database r has run a script but for todo.
Underway(r, script, todo, n) ==
  /\ n <= Len(r) /\ Len(r) + Len(todo) = n + Len(script)
  /\ \A i \in n + 1 .. Len(r) : r[i] = script[i - n]
  /\ \A i \in 1 .. Len(todo) : todo[i] = script[Len(r) - n + i]

\* A PUT of the init SQL, or its rollback, runs it on an empty database; a PATCH
\* runs its fragment on one that has the init SQL.
Loading(c) == At(c, "restore") \/ (At(c, "exec") /\ call[c].op = "setInit")

Appending(c) == At(c, "exec") /\ call[c].op = "appendInit"

InitInv ==
  /\ \A c \in Client : Loading(c) => ~unrestored /\ Underway(ran, initSQL, call[c].todo, 0)
  /\ \A c \in Client : Appending(c) =>
       \/ unrestored
       \/ \E n \in 0 .. Len(ran) : /\ Underway(ran, call[c].sql, call[c].todo, n)
                                   /\ ExecutedBy(ran, initSQL, n)
  /\ (\A c \in Client : ~Loading(c)) => unrestored \/ Executed(initSQL)

\* Nobody queries a database that is being set up, nobody is left blocked, and
\* a script under way will complete what the settings will show.
MetadataInv == MetadataTypeOK /\ LockInv /\ InitInv

\* What readers of the lock may see: no writer is between Lock and Unlock.
Visible == writer = Nobody \/ readers # {}

(***************************************************************************)
(* "The init SQL is executed against a freshly-opened pool": whoever can   *)
(* query finds that the init SQL the settings show has run, whatever       *)
(* failed before, unless a rollback stopped half way.                      *)
(***************************************************************************)
InitExecuted == Visible => unrestored \/ Executed(initSQL)

\* No request, query or setting, waits forever, however many others come.
RequestsServed == \A c \in Client : ~At(c, "idle") ~> At(c, "idle")

\* While a Set runs, nobody sees its script: it may still be rolled back.
Setter(op) == {c \in Client : At(c, "exec") /\ call[c].op = op}

Replaced(op, current) ==
  IF Setter(op) = {} THEN current ELSE call[CHOOSE c \in Setter(op) : TRUE].prev

Settings == INSTANCE ScriptStore WITH
  init <- Replaced("setInit", initSQL), session <- Replaced("setSession", sessionSQL)

\* A request that fails half way leaves both settings as they were.
ImplementsScripts == Settings!ScriptSpec

-----------------------------------------------------------------------------
(* What a comment of metadata.go says.                                     *)

\* SetInitSQL: "Roll back to previous state on failure".
RollbackRestores == ~unrestored
=============================================================================
