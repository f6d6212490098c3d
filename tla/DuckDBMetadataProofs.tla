------------------------ MODULE DuckDBMetadataProofs ------------------------
(***************************************************************************)
(* MetadataInv is an invariant of MetadataSpec, for any number of clients  *)
(* and any scripts; InitExecuted follows from it, and that MetadataSpec    *)
(* implements ScriptStore.                                                 *)
(***************************************************************************)
EXTENDS DuckDBMetadata, TLAPS

-----------------------------------------------------------------------------
(* What running one statement after the other does to a database.          *)

\* What was executed stays executed when a database runs more.
LEMMA ExecutedByMore ==
  ASSUME NEW r \in Seq(Statement), NEW q \in Seq(Statement), NEW script \in Seq(Statement),
         NEW n \in Nat, NEW m \in Nat, n <= m,
         \A i \in 1 .. n : q[i] = r[i],
         ExecutedBy(r, script, n)
  PROVE  ExecutedBy(q, script, m)
<1>1. PICK f \in [DOMAIN script -> 1 .. n] :
        /\ \A i \in DOMAIN script : r[f[i]] = script[i]
        /\ \A i, j \in DOMAIN script : i < j => f[i] < f[j]
  BY DEF ExecutedBy
<1>2. f \in [DOMAIN script -> 1 .. m]
  OBVIOUS
<1>3. \A i \in DOMAIN script : q[f[i]] = script[i]
  BY <1>1
<1> QED BY <1>1, <1>2, <1>3 DEF ExecutedBy

\* A script that has not begun is under way.
LEMMA UnderwayBegins ==
  ASSUME NEW r \in Seq(Statement), NEW script \in Seq(Statement)
  PROVE  Underway(r, script, script, Len(r))
  BY DEF Underway

\* Running its next statement keeps a script under way.
LEMMA UnderwayStep ==
  ASSUME NEW r \in Seq(Statement), NEW script \in Seq(Statement),
         NEW todo \in Seq(Statement), NEW n \in Nat,
         todo # <<>>, Underway(r, script, todo, n)
  PROVE  Underway(Append(r, Head(todo)), script, Tail(todo), n)
<1> DEFINE q == Append(r, Head(todo))
<1>1. Len(q) = Len(r) + 1 /\ \A i \in 1 .. Len(r) : q[i] = r[i]
  OBVIOUS
<1>2. Len(Tail(todo)) = Len(todo) - 1 /\ \A i \in 1 .. Len(todo) - 1 : Tail(todo)[i] = todo[i + 1]
  OBVIOUS
<1>3. q[Len(r) + 1] = todo[1] /\ Len(todo) >= 1
  OBVIOUS
<1>4. todo[1] = script[Len(r) - n + 1]
  <2>1. n <= Len(r) /\ Len(r) + Len(todo) = n + Len(script)
    BY DEF Underway
  <2>2. 1 \in DOMAIN todo /\ Len(r) - n + 1 \in DOMAIN script
    BY <1>3, <2>1
  <2> QED BY <2>1, <2>2 DEF Underway
<1>5. n <= Len(q) /\ Len(q) + Len(Tail(todo)) = n + Len(script)
  BY <1>1, <1>2 DEF Underway
<1>6. \A i \in n + 1 .. Len(q) : q[i] = script[i - n]
  <2> TAKE i \in n + 1 .. Len(q)
  <2>1. CASE i = Len(r) + 1
    <3>1. i - n = Len(r) - n + 1
      BY <2>1
    <3> QED BY <2>1, <3>1, <1>3, <1>4
  <2>2. CASE i # Len(r) + 1
    <3>1. i \in n + 1 .. Len(r) /\ i \in 1 .. Len(r)
      BY <2>2, <1>1
    <3> QED BY <3>1, <1>1 DEF Underway
  <2> QED BY <2>1, <2>2
<1>7. \A i \in 1 .. Len(Tail(todo)) : Tail(todo)[i] = script[Len(q) - n + i]
  <2> TAKE i \in 1 .. Len(Tail(todo))
  <2>1. i + 1 \in 1 .. Len(todo) /\ Tail(todo)[i] = todo[i + 1]
    BY <1>2
  <2>2. todo[i + 1] = script[Len(r) - n + (i + 1)]
    BY <2>1 DEF Underway
  <2>3. Len(r) - n + (i + 1) = Len(q) - n + i
    BY <1>1
  <2> QED BY <2>1, <2>2, <2>3
<1> QED BY <1>5, <1>6, <1>7 DEF Underway

\* A script that an empty database has run to its end was executed.
LEMMA UnderwayEnds ==
  ASSUME NEW r \in Seq(Statement), NEW script \in Seq(Statement),
         Underway(r, script, <<>>, 0)
  PROVE  ExecutedBy(r, script, Len(r))
<1> DEFINE f == [i \in DOMAIN script |-> i]
<1>1. Len(r) = Len(script) /\ \A i \in 1 .. Len(r) : r[i] = script[i]
  BY DEF Underway
<1>2. f \in [DOMAIN script -> 1 .. Len(r)]
  BY <1>1
<1>3. \A i \in DOMAIN script : r[f[i]] = script[i]
  BY <1>1
<1>4. \A i, j \in DOMAIN script : i < j => f[i] < f[j]
  OBVIOUS
<1> QED BY <1>2, <1>3, <1>4 DEF ExecutedBy

\* So was a fragment run after the script that it is appended to.
LEMMA AppendEnds ==
  ASSUME NEW r \in Seq(Statement), NEW script \in Seq(Statement),
         NEW sql \in Seq(Statement), NEW n \in Nat,
         Underway(r, sql, <<>>, n), ExecutedBy(r, script, n)
  PROVE  ExecutedBy(r, script \o sql, Len(r))
<1> DEFINE s == script \o sql
           k == Len(script)
<1>1. n <= Len(r) /\ Len(r) = n + Len(sql) /\ \A i \in n + 1 .. Len(r) : r[i] = sql[i - n]
  BY DEF Underway
<1>2. PICK f \in [DOMAIN script -> 1 .. n] :
        /\ \A i \in DOMAIN script : r[f[i]] = script[i]
        /\ \A i, j \in DOMAIN script : i < j => f[i] < f[j]
  BY DEF ExecutedBy
<1> DEFINE g == [i \in DOMAIN s |-> IF i <= k THEN f[i] ELSE n + (i - k)]
<1>3. /\ DOMAIN s = 1 .. k + Len(sql) /\ DOMAIN script = 1 .. k
      /\ \A i \in 1 .. k : s[i] = script[i]
      /\ \A i \in k + 1 .. k + Len(sql) : s[i] = sql[i - k]
  OBVIOUS
<1>4. \A i \in 1 .. k : f[i] \in 1 .. n
  BY <1>2, <1>3
<1> HIDE DEF s
<1>5. \A i \in DOMAIN s : g[i] \in 1 .. Len(r)
  BY <1>1, <1>3, <1>4
<1>6. \A i \in DOMAIN s : r[g[i]] = s[i]
  <2> TAKE i \in DOMAIN s
  <2>1. CASE i <= k
    <3>1. i \in 1 .. k /\ g[i] = f[i]
      BY <2>1, <1>3
    <3> QED BY <3>1, <1>2, <1>3
  <2>2. CASE ~(i <= k)
    <3>1. i \in k + 1 .. k + Len(sql) /\ g[i] = n + (i - k)
      BY <2>2, <1>3
    <3>2. n + (i - k) \in n + 1 .. Len(r) /\ (n + (i - k)) - n = i - k
      BY <3>1, <1>1
    <3> QED BY <3>1, <3>2, <1>1, <1>3
  <2> QED BY <2>1, <2>2
<1>7. \A i, j \in DOMAIN s : i < j => g[i] < g[j]
  <2> SUFFICES ASSUME NEW i \in DOMAIN s, NEW j \in DOMAIN s, i < j
               PROVE  g[i] < g[j]
    OBVIOUS
  <2>1. CASE j <= k
    <3>1. i \in 1 .. k /\ j \in 1 .. k /\ g[i] = f[i] /\ g[j] = f[j]
      BY <2>1, <1>3
    <3> QED BY <3>1, <1>2, <1>3
  <2>2. CASE i <= k /\ ~(j <= k)
    <3>1. i \in 1 .. k /\ g[i] = f[i] /\ g[j] = n + (j - k) /\ j - k > 0
      BY <2>2, <1>3
    <3> QED BY <3>1, <1>3, <1>4
  <2>3. CASE ~(i <= k)
    BY <2>3, <1>3
  <2> QED BY <2>1, <2>2, <2>3, <1>3
<1>8. g \in [DOMAIN s -> 1 .. Len(r)]
  BY <1>5
<1>9. ExecutedBy(r, s, Len(r))
  BY <1>6, <1>7, <1>8 DEF ExecutedBy
<1> QED BY <1>9 DEF s

-----------------------------------------------------------------------------
(* The types and the lock.                                                 *)

LEMMA IdleType == Idle \in Call
<1>1. (CHOOSE s \in Scripts : TRUE) \in Scripts
  BY MetadataAssumption
<1> QED BY <1>1 DEF Idle, Call

LEMMA InitHolds == MetadataInit => MetadataInv
<1> SUFFICES ASSUME MetadataInit
             PROVE  MetadataInv
  OBVIOUS
<1> USE DEF MetadataInit
<1>1. MetadataTypeOK
  <2>1. <<>> \in Seq(Statement)
    OBVIOUS
  <2>2. call \in [Client -> Call]
    BY IdleType
  <2> QED BY <2>1, <2>2 DEF MetadataTypeOK
<1>2. \A c \in Client : call[c].at = "idle"
  BY DEF Idle
<1>3. LockInv
  BY <1>2, MetadataAssumption DEF LockInv, At, Blocked
<1>4. ExecutedBy(<<>>, <<>>, 0)
  <2>1. <<>> \in Seq(Statement)
    OBVIOUS
  <2>2. Underway(<<>>, <<>>, <<>>, 0)
    BY DEF Underway
  <2> QED BY <2>1, <2>2, UnderwayEnds
<1>5. InitInv
  BY <1>2, <1>4 DEF InitInv, Loading, Appending, At, Executed
<1> QED BY <1>1, <1>3, <1>5 DEF MetadataInv

\* Every step changes the calls in one of two ways: that of one client alone,
\* or that of one client and those that were blocked.
LEMMA TypeStep ==
  ASSUME MetadataTypeOK, [MetadataNext]_metadataVars
  PROVE  MetadataTypeOK'
<1> USE DEF MetadataTypeOK
<1>1. CASE UNCHANGED metadataVars
  BY <1>1 DEF metadataVars, settings, database, lock
<1>2. ASSUME NEW c \in Client, Arrive(c)
      PROVE  MetadataTypeOK'
  <2>1. PICK op \in {"query"} \cup Setting, sql \in Scripts :
          call' = [call EXCEPT ![c] = [Idle EXCEPT
             !.at = IF op = "query" THEN "RLock" ELSE "Lock", !.op = op, !.sql = sql]]
    BY <1>2 DEF Arrive
  <2>2. [Idle EXCEPT !.at = IF op = "query" THEN "RLock" ELSE "Lock", !.op = op, !.sql = sql] \in Call
    BY IdleType DEF Call
  <2>3. call' \in [Client -> Call]
    BY <2>1, <2>2
  <2> QED BY <1>2, <2>3 DEF Arrive, settings, database, lock
<1>3. ASSUME NEW c \in Client, Disconnect(c)
      PROVE  MetadataTypeOK'
  <2>1. call' = [call EXCEPT ![c] = [call[c] EXCEPT !.cancelled = TRUE]]
    BY <1>3 DEF Disconnect
  <2>2. [call[c] EXCEPT !.cancelled = TRUE] \in Call
    BY DEF Call
  <2>3. call' \in [Client -> Call]
    BY <2>1, <2>2
  <2> QED BY <1>3, <2>3 DEF Disconnect, settings, database, lock
<1>4. ASSUME NEW c \in Client, RLock(c) \/ Announce(c) \/ Lock(c)
      PROVE  MetadataTypeOK'
  <2>1. PICK p \in {"blocked", "query", "locking", "begin"} : call' = [call EXCEPT ![c].at = p]
    BY <1>4 DEF RLock, Announce, Lock, Goto
  <2>2. [call[c] EXCEPT !.at = p] \in Call
    BY DEF Call
  <2>3. call' \in [Client -> Call]
    BY <2>1, <2>2
  <2> QED BY <1>4, <2>3 DEF RLock, Announce, Lock, settings, database, lock
<1>5. ASSUME NEW c \in Client, Query(c)
      PROVE  MetadataTypeOK'
  <2>1. call' \in [Client -> Call]
    BY <1>5, IdleType DEF Query
  <2>2. \A s \in Statement : Append(ran, s) \in Seq(Statement)
    OBVIOUS
  <2>3. ran' \in Seq(Statement)
    BY <1>5, <2>2 DEF Query
  <2> QED BY <1>5, <2>1, <2>3 DEF Query, settings
<1>6. ASSUME NEW c \in Client, BeginSetInit(c) \/ BeginSetSession(c) \/ BeginAppend(c)
      PROVE  MetadataTypeOK'
  <2>1. call[c].sql \in Seq(Statement) /\ <<>> \in Seq(Statement)
    BY MetadataAssumption DEF Call
  <2>2. \A p \in Seq(Statement) :
          [call[c] EXCEPT !.at = "exec", !.prev = p, !.todo = call[c].sql] \in Call
    BY <2>1 DEF Call
  <2>3. [call[c] EXCEPT !.at = "exec", !.todo = call[c].sql] \in Call
    BY <2>1 DEF Call
  <2>4. CASE BeginSetInit(c)
    <3>1. call' = [call EXCEPT ![c] = [call[c] EXCEPT !.at = "exec", !.prev = initSQL,
                                                      !.todo = call[c].sql]]
      BY <2>4 DEF BeginSetInit
    <3>2. call' \in [Client -> Call]
      BY <3>1, <2>2
    <3> QED BY <2>4, <2>1, <3>2 DEF BeginSetInit, lock
  <2>5. CASE BeginSetSession(c)
    <3>1. call' = [call EXCEPT ![c] = [call[c] EXCEPT !.at = "exec", !.prev = sessionSQL,
                                                      !.todo = call[c].sql]]
      BY <2>5 DEF BeginSetSession
    <3>2. call' \in [Client -> Call]
      BY <3>1, <2>2
    <3> QED BY <2>5, <2>1, <3>2 DEF BeginSetSession, lock, database
  <2>6. CASE BeginAppend(c)
    <3>1. call' = [call EXCEPT ![c] = [call[c] EXCEPT !.at = "exec", !.todo = call[c].sql]]
      BY <2>6 DEF BeginAppend
    <3>2. call' \in [Client -> Call]
      BY <3>1, <2>3
    <3> QED BY <2>6, <3>2 DEF BeginAppend, lock, database, settings
  <2> QED BY <1>6, <2>4, <2>5, <2>6
<1>7. ASSUME NEW c \in Client, Exec(c)
      PROVE  MetadataTypeOK'
  <2>1. call[c].todo \in Seq(Statement) /\ call[c].todo # <<>>
    BY <1>7 DEF Exec, Call
  <2>2. Head(call[c].todo) \in Statement /\ Tail(call[c].todo) \in Seq(Statement)
    BY <2>1
  <2>3. call' \in [Client -> Call]
    <3>1. call' = [call EXCEPT ![c] = [call[c] EXCEPT !.todo = Tail(@)]]
      BY <1>7 DEF Exec
    <3>2. [call[c] EXCEPT !.todo = Tail(@)] \in Call
      BY <2>2 DEF Call
    <3> QED BY <3>1, <3>2
  <2> QED BY <1>7, <2>2, <2>3 DEF Exec, settings, lock
<1>8. ASSUME NEW c \in Client, NEW a, Unlock(c, a)
      PROVE  call' \in [Client -> Call] /\ readers' \subseteq Client
  <2>1. \A r \in Client : [call[r] EXCEPT !.at = "query"] \in Call
    BY DEF Call
  <2> QED BY <1>8, <2>1, IdleType DEF Unlock, Blocked
<1>9. ASSUME NEW c \in Client, ExecDone(c) \/ ExecFails(c) \/ RestoreDone(c)
      PROVE  MetadataTypeOK'
  <2>1. PICK a \in {"ok", "error"} : Unlock(c, a)
    BY <1>9 DEF ExecDone, ExecFails, RestoreDone
  <2>2. call' \in [Client -> Call] /\ readers' \subseteq Client /\ writer' = Nobody /\ answer' = a
    BY <2>1, <1>8 DEF Unlock
  <2>3. call[c].sql \in Seq(Statement) /\ call[c].prev \in Seq(Statement)
    BY MetadataAssumption DEF Call
  <2>4. initSQL' \in Seq(Statement) /\ sessionSQL' \in Seq(Statement)
    <3>1. initSQL \o call[c].sql \in Seq(Statement) /\ sessionSQL \o call[c].sql \in Seq(Statement)
      BY <2>3
    <3> QED BY <1>9, <2>3, <3>1 DEF ExecDone, ExecFails, RestoreDone, settings
  <2>5. ran' \in Seq(Statement) /\ unrestored' \in BOOLEAN
    BY <1>9 DEF ExecDone, ExecFails, RestoreDone, database
  <2> QED BY <2>2, <2>4, <2>5
<1>10. ASSUME NEW c \in Client, ExecFailsSetInit(c)
       PROVE  MetadataTypeOK'
  <2>1. call[c].prev \in Seq(Statement)
    BY DEF Call
  <2>2. call' \in [Client -> Call]
    <3>1. call' = [call EXCEPT ![c] = [call[c] EXCEPT !.at = "restore", !.todo = call[c].prev]]
      BY <1>10 DEF ExecFailsSetInit
    <3>2. [call[c] EXCEPT !.at = "restore", !.todo = call[c].prev] \in Call
      BY <2>1 DEF Call
    <3> QED BY <3>1, <3>2
  <2> QED BY <1>10, <2>1, <2>2 DEF ExecFailsSetInit, lock
<1> QED
  BY <1>1, <1>2, <1>3, <1>4, <1>5, <1>6, <1>7, <1>9, <1>10 DEF MetadataNext, HandlerStep

LEMMA LockStep ==
  ASSUME MetadataTypeOK, LockInv, [MetadataNext]_metadataVars
  PROVE  LockInv'
<1> USE DEF MetadataTypeOK, LockInv, At, Blocked
<1>1. CASE UNCHANGED metadataVars
  BY <1>1 DEF metadataVars, lock
<1>2. ASSUME NEW c \in Client, Arrive(c)
      PROVE  LockInv'
  <2>1. /\ call' = [call EXCEPT ![c] = call'[c]] /\ call'[c].at \in {"RLock", "Lock"}
        /\ call[c].at = "idle" /\ UNCHANGED <<writer, readers>>
    BY <1>2, IdleType DEF Arrive, Idle, lock, Call
  <2> QED BY <2>1
<1>3. ASSUME NEW c \in Client, Disconnect(c)
      PROVE  LockInv'
  <2>1. (\A r \in Client : call'[r].at = call[r].at) /\ UNCHANGED <<writer, readers>>
    BY <1>3 DEF Disconnect, lock, Call
  <2> QED BY <2>1
<1>4. ASSUME NEW c \in Client, RLock(c)
      PROVE  LockInv'
  <2>1. /\ \A r \in Client \ {c} : call'[r] = call[r]
        /\ call'[c].at = IF writer # Nobody THEN "blocked" ELSE "query"
    BY <1>4 DEF RLock, Goto, Call
  <2>2. CASE writer # Nobody
    BY <1>4, <2>1, <2>2, MetadataAssumption DEF RLock
  <2>3. CASE writer = Nobody
    BY <1>4, <2>1, <2>3, MetadataAssumption DEF RLock
  <2> QED BY <2>2, <2>3
<1>5. ASSUME NEW c \in Client, Announce(c)
      PROVE  LockInv'
  <2>1. (\A r \in Client \ {c} : call'[r] = call[r]) /\ call'[c].at = "locking"
    BY <1>5 DEF Announce, Goto, Call
  <2> QED BY <1>5, <2>1, MetadataAssumption DEF Announce
<1>6. ASSUME NEW c \in Client, Lock(c)
      PROVE  LockInv'
  <2>1. (\A r \in Client \ {c} : call'[r] = call[r]) /\ call'[c].at = "begin"
    BY <1>6 DEF Lock, Goto, Call
  <2> QED BY <1>6, <2>1 DEF Lock, lock
<1>7. ASSUME NEW c \in Client, Query(c)
      PROVE  LockInv'
  <2>1. (\A r \in Client \ {c} : call'[r] = call[r]) /\ call'[c].at = "idle"
    BY <1>7 DEF Query, Idle
  <2> QED BY <1>7, <2>1 DEF Query
<1>8. ASSUME NEW c \in Client,
             BeginSetInit(c) \/ BeginSetSession(c) \/ BeginAppend(c) \/ Exec(c) \/ ExecFailsSetInit(c)
      PROVE  LockInv'
  <2>1. /\ \A r \in Client \ {c} : call'[r] = call[r]
        /\ call[c].at \in {"begin", "exec", "restore"} /\ call'[c].at \in {"exec", "restore"}
        /\ UNCHANGED <<writer, readers>>
    BY <1>8 DEF BeginSetInit, BeginSetSession, BeginAppend, Exec, ExecFailsSetInit, lock, Call
  <2> QED BY <2>1
<1>9. ASSUME NEW c \in Client, ExecDone(c) \/ ExecFails(c) \/ RestoreDone(c)
      PROVE  LockInv'
  <2>1. PICK a : Unlock(c, a)
    BY <1>9 DEF ExecDone, ExecFails, RestoreDone
  <2>2. call[c].at \in {"exec", "restore"}
    BY <1>9 DEF ExecDone, ExecFails, RestoreDone
  <2>3. \A r \in Client :
          call'[r].at = IF r = c THEN "idle" ELSE IF r \in Blocked THEN "query" ELSE call[r].at
    BY <2>1 DEF Unlock, Idle, Call
  <2>4. writer' = Nobody /\ readers' = readers \cup Blocked
    BY <2>1 DEF Unlock
  <2>5. \A r \in Client : r # c => call[r].at \notin {"locking", "begin", "exec", "restore"}
    BY <2>2
  <2> QED BY <2>2, <2>3, <2>4, <2>5, MetadataAssumption
<1> QED
  BY <1>1, <1>2, <1>3, <1>4, <1>5, <1>6, <1>7, <1>8, <1>9 DEF MetadataNext, HandlerStep

-----------------------------------------------------------------------------
(* What the init SQL has to do with the database.                          *)

\* A client that executes a script is the writer, so no other one does.
LEMMA OneWriter ==
  ASSUME LockInv, NEW c \in Client, call[c].at \in {"begin", "exec", "restore"}
  PROVE  /\ readers = {}
         /\ \A r \in Client : r # c => ~Loading(r) /\ ~Appending(r) /\ ~At(r, "query")
  BY DEF LockInv, At, Loading, Appending

\* Where the calls that execute scripts stay the same and what they and the
\* settings show stays the same, so does the invariant.
LEMMA InitKept ==
  ASSUME InitInv,
         \A r \in Client : Loading(r)' => Loading(r) /\ call'[r].todo = call[r].todo,
         \A r \in Client : Appending(r)' =>
           Appending(r) /\ call'[r].todo = call[r].todo /\ call'[r].sql = call[r].sql,
         (\A r \in Client : ~Loading(r)') => \A r \in Client : ~Loading(r),
         UNCHANGED <<ran, unrestored, initSQL>>
  PROVE  InitInv'
<1> DEFINE Has(r, n) == Underway(ran, call[r].sql, call[r].todo, n) /\ ExecutedBy(ran, initSQL, n)
<1>1. ASSUME NEW r \in Client, Loading(r)'
      PROVE  ~unrestored' /\ Underway(ran', initSQL', call'[r].todo, 0)
  BY <1>1 DEF InitInv
<1>2. ASSUME NEW r \in Client, Appending(r)'
      PROVE  \/ unrestored'
             \/ \E n \in 0 .. Len(ran') : /\ Underway(ran', call'[r].sql, call'[r].todo, n)
                                          /\ ExecutedBy(ran', initSQL', n)
  BY <1>2 DEF InitInv
<1>3. (\A r \in Client : ~Loading(r)') => unrestored' \/ ExecutedBy(ran', initSQL', Len(ran'))
  BY DEF InitInv, Executed
<1> QED BY <1>1, <1>2, <1>3 DEF InitInv, Executed

\* When a writer has ended, or nobody loads a script, the settings must show
\* what has run.
LEMMA InitQuiet ==
  ASSUME \A r \in Client : ~Loading(r)' /\ ~Appending(r)',
         unrestored' \/ ExecutedBy(ran', initSQL', Len(ran'))
  PROVE  InitInv'
  BY DEF InitInv, Executed

LEMMA InitStep ==
  ASSUME MetadataTypeOK, LockInv, InitInv, [MetadataNext]_metadataVars
  PROVE  InitInv'
<1> USE DEF MetadataTypeOK
<1>1. CASE UNCHANGED metadataVars
  <2>1. UNCHANGED <<ran, unrestored, initSQL, call>>
    BY <1>1 DEF metadataVars, settings, database
  <2> QED BY <2>1, InitKept DEF Loading, Appending, At
<1>2. ASSUME NEW c \in Client,
             Arrive(c) \/ Disconnect(c) \/ RLock(c) \/ Announce(c) \/ Lock(c)
      PROVE  InitInv'
  <2>1. UNCHANGED <<ran, unrestored, initSQL>>
    BY <1>2 DEF Arrive, Disconnect, RLock, Announce, Lock, settings, database
  <2>2. \A r \in Client \ {c} : call'[r] = call[r]
    BY <1>2 DEF Arrive, Disconnect, RLock, Announce, Lock, Goto
  <2>3. \/ call'[c].at \notin {"exec", "restore"} /\ call[c].at \notin {"exec", "restore"}
        \/ /\ call'[c].at = call[c].at /\ call'[c].op = call[c].op
           /\ call'[c].sql = call[c].sql /\ call'[c].todo = call[c].todo
    <3>1. CASE Arrive(c)
      BY <3>1, IdleType DEF Arrive, Idle, At, Call
    <3>2. CASE Disconnect(c)
      BY <3>2 DEF Disconnect, Call
    <3>3. CASE RLock(c) \/ Announce(c) \/ Lock(c)
      BY <3>3 DEF RLock, Announce, Lock, Goto, At, Call
    <3> QED BY <1>2, <3>1, <3>2, <3>3
  <2>4. \A r \in Client : /\ Loading(r)' <=> Loading(r)
                          /\ Appending(r)' <=> Appending(r)
    BY <2>2, <2>3 DEF Loading, Appending, At
  <2>5. \A r \in Client : Loading(r) \/ Appending(r) =>
          call'[r].todo = call[r].todo /\ call'[r].sql = call[r].sql
    BY <2>2, <2>3 DEF Loading, Appending, At
  <2> QED BY <2>1, <2>4, <2>5, InitKept
<1>3. ASSUME NEW c \in Client, Query(c)
      PROVE  InitInv'
  <2>1. \A r \in Client : ~Loading(r) /\ ~Appending(r)
    BY <1>3 DEF Query, LockInv, Loading, Appending, At
  <2>2. \A r \in Client : ~Loading(r)' /\ ~Appending(r)'
    BY <1>3, <2>1 DEF Query, Idle, Loading, Appending, At
  <2>3. /\ unrestored' = unrestored /\ initSQL' = initSQL
        /\ ran' \in Seq(Statement) /\ Len(ran') >= Len(ran)
        /\ \A i \in 1 .. Len(ran) : ran'[i] = ran[i]
    <3>1. \A s \in Statement : /\ Append(ran, s) \in Seq(Statement)
                               /\ Len(Append(ran, s)) = Len(ran) + 1
                               /\ \A i \in 1 .. Len(ran) : Append(ran, s)[i] = ran[i]
      OBVIOUS
    <3>2. ran' = ran \/ \E s \in Statement : ran' = Append(ran, s)
      BY <1>3 DEF Query
    <3>3. /\ ran' \in Seq(Statement) /\ Len(ran') >= Len(ran)
          /\ \A i \in 1 .. Len(ran) : ran'[i] = ran[i]
      <4>1. CASE ran' = ran
        BY <4>1
      <4>2. ASSUME NEW s \in Statement, ran' = Append(ran, s)
            PROVE  /\ ran' \in Seq(Statement) /\ Len(ran') >= Len(ran)
                   /\ \A i \in 1 .. Len(ran) : ran'[i] = ran[i]
        BY <4>2, <3>1
      <4> QED BY <3>2, <4>1, <4>2
    <3> QED BY <1>3, <3>3 DEF Query, settings
  <2>4. unrestored \/ ExecutedBy(ran, initSQL, Len(ran))
    BY <2>1 DEF InitInv, Executed
  <2>5. unrestored' \/ ExecutedBy(ran', initSQL', Len(ran'))
    BY <2>3, <2>4, ExecutedByMore
  <2> QED BY <2>2, <2>5, InitQuiet
<1>4. ASSUME NEW c \in Client, BeginSetInit(c)
      PROVE  InitInv'
  <2>1. \A r \in Client \ {c} : call'[r] = call[r] /\ ~Loading(r) /\ ~Appending(r)
    BY <1>4, OneWriter DEF BeginSetInit, At
  <2>2. /\ call'[c].at = "exec" /\ call'[c].op = "setInit" /\ call'[c].todo = call[c].sql
        /\ initSQL' = call[c].sql /\ ran' = <<>> /\ unrestored' = FALSE
    BY <1>4 DEF BeginSetInit, Call
  <2>3. <<>> \in Seq(Statement) /\ Len(<<>>) = 0 /\ call[c].sql \in Seq(Statement)
    BY MetadataAssumption DEF Call
  <2>4. Underway(<<>>, call[c].sql, call[c].sql, 0)
    BY <2>3, UnderwayBegins
  <2>5. Loading(c)' /\ ~Appending(c)'
    BY <2>2 DEF Loading, Appending, At
  <2>6. \A r \in Client \ {c} : ~Loading(r)' /\ ~Appending(r)'
    BY <2>1 DEF Loading, Appending, At
  <2> QED BY <2>2, <2>4, <2>5, <2>6 DEF InitInv
<1>5. ASSUME NEW c \in Client, BeginSetSession(c)
      PROVE  InitInv'
  <2>1. \A r \in Client \ {c} : call'[r] = call[r] /\ ~Loading(r) /\ ~Appending(r)
    BY <1>5, OneWriter DEF BeginSetSession, At
  <2>2. /\ call'[c].at = "exec" /\ call'[c].op = "setSession" /\ call[c].at = "begin"
        /\ UNCHANGED <<ran, unrestored, initSQL>>
    BY <1>5 DEF BeginSetSession, At, database, Call
  <2>3. \A r \in Client : ~Loading(r) /\ ~Loading(r)' /\ ~Appending(r)'
    BY <2>1, <2>2 DEF Loading, Appending, At
  <2>4. unrestored \/ ExecutedBy(ran, initSQL, Len(ran))
    BY <2>3 DEF InitInv, Executed
  <2> QED BY <2>2, <2>3, <2>4, InitQuiet
<1>6. ASSUME NEW c \in Client, BeginAppend(c)
      PROVE  InitInv'
  <2>1. \A r \in Client \ {c} : call'[r] = call[r] /\ ~Loading(r) /\ ~Appending(r)
    BY <1>6, OneWriter DEF BeginAppend, At
  <2>2. /\ call'[c].at = "exec" /\ call'[c].op \in {"appendInit", "appendSession"}
        /\ call[c].at = "begin" /\ UNCHANGED <<ran, unrestored, initSQL>>
        /\ call'[c].todo = call[c].sql /\ call'[c].sql = call[c].sql
    BY <1>6 DEF BeginAppend, At, database, settings, Call
  <2>3. \A r \in Client : ~Loading(r) /\ ~Loading(r)' /\ (r # c => ~Appending(r)')
    BY <2>1, <2>2 DEF Loading, Appending, At
  <2>4. unrestored \/ ExecutedBy(ran, initSQL, Len(ran))
    BY <2>3 DEF InitInv, Executed
  <2>5. Underway(ran, call[c].sql, call[c].sql, Len(ran)) /\ Len(ran) \in 0 .. Len(ran)
    <3>1. call[c].sql \in Seq(Statement)
      BY MetadataAssumption DEF Call
    <3> QED BY <3>1, UnderwayBegins
  <2>6. \/ unrestored'
        \/ \E n \in 0 .. Len(ran') : /\ Underway(ran', call'[c].sql, call'[c].todo, n)
                                     /\ ExecutedBy(ran', initSQL', n)
    BY <2>2, <2>4, <2>5
  <2>7. unrestored' \/ ExecutedBy(ran', initSQL', Len(ran'))
    BY <2>2, <2>4
  <2> QED BY <2>3, <2>6, <2>7 DEF InitInv, Executed
<1>7. ASSUME NEW c \in Client, Exec(c)
      PROVE  InitInv'
  <2> DEFINE t == call[c].todo
             q == Append(ran, Head(t))
  <2>1. \A r \in Client \ {c} : call'[r] = call[r] /\ ~Loading(r) /\ ~Appending(r)
    BY <1>7, OneWriter DEF Exec, At
  <2>2. /\ t \in Seq(Statement) /\ t # <<>> /\ call[c].at \in {"exec", "restore"}
        /\ call[c].sql \in Seq(Statement)
    BY <1>7, MetadataAssumption DEF Exec, At, Call
  <2>3. /\ call'[c].at = call[c].at /\ call'[c].op = call[c].op /\ call'[c].sql = call[c].sql
        /\ call'[c].todo = Tail(t) /\ ran' = q /\ UNCHANGED <<unrestored, initSQL>>
    BY <1>7 DEF Exec, Call, settings
  <2>4. q \in Seq(Statement) /\ Len(q) = Len(ran) + 1 /\ \A i \in 1 .. Len(ran) : q[i] = ran[i]
    <3>1. Head(t) \in Statement
      BY <2>2
    <3> QED BY <3>1
  <2> HIDE DEF q, t
  <2>5. \A n \in 0 .. Len(ran) : ExecutedBy(ran, initSQL, n) =>
          ExecutedBy(q, initSQL, n) /\ ExecutedBy(q, initSQL, Len(q))
    <3> TAKE n \in 0 .. Len(ran)
    <3> HAVE ExecutedBy(ran, initSQL, n)
    <3>1. n \in Nat /\ Len(q) \in Nat /\ n <= Len(q) /\ \A i \in 1 .. n : q[i] = ran[i]
      BY <2>4
    <3>2. ExecutedBy(q, initSQL, n)
      BY <2>4, <3>1, ExecutedByMore
    <3>3. ExecutedBy(q, initSQL, Len(q))
      BY <2>4, <3>1, ExecutedByMore
    <3> QED BY <3>2, <3>3
  <2>6. \A r \in Client : /\ Loading(r)' <=> Loading(r)
                          /\ Appending(r)' <=> Appending(r)
    BY <2>1, <2>3 DEF Loading, Appending, At
  <2>7. ASSUME Loading(c)
        PROVE  ~unrestored' /\ Underway(ran', initSQL', call'[c].todo, 0)
    <3>1. ~unrestored /\ Underway(ran, initSQL, t, 0)
      BY <2>7 DEF InitInv, t
    <3>2. Underway(q, initSQL, Tail(t), 0)
      BY <3>1, <2>2, UnderwayStep DEF q
    <3> QED BY <3>1, <3>2, <2>3
  <2>8. ASSUME Appending(c)
        PROVE  \/ unrestored'
               \/ \E n \in 0 .. Len(ran') : /\ Underway(ran', call'[c].sql, call'[c].todo, n)
                                            /\ ExecutedBy(ran', initSQL', n)
    <3>1. CASE unrestored
      BY <3>1, <2>3
    <3>2. CASE ~unrestored
      <4>1. PICK n \in 0 .. Len(ran) : Underway(ran, call[c].sql, t, n) /\ ExecutedBy(ran, initSQL, n)
        BY <3>2, <2>8 DEF InitInv, t
      <4>2. Underway(q, call[c].sql, Tail(t), n)
        BY <4>1, <2>2, UnderwayStep DEF q
      <4>3. ExecutedBy(q, initSQL, n) /\ n \in 0 .. Len(q)
        BY <4>1, <2>4, <2>5
      <4> QED BY <4>2, <4>3, <2>3
    <3> QED BY <3>1, <3>2
  <2>9. (\A r \in Client : ~Loading(r)) => unrestored' \/ ExecutedBy(ran', initSQL', Len(ran'))
    <3>1. Len(ran) \in 0 .. Len(ran)
      OBVIOUS
    <3> QED BY <3>1, <2>3, <2>5 DEF InitInv, Executed
  <2> QED BY <2>1, <2>6, <2>7, <2>8, <2>9 DEF InitInv, Executed
<1>8. ASSUME NEW c \in Client, ExecDone(c) \/ ExecFails(c) \/ RestoreDone(c)
      PROVE  InitInv'
  <2>1. PICK a : Unlock(c, a)
    BY <1>8 DEF ExecDone, ExecFails, RestoreDone
  <2>2. \A r \in Client \ {c} : ~Loading(r) /\ ~Appending(r)
    BY <1>8, OneWriter DEF ExecDone, ExecFails, RestoreDone, At
  <2>3. \A r \in Client : ~Loading(r)' /\ ~Appending(r)'
    <3>1. \A r \in Client \ {c} : call'[r] = call[r] \/ call'[r].at = "query"
      BY <2>1 DEF Unlock, Call
    <3>2. call'[c].at = "idle"
      BY <2>1 DEF Unlock, Idle
    <3> QED BY <2>2, <3>1, <3>2 DEF Loading, Appending, At
  <2>4. call[c].sql \in Seq(Statement)
    BY MetadataAssumption DEF Call
  <2>5. CASE ExecDone(c)
    <3>1. call[c].at = "exec" /\ call[c].todo = <<>> /\ UNCHANGED <<ran, unrestored>>
      BY <2>5 DEF ExecDone, At, database
    <3>2. CASE call[c].op = "appendInit"
      <4>1. initSQL' = initSQL \o call[c].sql
        BY <3>2, <2>5 DEF ExecDone
      <4>2. CASE unrestored
        BY <4>2, <3>1, <2>3, InitQuiet
      <4>3. CASE ~unrestored
        <5>1. PICK n \in 0 .. Len(ran) : /\ Underway(ran, call[c].sql, <<>>, n)
                                         /\ ExecutedBy(ran, initSQL, n)
          BY <4>3, <3>1, <3>2 DEF InitInv, Appending, At
        <5>2. ExecutedBy(ran, initSQL \o call[c].sql, Len(ran))
          BY <5>1, <2>4, AppendEnds
        <5> QED BY <5>2, <4>1, <3>1, <2>3, InitQuiet
      <4> QED BY <4>2, <4>3
    <3>3. CASE call[c].op = "setInit"
      <4>1. initSQL' = initSQL
        BY <3>3, <2>5 DEF ExecDone
      <4>2. Underway(ran, initSQL, <<>>, 0)
        BY <3>1, <3>3 DEF InitInv, Loading, At
      <4>3. ExecutedBy(ran, initSQL, Len(ran))
        BY <4>2, UnderwayEnds
      <4> QED BY <4>1, <4>3, <3>1, <2>3, InitQuiet
    <3>4. CASE call[c].op \notin {"appendInit", "setInit"}
      <4>1. initSQL' = initSQL
        BY <3>4, <2>5 DEF ExecDone
      <4>2. \A r \in Client : ~Loading(r)
        BY <2>2, <3>1, <3>4 DEF Loading, At
      <4>3. unrestored \/ ExecutedBy(ran, initSQL, Len(ran))
        BY <4>2 DEF InitInv, Executed
      <4> QED BY <4>1, <4>3, <3>1, <2>3, InitQuiet
    <3> QED BY <3>2, <3>3, <3>4
  <2>6. CASE ExecFails(c)
    <3>1. UNCHANGED <<initSQL, ran, unrestored>> /\ ~Loading(c)
      BY <2>6 DEF ExecFails, At, database, Loading
    <3>2. unrestored \/ ExecutedBy(ran, initSQL, Len(ran))
      BY <3>1, <2>2 DEF InitInv, Executed
    <3> QED BY <3>1, <3>2, <2>3, InitQuiet
  <2>7. CASE RestoreDone(c)
    <3>1. UNCHANGED <<initSQL, ran>> /\ unrestored' = (call[c].todo # <<>>) /\ Loading(c)
      BY <2>7 DEF RestoreDone, At, settings, Loading
    <3>2. CASE call[c].todo # <<>>
      BY <3>1, <3>2, <2>3, InitQuiet
    <3>3. CASE call[c].todo = <<>>
      <4>1. ExecutedBy(ran, initSQL, Len(ran))
        BY <3>1, <3>3, UnderwayEnds DEF InitInv
      <4> QED BY <4>1, <3>1, <2>3, InitQuiet
    <3> QED BY <3>2, <3>3
  <2> QED BY <1>8, <2>5, <2>6, <2>7
<1>9. ASSUME NEW c \in Client, ExecFailsSetInit(c)
      PROVE  InitInv'
  <2>1. \A r \in Client \ {c} : call'[r] = call[r] /\ ~Loading(r) /\ ~Appending(r)
    BY <1>9, OneWriter DEF ExecFailsSetInit, At
  <2>2. /\ call'[c].at = "restore" /\ call'[c].todo = call[c].prev
        /\ initSQL' = call[c].prev /\ ran' = <<>> /\ unrestored' = unrestored
        /\ Loading(c)
    BY <1>9 DEF ExecFailsSetInit, Call, Loading, At
  <2>3. <<>> \in Seq(Statement) /\ Len(<<>>) = 0 /\ call[c].prev \in Seq(Statement)
    BY DEF Call
  <2>4. Underway(<<>>, call[c].prev, call[c].prev, 0)
    BY <2>3, UnderwayBegins
  <2>5. ~unrestored
    BY <2>2 DEF InitInv
  <2>6. Loading(c)' /\ ~Appending(c)'
    BY <2>2 DEF Loading, Appending, At
  <2>7. \A r \in Client \ {c} : ~Loading(r)' /\ ~Appending(r)'
    BY <2>1 DEF Loading, Appending, At
  <2> QED BY <2>2, <2>4, <2>5, <2>6, <2>7 DEF InitInv
<1> QED
  BY <1>1, <1>2, <1>3, <1>4, <1>5, <1>6, <1>7, <1>8, <1>9 DEF MetadataNext, HandlerStep

-----------------------------------------------------------------------------
\* The types, the lock and what the init SQL has to do with the database hold
\* throughout, whatever fails and whoever goes away.
THEOREM MetadataInvariant == MetadataSpec => []MetadataInv
<1>1. MetadataInv /\ [MetadataNext]_metadataVars => MetadataInv'
  BY TypeStep, LockStep, InitStep DEF MetadataInv
<1> QED BY InitHolds, <1>1, PTL DEF MetadataSpec

\* Whoever can query finds that the init SQL which the settings show has run,
\* unless a rollback stopped half way.
THEOREM InitSQLHasRun == MetadataSpec => []InitExecuted
<1>1. MetadataInv => InitExecuted
  <2> SUFFICES ASSUME MetadataInv, Visible
               PROVE  unrestored \/ Executed(initSQL)
    BY DEF InitExecuted
  <2>1. \A c \in Client : ~Loading(c)
    BY MetadataAssumption DEF MetadataInv, LockInv, Loading, Visible, At
  <2> QED BY <2>1 DEF MetadataInv, InitInv
<1> QED BY MetadataInvariant, <1>1, PTL

-----------------------------------------------------------------------------
(* The refinement of ScriptStore: while a Set runs, the setting that a     *)
(* reader may count on is the one that it replaces.                        *)

\* A Set that has begun shows its own script, which is one that requests send.
SetShows ==
  \A c \in Client : At(c, "exec") =>
    /\ call[c].op # "query"
    /\ call[c].op = "setInit" => initSQL = call[c].sql
    /\ call[c].op = "setSession" => sessionSQL = call[c].sql

LEMMA ArrivesAt ==
  ASSUME MetadataTypeOK, NEW c \in Client, Arrive(c)
  PROVE  call'[c].at \in {"RLock", "Lock"}
<1>1. PICK op \in {"query"} \cup Setting, sql \in Scripts :
        call' = [call EXCEPT ![c] = [Idle EXCEPT
                   !.at = IF op = "query" THEN "RLock" ELSE "Lock", !.op = op, !.sql = sql]]
  BY DEF Arrive
<1>. DEFINE l == [Idle EXCEPT
                    !.at = IF op = "query" THEN "RLock" ELSE "Lock", !.op = op, !.sql = sql]
<1>2. l.at \in {"RLock", "Lock"}
  BY DEF Idle
<1>3. call'[c] = l
  <2>. HIDE DEF l
  <2>. QED  BY <1>1 DEF MetadataTypeOK, l
<1>. QED  BY <1>2, <1>3

LEMMA SetShowsStep ==
  MetadataInv /\ SetShows /\ [MetadataNext]_metadataVars => SetShows'
<1>. SUFFICES ASSUME MetadataInv, SetShows, [MetadataNext]_metadataVars  PROVE SetShows'
  OBVIOUS
<1>. USE DEF MetadataInv, MetadataTypeOK
<1>1. ASSUME NEW c \in Client, \/ Arrive(c) \/ Disconnect(c) \/ RLock(c) \/ Query(c)
                               \/ Announce(c) \/ Lock(c) \/ BeginAppend(c) \/ Exec(c)
      PROVE  SetShows'
  <2>1. UNCHANGED settings
    BY <1>1 DEF Arrive, Disconnect, RLock, Query, Announce, Lock, BeginAppend, Exec
  <2>2. ASSUME NEW r \in Client, call'[r].at = "exec", ~(r = c /\ BeginAppend(c))
        PROVE  call[r].at = "exec" /\ call'[r].op = call[r].op /\ call'[r].sql = call[r].sql
    <3>1. CASE r # c
      BY <1>1, <2>2, <3>1 DEF Arrive, Disconnect, RLock, Query, Announce, Lock, BeginAppend, Exec,
         Goto
    <3>2. CASE r = c /\ (Arrive(c) \/ Query(c))
      BY <2>2, <3>2, ArrivesAt DEF Query, Idle
    <3>3. CASE r = c /\ (RLock(c) \/ Announce(c) \/ Lock(c))
      BY <2>2, <3>3 DEF RLock, Announce, Lock, Goto, Call
    <3>4. CASE r = c /\ (Disconnect(c) \/ Exec(c))
      BY <2>2, <3>4 DEF Disconnect, Exec, Call, At
    <3>. QED  BY <1>1, <2>2, <3>1, <3>2, <3>3, <3>4
  <2>3. BeginAppend(c) => call'[c].op \in {"appendInit", "appendSession"}
    BY DEF BeginAppend, Call
  <2>. QED  BY <2>1, <2>2, <2>3 DEF SetShows, At, settings
<1>2. ASSUME NEW c \in Client, call[c].at \in {"begin", "exec", "restore"},
             BeginSetInit(c) \/ BeginSetSession(c)
      PROVE  SetShows'
  <2>1. \A r \in Client \ {c} : call'[r] = call[r] /\ call[r].at # "exec"
    BY <1>2 DEF LockInv, BeginSetInit, BeginSetSession
  <2>2. /\ call'[c].op = call[c].op /\ call'[c].sql = call[c].sql
        /\ call[c].op # "query"
        /\ call[c].op = "setInit" => initSQL' = call[c].sql
        /\ call[c].op = "setSession" => sessionSQL' = call[c].sql
    BY <1>2 DEF BeginSetInit, BeginSetSession, Call
  <2>. QED  BY <2>1, <2>2 DEF SetShows, At
<1>3. ASSUME NEW c \in Client, call[c].at \in {"begin", "exec", "restore"},
             ExecDone(c) \/ ExecFailsSetInit(c) \/ ExecFails(c) \/ RestoreDone(c)
      PROVE  SetShows'
  <2>. SUFFICES ASSUME NEW r \in Client  PROVE call'[r].at # "exec"
    BY DEF SetShows, At
  <2>1. r # c => call[r].at # "exec"
    BY <1>3 DEF LockInv
  <2>2. call[r] \in Call
    OBVIOUS
  <2>3. CASE ExecFailsSetInit(c)
    BY <2>1, <2>2, <2>3 DEF ExecFailsSetInit, Call
  <2>4. CASE ~ExecFailsSetInit(c)
    <3>1. \E a : Unlock(c, a)
      BY <1>3, <2>4 DEF ExecDone, ExecFails, RestoreDone
    <3>2. [call[r] EXCEPT !.at = "query"].at = "query" /\ Idle.at = "idle"
      BY <2>2 DEF Call, Idle
    <3>. QED  BY <2>1, <3>1, <3>2 DEF Unlock
  <2>. QED  BY <2>3, <2>4
<1>4. CASE UNCHANGED metadataVars
  BY <1>4 DEF SetShows, At, metadataVars, settings
<1>. QED
  BY <1>1, <1>2, <1>3, <1>4
     DEF MetadataNext, HandlerStep, BeginSetInit, BeginSetSession, ExecDone, ExecFailsSetInit,
         ExecFails, RestoreDone, At

\* Only the writer can be executing a Set.
LEMMA SetterIs ==
  ASSUME LockInv, NEW c \in Client, call[c].at \in {"begin", "exec", "restore"}, NEW op, NEW x
  PROVE  Replaced(op, x) = IF call[c].at = "exec" /\ call[c].op = op THEN call[c].prev ELSE x
<1>1. Setter(op) = IF call[c].at = "exec" /\ call[c].op = op THEN {c} ELSE {}
  BY DEF LockInv, Setter, At
<1>2. (CHOOSE d \in {c} : TRUE) = c
  OBVIOUS
<1>. QED  BY <1>1, <1>2 DEF Replaced

\* Steps that begin or end no Set change nothing that ScriptStore shows.
LEMMA SettingsQuiet ==
  ASSUME UNCHANGED settings, UNCHANGED answer,
         \A r \in Client :
           /\ call'[r].at = "exec" <=> call[r].at = "exec"
           /\ call[r].at = "exec" => call'[r].op = call[r].op /\ call'[r].prev = call[r].prev
  PROVE  UNCHANGED <<Replaced("setInit", initSQL), Replaced("setSession", sessionSQL), answer>>
<1>1. Setter("setInit")' = Setter("setInit") /\ Setter("setSession")' = Setter("setSession")
  BY DEF Setter, At
<1>2. \A S \in SUBSET Client : S # {} => (CHOOSE c \in S : TRUE) \in S
  OBVIOUS
<1>3. \A op : Setter(op) # {} => call'[CHOOSE c \in Setter(op) : TRUE].prev
                                  = call[CHOOSE c \in Setter(op) : TRUE].prev
  BY <1>2 DEF Setter, At
<1>. QED  BY <1>1, <1>3 DEF Replaced, settings
\* What a client's step does to the settings as readers see them.
LEMMA ScriptStep ==
  ASSUME MetadataInv, MetadataInv', SetShows, NEW c \in Client,
         Arrive(c) \/ Disconnect(c) \/ HandlerStep(c)
  PROVE  \/ Settings!Succeed \/ Settings!Fail
         \/ UNCHANGED <<Replaced("setInit", initSQL), Replaced("setSession", sessionSQL), answer>>
<1>. USE DEF MetadataInv, MetadataTypeOK
<1>. DEFINE I == Replaced("setInit", initSQL)
            S == Replaced("setSession", sessionSQL)
            Others == \A r \in Client \ {c} : call[r].at # "exec" /\ call'[r].at # "exec"
\* The step of the writer: its own call decides what is shown.
<1>1. ASSUME call[c].at \in {"begin", "exec", "restore"}
      PROVE  /\ I = IF call[c].at = "exec" /\ call[c].op = "setInit" THEN call[c].prev ELSE initSQL
             /\ S = IF call[c].at = "exec" /\ call[c].op = "setSession" THEN call[c].prev
                    ELSE sessionSQL
  BY <1>1, SetterIs
<1>2. ASSUME Others, call'[c].at # "exec"
      PROVE  I' = initSQL' /\ S' = sessionSQL'
  <2>1. Setter("setInit")' = {} /\ Setter("setSession")' = {}
    BY <1>2 DEF Setter, At
  <2>. QED  BY <2>1 DEF Replaced
<1>3. ASSUME Others, call'[c].at = "exec"
      PROVE  /\ I' = IF call'[c].op = "setInit" THEN call'[c].prev ELSE initSQL'
             /\ S' = IF call'[c].op = "setSession" THEN call'[c].prev ELSE sessionSQL'
  <2>1. /\ Setter("setInit")' = IF call'[c].op = "setInit" THEN {c} ELSE {}
        /\ Setter("setSession")' = IF call'[c].op = "setSession" THEN {c} ELSE {}
    BY <1>3 DEF Setter, At
  <2>2. (CHOOSE d \in {c} : TRUE) = c
    OBVIOUS
  <2>3. I' = IF call'[c].op = "setInit" THEN call'[c].prev ELSE initSQL'
    <3>1. CASE call'[c].op = "setInit"
      <4>1. Setter("setInit")' = {c}
        BY <2>1, <3>1
      <4>2. (CHOOSE d \in Setter("setInit") : TRUE)' = c
        BY <4>1
      <4>. QED  BY <3>1, <4>1, <4>2 DEF Replaced
    <3>2. CASE call'[c].op # "setInit"
      BY <2>1, <3>2 DEF Replaced
    <3>. QED  BY <3>1, <3>2
  <2>4. S' = IF call'[c].op = "setSession" THEN call'[c].prev ELSE sessionSQL'
    <3>1. CASE call'[c].op = "setSession"
      <4>1. Setter("setSession")' = {c}
        BY <2>1, <3>1
      <4>2. (CHOOSE d \in Setter("setSession") : TRUE)' = c
        BY <4>1
      <4>. QED  BY <3>1, <4>1, <4>2 DEF Replaced
    <3>2. CASE call'[c].op # "setSession"
      BY <2>1, <3>2 DEF Replaced
    <3>. QED  BY <3>1, <3>2
  <2>. QED  BY <2>3, <2>4
<1>4. ASSUME call[c].at \in {"begin", "exec", "restore"}, NEW a, Unlock(c, a)
      PROVE  Others /\ call'[c].at = "idle" /\ answer' = a
  <2>. SUFFICES ASSUME NEW r \in Client \ {c}  PROVE call[r].at # "exec" /\ call'[r].at # "exec"
    BY <1>4 DEF Unlock, Idle
  <2>1. call[r].at # "exec" /\ [call[r] EXCEPT !.at = "query"].at = "query"
    BY <1>4 DEF LockInv, Call
  <2>. QED  BY <1>4, <2>1 DEF Unlock
<1>. HIDE DEF I, S, Others
<1>5. CASE Arrive(c) \/ Disconnect(c) \/ RLock(c) \/ Query(c) \/ Announce(c) \/ Lock(c) \/ Exec(c)
  <2>1. UNCHANGED settings /\ UNCHANGED answer
    BY <1>5 DEF Arrive, Disconnect, RLock, Query, Announce, Lock, Exec
  <2>2. ASSUME NEW r \in Client
        PROVE  /\ call'[r].at = "exec" <=> call[r].at = "exec"
               /\ call[r].at = "exec" => call'[r].op = call[r].op /\ call'[r].prev = call[r].prev
    <3>1. CASE r # c
      BY <1>5, <3>1 DEF Arrive, Disconnect, RLock, Query, Announce, Lock, Exec, Goto
    <3>2. CASE r = c /\ Arrive(c)
      <4>1. call[c].at = "idle" /\ call'[c].at \in {"RLock", "Lock"}
        BY <3>2, ArrivesAt DEF Arrive, At
      <4>. QED  BY <3>2, <4>1
    <3>5. CASE r = c /\ Query(c)
      <4>1. call[c].at = "query" /\ call'[c].at = "idle"
        BY <3>5 DEF Query, At, Idle
      <4>. QED  BY <3>5, <4>1
    <3>3. CASE r = c /\ (RLock(c) \/ Announce(c) \/ Lock(c))
      BY <3>3 DEF RLock, Announce, Lock, Goto, Call, At
    <3>4. CASE r = c /\ (Disconnect(c) \/ Exec(c))
      BY <3>4 DEF Disconnect, Exec, Call, At
    <3>. QED  BY <1>5, <3>1, <3>2, <3>3, <3>4, <3>5
  <2>. QED  BY <2>1, <2>2, SettingsQuiet
<1>6. CASE BeginSetInit(c) \/ BeginSetSession(c) \/ BeginAppend(c)
  <2>1. call[c].at = "begin"
    BY <1>6 DEF BeginSetInit, BeginSetSession, BeginAppend, At
  <2>2. Others
    BY <1>6, <2>1 DEF Others, LockInv, BeginSetInit, BeginSetSession, BeginAppend
  <2>3. /\ call'[c].at = "exec" /\ call'[c].op = call[c].op /\ UNCHANGED answer
        /\ call[c].op = "setInit" => call'[c].prev = initSQL
        /\ call[c].op = "setSession" => call'[c].prev = sessionSQL
        /\ initSQL' = initSQL \/ call[c].op = "setInit"
        /\ sessionSQL' = sessionSQL \/ call[c].op = "setSession"
    BY <1>6 DEF BeginSetInit, BeginSetSession, BeginAppend, Call, settings
  <2>4. I' = I /\ S' = S
    BY <1>1, <1>3, <2>1, <2>2, <2>3
  <2>. QED  BY <2>3, <2>4 DEF I, S
<1>7. CASE ExecDone(c)
  <2>1. call[c].at = "exec" /\ Unlock(c, "ok")
    BY <1>7 DEF ExecDone, At
  <2>2. Others /\ call'[c].at = "idle" /\ answer' = "ok"
    BY <1>4, <2>1
  <2>3. I' = initSQL' /\ S' = sessionSQL'
    BY <1>2, <2>2
  <2>4. /\ initSQL' = IF call[c].op = "appendInit" THEN initSQL \o call[c].sql ELSE initSQL
        /\ sessionSQL' = IF call[c].op = "appendSession" THEN sessionSQL \o call[c].sql
                         ELSE sessionSQL
    BY <1>7 DEF ExecDone
  <2>5. /\ call[c].op = "setInit" => initSQL = call[c].sql
        /\ call[c].op = "setSession" => sessionSQL = call[c].sql
    BY <2>1 DEF SetShows, At
  <2>6. call[c].sql \in Scripts /\ call[c].op \in {"query"} \cup Setting
    BY DEF Call
  <2>7. \/ \E s \in Scripts : I' \in {s, I \o s} /\ S' = S
        \/ \E s \in Scripts : S' \in {s, S \o s} /\ I' = I
    <3>1. /\ I = IF call[c].op = "setInit" THEN call[c].prev ELSE initSQL
          /\ S = IF call[c].op = "setSession" THEN call[c].prev ELSE sessionSQL
      BY <1>1, <2>1
    <3>2. CASE call[c].op = "setInit"
      BY <2>3, <2>4, <2>5, <2>6, <3>1, <3>2
    <3>3. CASE call[c].op = "setSession"
      BY <2>3, <2>4, <2>5, <2>6, <3>1, <3>3
    <3>4. CASE call[c].op = "appendInit"
      BY <2>3, <2>4, <2>6, <3>1, <3>4
    <3>5. CASE call[c].op = "appendSession"
      BY <2>3, <2>4, <2>6, <3>1, <3>5
    <3>6. call[c].op # "query"
      BY <2>1 DEF SetShows, At
    <3>. QED  BY <2>6, <3>2, <3>3, <3>4, <3>5, <3>6 DEF Setting
  <2>8. Settings!Succeed
    BY <2>2, <2>7 DEF I, S, Settings!Succeed, Settings!Edited
  <2>. QED  BY <2>8
<1>8. CASE ExecFailsSetInit(c)
  <2>1. call[c].at = "exec" /\ call[c].op = "setInit" /\ UNCHANGED <<sessionSQL, answer>>
        /\ initSQL' = call[c].prev
    BY <1>8 DEF ExecFailsSetInit, At
  <2>2. Others /\ call'[c].at = "restore"
    BY <1>8, <2>1 DEF Others, LockInv, ExecFailsSetInit, Call
  <2>3. I' = I /\ S' = S
    BY <1>1, <1>2, <2>1, <2>2
  <2>. QED  BY <2>1, <2>3 DEF I, S
<1>9. CASE ExecFails(c) \/ RestoreDone(c)
  <2>1. call[c].at \in {"exec", "restore"} /\ Unlock(c, "error")
    BY <1>9 DEF ExecFails, RestoreDone, At
  <2>2. Others /\ call'[c].at = "idle" /\ answer' = "error"
    BY <1>4, <2>1
  <2>3. /\ initSQL' = initSQL
        /\ sessionSQL' = IF call[c].at = "exec" /\ call[c].op = "setSession" THEN call[c].prev
                         ELSE sessionSQL
        /\ ~(call[c].at = "exec" /\ call[c].op = "setInit")
    BY <1>9 DEF ExecFails, RestoreDone, At, settings
  <2>4. I' = I /\ S' = S
    BY <1>1, <1>2, <2>1, <2>2, <2>3
  <2>. QED  BY <2>2, <2>4 DEF I, S, Settings!Fail
<1>. QED  BY <1>5, <1>6, <1>7, <1>8, <1>9 DEF HandlerStep
\* A request that fails half way leaves both settings as they were, and one
\* that succeeds replaces a script or appends to it in one step, whatever the
\* statements do and whoever goes away.
THEOREM MetadataImplementsScripts == MetadataSpec => ImplementsScripts
<1>1. MetadataInit => Settings!ScriptInit /\ SetShows
  <2>. SUFFICES ASSUME MetadataInit  PROVE Settings!ScriptInit /\ SetShows
    OBVIOUS
  <2>1. \A c \in Client : call[c].at = "idle"
    BY DEF MetadataInit, Idle
  <2>2. Setter("setInit") = {} /\ Setter("setSession") = {}
    BY <2>1 DEF Setter, At
  <2>3. Replaced("setInit", initSQL) = <<>> /\ Replaced("setSession", sessionSQL) = <<>>
    BY <2>2 DEF MetadataInit, Replaced
  <2>. QED  BY <2>1, <2>3 DEF MetadataInit, Settings!ScriptInit, SetShows, At
<1>2. /\ MetadataInv /\ MetadataInv' /\ SetShows /\ [MetadataNext]_metadataVars
      => [Settings!Succeed \/ Settings!Fail]_<<Replaced("setInit", initSQL),
                                               Replaced("setSession", sessionSQL), answer>>
  <2>. SUFFICES ASSUME MetadataInv, MetadataInv', SetShows, [MetadataNext]_metadataVars
                PROVE  [Settings!Succeed \/ Settings!Fail]_<<Replaced("setInit", initSQL),
                          Replaced("setSession", sessionSQL), answer>>
    OBVIOUS
  <2>1. CASE UNCHANGED metadataVars
    BY <2>1 DEF metadataVars, settings, Replaced, Setter, At
  <2>2. CASE MetadataNext
    BY <2>2, ScriptStep DEF MetadataNext
  <2>. QED  BY <2>1, <2>2
<1>. QED
  BY <1>1, <1>2, SetShowsStep, MetadataInvariant, PTL DEF MetadataSpec, ImplementsScripts,
     Settings!ScriptSpec
=============================================================================
