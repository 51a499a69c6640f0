------------------------------- MODULE Sqlite -------------------------------
(* sqlite3 (src/internal/commands/sqlite/sqlite.go): a database file is read *)
(* whole, the statements run on a private copy in memory, and the copy is    *)
(* written back; a lock per name of a file keeps the runs of one shell       *)
(* apart. Several runs at once, each with a context that may end.            *)
EXTENDS CommandRun

CONSTANTS
  SqliteRuns,        \* sets of runs: a function from a run to what it is asked to do
  SqliteFiles,       \* the database file a run starts from: absent, or its rows
  MaxDatabase,       \* maxDatabaseBytes, in rows
  MaxResult          \* maxResultBytes, in rows

\* A run names its database, asks for a list of statements, and has its options.
ASSUME SqliteAssumption ==
  \A runs \in SqliteRuns : \A r \in DOMAIN runs :
    /\ runs[r].statements \in Seq(Seqs!ToSet(runs[r].statements))
    /\ {runs[r].bail, runs[r].readonly, runs[r].mayEnd} \subseteq BOOLEAN

Absent == [exists |-> FALSE, rows |-> <<>>]
Rows(rows) == [exists |-> TRUE, rows |-> rows]
Unlocked == [held |-> FALSE, waiters |-> <<>>]

(* A run: the database as it was named (one file may have two names, by a    *)
(* link), the statements, -readonly and -bail. A statement inserts its row,  *)
(* selects, fails or is forbidden; flips says whether it holds an odd number *)
(* of doubled quotes.                                                        *)
SqliteStart(runs, file) ==
  [phase |-> "running", before |-> file, file |-> file, runs |-> runs,
   locks |-> [name \in {runs[r].database : r \in DOMAIN runs} |-> Unlocked],
   at |-> [r \in DOMAIN runs |-> "start"], granted |-> {}, cancelled |-> {},
   copy |-> [r \in DOMAIN runs |-> <<>>], results |-> [r \in DOMAIN runs |-> <<>>],
   modified |-> [r \in DOMAIN runs |-> FALSE],
   codes |-> [r \in DOMAIN runs |-> 0], wrote |-> <<>>, code |-> 0]
SqliteStarts == {SqliteStart(runs, file) : runs \in SqliteRuns, file \in SqliteFiles}
SqliteInit == command = "sqlite3" /\ state \in SqliteStarts

-----------------------------------------------------------------------------
(* The statements.                                                           *)
isReadOnly(statement) == statement.does = "select"
isForbidden(statement) == statement.does = "attach"

\* The scanner takes the second of two quotes for the end of the string, and
\* what follows for quoted, until the next doubled quote: the statements up to
\* there reach SQLite as one text.
nextStatement(statements) ==
  LET Even(n) == Cardinality({i \in 1 .. n : statements[i].flips}) % 2 = 0
      ends == {n \in DOMAIN statements : Even(n)}
  IN IF ends = {} THEN Len(statements) ELSE Sets!Min(ends)

\* A result is a number of rows, or an error.
Failed == -1

\* One text: its statements in order, up to the first that fails.
queryStatement(rows, text) ==
  LET bad == {i \in DOMAIN text : text[i].does = "fail"}
      n == IF bad = {} THEN Len(text) ELSE Sets!Min(bad) - 1
      Inserted == Seqs!SelectSeq(SubSeq(text, 1, n), LAMBDA s : s.does = "insert")
  IN [rows |-> rows \o [i \in DOMAIN Inserted |-> Inserted[i].row], failed |-> bad # {},
      selects |-> \E i \in 1 .. n : text[i].does = "select"]

\* The next text. A failing one is a result among the others; with -bail it is the last.
executeText(was, bail) ==
  LET n == nextStatement(was.rest)
      text == SubSeq(was.rest, 1, n)
      after == SubSeq(was.rest, n + 1, Len(was.rest))
      Stops(rowsNow) == [was EXCEPT !.rows = rowsNow, !.rest = IF bail THEN <<>> ELSE after,
                                    !.results = Append(@, Failed)]
      done == queryStatement(was.rows, text)
  IN IF was.rest = <<>> THEN was
     ELSE IF \E j \in DOMAIN text : isForbidden(text[j]) THEN Stops(was.rows)
     ELSE IF done.failed THEN Stops(done.rows)
     ELSE [rest |-> after, rows |-> done.rows,
           results |-> Append(was.results, IF done.selects THEN Len(done.rows) ELSE 0),
           modified |-> was.modified \/ ~isReadOnly(text[1])]

Unexecuted(rows, statements) ==
  [rest |-> statements, rows |-> rows, results |-> <<>>, modified |-> FALSE]

executeAll(rows, statements, bail) ==
  LET Step[i \in 0 .. Len(statements)] ==
        IF i = 0 THEN Unexecuted(rows, statements) ELSE executeText(Step[i - 1], bail)
  IN Step[Len(statements)]

\* What the results take: a select its rows, an error a line unless it ends the run.
Size(results, bail) ==
  LET Of(r) == IF r = Failed THEN IF bail THEN 0 ELSE 1 ELSE r
      S[i \in 0 .. Len(results)] == IF i = 0 THEN 0 ELSE S[i - 1] + Of(results[i])
  IN S[Len(results)]

Bailed(r) == state.runs[r].bail /\ Failed \in Seqs!ToSet(state.results[r])

-----------------------------------------------------------------------------
(* The lock of a name: held, and the channels of those who wait for it.      *)
Name(r) == state.runs[r].database
IsAt(r, place) == command = "sqlite3" /\ state.phase = "running" /\ state.at[r] = place
GoesTo(st, r, place) == [st EXCEPT !.at[r] = place]
Fails(st, r, place) == [st EXCEPT !.at[r] = place, !.codes[r] = 1]

SqliteAcquire(r) ==
  /\ IsAt(r, "start")
  /\ Becomes(IF state.locks[Name(r)].held
             THEN GoesTo([state EXCEPT !.locks[Name(r)].waiters = Append(@, r)], r, "waiting")
             ELSE GoesTo([state EXCEPT !.locks[Name(r)].held = TRUE], r, "locked"))

SqliteGranted(r) ==
  /\ IsAt(r, "waiting") /\ r \in state.granted
  /\ Becomes(GoesTo([state EXCEPT !.granted = @ \ {r}], r, "locked"))

\* A select with both channels ready takes either: who was just handed the lock
\* may still leave by the end of its context, and is no longer among the waiters.
SqliteAbandons(r) ==
  /\ IsAt(r, "waiting") /\ r \in state.cancelled
  /\ Becomes(Fails([state EXCEPT !.locks[Name(r)].waiters = Seqs!RemoveFirst(@, r)], r, "done"))

\* Letting everybody in who waits.
releaseLockToAll(st, r) ==
  [st EXCEPT !.locks[Name(r)].waiters = <<>>,
             !.granted = @ \cup Seqs!ToSet(st.locks[Name(r)].waiters)]

\* The next in line is handed the lock: it stays held.
releaseLock(st, r) ==
  LET line == st.locks[Name(r)].waiters IN
  IF line = <<>> THEN [st EXCEPT !.locks[Name(r)] = Unlocked]
  ELSE [st EXCEPT !.locks[Name(r)].waiters = Tail(@), !.granted = @ \cup {Head(line)}]

SqliteReleases(r) ==
  /\ IsAt(r, "release")
  /\ Becomes(GoesTo(releaseLock(state, r), r, "done"))

-----------------------------------------------------------------------------
SqliteReads(r) ==
  /\ IsAt(r, "locked")
  /\ Becomes(IF state.file.exists /\ Len(state.file.rows) > MaxDatabase THEN Fails(state, r, "release")
             ELSE GoesTo([state EXCEPT !.copy[r] = state.file.rows], r, "execute"))

\* late: the thirty seconds of the statements have run out, or the context ended.
SqliteExecutes(r) ==
  /\ IsAt(r, "execute")
  /\ \E late \in {l \in BOOLEAN : r \in state.cancelled => l} :
       LET done == executeAll(state.copy[r], state.runs[r].statements, state.runs[r].bail) IN
       Becomes(IF late THEN Fails(state, r, "release")
               ELSE IF Size(done.results, state.runs[r].bail) > MaxResult THEN Fails(state, r, "release")
               ELSE GoesTo([state EXCEPT !.copy[r] = done.rows, !.results[r] = done.results,
                                         !.modified[r] = done.modified], r, "write"))

\* The copy replaces the file when a statement that is not a plain query
\* succeeded, whatever other ones did. refused: the filesystem refuses to.
SqliteWrites(r) ==
  /\ IsAt(r, "write")
  /\ \E refused \in BOOLEAN :
       LET writes == state.modified[r] /\ ~state.runs[r].readonly
           wrote == [state EXCEPT !.file = Rows(state.copy[r]), !.wrote = Append(@, r)]
           kept == IF writes THEN wrote ELSE state
       IN /\ refused => writes
          /\ Becomes(IF writes /\ (refused \/ Len(state.copy[r]) > MaxDatabase)
                     THEN Fails(state, r, "release")
                     ELSE IF Bailed(r) THEN Fails(kept, r, "release")
                     ELSE GoesTo(kept, r, "release"))

\* The script, a timeout or a kill ends the context of a run.
SqliteCancelled(r) ==
  /\ command = "sqlite3" /\ state.phase = "running"
  /\ state.runs[r].mayEnd /\ r \notin state.cancelled /\ state.at[r] # "done"
  /\ Becomes([state EXCEPT !.cancelled = @ \cup {r}])

\* Every run is done, or waits for a lock that nobody is left to release.
LeftWaiting(r) == state.at[r] = "waiting" /\ r \notin state.granted /\ r \notin state.cancelled
SqliteEnds ==
  /\ Runs("sqlite3", "running")
  /\ \A r \in DOMAIN state.runs : state.at[r] = "done" \/ (LeftWaiting(r) /\ ~state.runs[r].mayEnd)
  /\ Becomes(Done(0))

SqliteNext ==
  \/ /\ command = "sqlite3"
     /\ \E r \in DOMAIN state.runs :
          \/ SqliteAcquire(r) \/ SqliteGranted(r) \/ SqliteAbandons(r) \/ SqliteReleases(r)
          \/ SqliteReads(r) \/ SqliteExecutes(r) \/ SqliteWrites(r) \/ SqliteCancelled(r)
  \/ SqliteEnds

SqliteSpec == SqliteInit /\ [][SqliteNext]_commandVars

-----------------------------------------------------------------------------
(* What the file holds after all of it is what the runs that wrote to it,    *)
(* taken one after the other, make of it: no update is lost and none is cut  *)
(* in two; a run that failed without -bail has changed nothing, one that did *)
(* not has saved what it inserted; and a run is left waiting only when       *)
(* another gave up just as it was handed the lock. For runs that name the    *)
(* database in one way (commandSQLite3, acquireLock, releaseLock).           *)
Serial(runs, rows, order) ==
  LET After[i \in 0 .. Len(order)] ==
        IF i = 0 THEN rows
        ELSE executeAll(After[i - 1], runs[order[i]].statements, runs[order[i]].bail).rows
  IN After[Len(order)]

OneName == \A q, r \in DOMAIN state.runs : Name(q) = Name(r)

Inserts(r) == /\ ~state.runs[r].readonly
              /\ \E s \in Seqs!ToSet(state.runs[r].statements) : s.does = "insert"
              /\ \A s \in Seqs!ToSet(state.runs[r].statements) : ~s.flips

SqliteSerializes ==
  Ended("sqlite3") /\ OneName =>
    /\ state.file.rows = Serial(state.runs, state.before.rows, state.wrote)
    /\ \A r \in DOMAIN state.runs :
         /\ state.codes[r] = 1 /\ ~state.runs[r].bail => r \notin Seqs!ToSet(state.wrote)
         /\ state.at[r] = "done" /\ state.codes[r] = 0 /\ Inserts(r) => r \in Seqs!ToSet(state.wrote)
    /\ (\E r \in DOMAIN state.runs : state.at[r] = "waiting") =>
         \E q \in state.granted : state.at[q] = "done" /\ q \in state.cancelled
=============================================================================
