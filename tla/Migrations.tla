----------------------------- MODULE Migrations -----------------------------
(***************************************************************************)
(* Opening the database: store.Open, migrate, inTx and splitStatements of  *)
(* internal/store/store.go, with the processes that open it in             *)
(* cmd/rapidobot/main.go.  The bot opens it on every start; `rapidobot     *)
(* backup' is a second process on the same file, opens it the same way and *)
(* copies it with VACUUM INTO; `rapidobot restore' puts a copy back while  *)
(* the bot is stopped.                                                     *)
(*                                                                         *)
(* A migration is one transaction: its statements, then its row in         *)
(* schema_migrations.  Whether it is applied is read before it begins.     *)
(***************************************************************************)
EXTENDS Integers, Sequences, FiniteSets

CONSTANTS
  Bot,          \* the bot's process
  Backups,      \* processes started by `rapidobot backup'
  Files,        \* the migrations in the order of their names, see Lines
  MaxFaults     \* bound: processes that die or meet a failing statement

\* A file is the sequence of its lines.  An "end" line ends in a semicolon; a
\* "remark" is a comment line that does too.
Lines == {"code", "end", "remark"}

ASSUME MigrationsAssumption ==
  /\ Bot \notin Backups
  /\ Files \in Seq(Seq(Lines))
  /\ MaxFaults \in Nat

VARIABLES
  schema,       \* schema[m]: statements of file m that are committed
  log,          \* files with a row in schema_migrations
  task,         \* task[p]: where process p is, its file, its open transaction
  copy,         \* the last backup: the schema and log it holds, or None
  faults        \* number of faults so far

migrationVars == <<schema, log, task, copy, faults>>

Procs == {Bot} \cup Backups

Names == 1..Len(Files)

None == [log |-> {}]

-----------------------------------------------------------------------------
(* splitStatements.                                                        *)

\* Mutant: comment lines are kept, and their semicolons cut as well.
AllLines(lines) == DOMAIN lines

\* The lines that are left when the comments are dropped.
Cleaned(lines) == {i \in DOMAIN lines : lines[i] # "remark"}

\* The text is cut after the lines that end in a semicolon, and the last
\* statement needs none.
Cuts(m) ==
  {i \in Cleaned(Files[m]) : Files[m][i] # "code" \/ \A j \in Cleaned(Files[m]) : j <= i}

Count(m) == Cardinality(Cuts(m))

\* Whether SQLite can run the k-th statement of file m: it cannot when only a
\* comment cuts it, in the middle of the code.
Runs(m, k) ==
  \A i \in Cuts(m) :
    Cardinality({j \in Cuts(m) : j <= i}) = k
      => ~(Files[m][i] = "remark" /\ i > 1 /\ Files[m][i - 1] = "code")

-----------------------------------------------------------------------------
(* A process that opens the database.                                      *)

Down == [pc |-> "down", file |-> 1, done |-> 0]

At(p, pc) == task[p].pc = pc

Whole(applied) == [m \in Names |-> IF m \in applied THEN Count(m) ELSE 0]

\* The database and its last backup are those of any earlier release.
Init ==
  /\ \E n \in 0..Len(Files) : log = 1..n /\ schema = Whole(1..n)
  /\ \/ copy = None
     \/ \E n \in Names : copy = [log |-> 1..n, schema |-> Whole(1..n)]
  /\ task = [p \in Procs |-> Down]
  /\ faults = 0

Launch(p) ==
  /\ At(p, "down")
  /\ task' = [task EXCEPT ![p] = [Down EXCEPT !.pc = "check"]]
  /\ UNCHANGED <<schema, log, copy, faults>>

\* Mutant: Open returns after the first file that is already applied.
CheckFirst(p) ==
  /\ At(p, "check")
  /\ task' = [task EXCEPT ![p].pc = IF task[p].file \in Names \ log THEN "apply" ELSE "open"]
  /\ UNCHANGED <<schema, log, copy, faults>>

\* Mutant: the loop runs one name too far.
CheckPastTheEnd(p) ==
  /\ At(p, "check")
  /\ LET m == task[p].file
     IN task' = [task EXCEPT ![p] =
          IF m > Len(Files) + 1 THEN [@ EXCEPT !.pc = "open"]
          ELSE IF m \in log THEN [@ EXCEPT !.file = m + 1]
          ELSE [@ EXCEPT !.pc = "apply"]]
  /\ UNCHANGED <<schema, log, copy, faults>>

\* The loop of migrate up to the transaction.
Check(p) ==
  /\ At(p, "check")
  /\ LET m == task[p].file
     IN task' = [task EXCEPT ![p] =
          IF m \notin Names THEN [@ EXCEPT !.pc = "open"]
          ELSE IF m \in log THEN [@ EXCEPT !.file = m + 1]
          ELSE [@ EXCEPT !.pc = "apply"]]
  /\ UNCHANGED <<schema, log, copy, faults>>

\* SQLite has one writer: a transaction that has run a statement keeps the
\* others waiting at their first.
Writes(p) == At(p, "apply") /\ task[p].done > 0

MayWrite(p) == At(p, "apply") /\ \A q \in Procs \ {p} : ~Writes(q)

\* The next statement creates what is there already, or is not SQL, or the row
\* in schema_migrations exists.
Refused(p) ==
  LET m == task[p].file
      k == task[p].done + 1
  IN IF k > Count(m) THEN m \in log ELSE schema[m] >= k \/ ~Runs(m, k)

\* Mutant: the statements run outside the transaction.
ExecAtOnce(p) ==
  /\ MayWrite(p) /\ ~Refused(p)
  /\ task[p].done < Count(task[p].file)
  /\ task' = [task EXCEPT ![p].done = @ + 1]
  /\ schema' = [schema EXCEPT ![task[p].file] = @ + 1]
  /\ UNCHANGED <<log, copy, faults>>

Exec(p) ==
  /\ MayWrite(p) /\ ~Refused(p)
  /\ task[p].done < Count(task[p].file)
  /\ task' = [task EXCEPT ![p].done = @ + 1]
  /\ UNCHANGED <<schema, log, copy, faults>>

Commit(p) ==
  /\ MayWrite(p) /\ ~Refused(p)
  /\ LET m == task[p].file
     IN /\ task[p].done = Count(m)
        /\ schema' = [schema EXCEPT ![m] = Count(m)]
        /\ log' = log \cup {m}
        /\ task' = [task EXCEPT ![p] = [pc |-> "check", file |-> m + 1, done |-> 0]]
  /\ UNCHANGED <<copy, faults>>

\* inTx rolls back, Open returns the error and the process ends.
Fails(p) ==
  /\ MayWrite(p) /\ Refused(p)
  /\ task' = [task EXCEPT ![p] = Down]
  /\ UNCHANGED <<schema, log, copy, faults>>

\* A process is stopped or killed, or a statement of it meets an error of its
\* own (a full disk, five seconds without the lock): nothing of an open
\* transaction stays.
Dies(p) ==
  /\ ~At(p, "down") /\ faults < MaxFaults
  /\ faults' = faults + 1
  /\ task' = [task EXCEPT ![p] = Down]
  /\ UNCHANGED <<schema, log, copy>>

-----------------------------------------------------------------------------
(* backup and restore.                                                     *)

\* Mutant: the database is copied as it is found, without Open.
BackupOfFile(p) ==
  /\ ~At(p, "apply")
  /\ copy' = [log |-> log, schema |-> schema]
  /\ task' = [task EXCEPT ![p] = Down]
  /\ UNCHANGED <<schema, log, faults>>

\* VACUUM INTO reads what is committed.  The process ends with it.
BackupTo(p) ==
  /\ At(p, "open")
  /\ copy' = [log |-> log, schema |-> schema]
  /\ task' = [task EXCEPT ![p] = Down]
  /\ UNCHANGED <<schema, log, faults>>

\* The script stops the bot before it replaces the file.
Restore ==
  /\ \A p \in Procs : At(p, "down")
  /\ copy # None
  /\ log' = copy.log /\ schema' = copy.schema
  /\ UNCHANGED <<task, copy, faults>>

-----------------------------------------------------------------------------
Opens(p) == Launch(p) \/ Check(p) \/ Exec(p) \/ Commit(p) \/ Fails(p)

Next ==
  \/ \E p \in Procs : Opens(p) \/ Dies(p)
  \/ \E p \in Backups : BackupTo(p)
  \/ Restore

\* The container is restarted until it is told to stop, and a transaction that
\* was begun goes on.  Nothing says that backups are started.
Spec ==
  /\ Init /\ [][Next]_migrationVars
  /\ WF_migrationVars(Opens(Bot))
  /\ \A p \in Backups : WF_migrationVars(Check(p) \/ Exec(p) \/ Commit(p) \/ Fails(p))

-----------------------------------------------------------------------------
\* The variables have their types.
MigrationsTypeOK ==
  /\ log \subseteq Names
  /\ schema \in [Names -> Nat]
  /\ task \in [Procs -> [pc: {"down", "check", "apply", "open"},
                         file: 1..(Len(Files) + 1), done: Nat]]
  /\ \A p \in Procs : At(p, "apply") => task[p].file \in Names
  /\ copy # None => copy.log \subseteq Names /\ copy.schema \in [Names -> Nat]
  /\ faults \in 0..MaxFaults

\* What is committed is all the statements of the first migrations and none of
\* the others, whatever process died where, and so is what a backup holds: a
\* start never finds half a migration (store.go: one transaction for the
\* statements and the row).
WholeMigrations ==
  /\ \E n \in 0..Len(Files) : log = 1..n /\ schema = Whole(1..n)
  /\ copy # None => \E n \in 0..Len(Files) : copy = [log |-> 1..n, schema |-> Whole(1..n)]

\* A process that has opened the database works on the whole schema, also when
\* another one ran the migrations beside it, or made this one fail at first.
OpenMeansMigrated == \A p \in Procs : At(p, "open") => log = Names

\* A backup that is written holds every migration of this release, also when
\* the bot is in the middle of them.
BackupsAreMigrated ==
  [][copy' # copy => copy' = [log |-> Names, schema |-> Whole(Names)]]_migrationVars

\* The bot comes to serve for good once processes stop dying, from the database
\* of any earlier release and whatever backups run beside it: being refused by
\* a migration the other process ran is not a loop.
BotServes == <>[]At(Bot, "open")

=============================================================================
