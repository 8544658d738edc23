-------------------------- MODULE MigrationsProofs --------------------------
(***************************************************************************)
(* Migrations never leave half a file behind, for every list of files and  *)
(* any number of processes that open the database.                         *)
(***************************************************************************)
EXTENDS Migrations, FiniteSetTheorems, TLAPS

\* The number of statements of a file is a number.
LEMMA CountType == \A m \in Names : Count(m) \in Nat
<1>1. SUFFICES ASSUME NEW m \in Names PROVE IsFiniteSet(Cuts(m))
  BY FS_CardinalityType DEF Count
<1>2. Files[m] \in Seq(Lines) BY MigrationsAssumption DEF Names
<1>3. DOMAIN Files[m] = 1..Len(Files[m]) /\ Len(Files[m]) \in Nat BY <1>2
<1>4. IsFiniteSet(1..Len(Files[m])) BY <1>3, FS_Interval
<1>5. Cuts(m) \subseteq 1..Len(Files[m]) BY <1>3 DEF Cuts, Cleaned
<1> QED BY <1>4, <1>5, FS_Subset

\* A database or a copy that holds the first n files, whole.
First(l, s, n) == l = 1..n /\ s = Whole(1..n)

Prefix(l, s) == \E n \in 0..Len(Files) : First(l, s, n)

CopyIsWhole == copy # None => \E n \in 0..Len(Files) : copy = [log |-> 1..n, schema |-> Whole(1..n)]

\* What each process knows of the files it has passed.  A process that is not
\* open has passed those before its own.
Passed(p) ==
  /\ task[p].pc \in {"down", "check", "apply", "open"}
  /\ task[p].file \in 1..(Len(Files) + 1)
  /\ task[p].done \in Nat
  /\ 1..(task[p].file - 1) \subseteq log
  /\ At(p, "down") => task[p].file = 1
  /\ At(p, "open") => task[p].file = Len(Files) + 1
  /\ At(p, "apply") => task[p].file \in Names

Rows == task \in [Procs -> [pc: {"down", "check", "apply", "open"},
                            file: 1..(Len(Files) + 1), done: Nat]]

MigrationsInv ==
  /\ Rows
  /\ \A p \in Procs : Passed(p)
  /\ Prefix(log, schema)
  /\ CopyIsWhole
  /\ faults \in 0..MaxFaults

\* The database of any earlier release satisfies the invariant.
LEMMA InitInv == Init => MigrationsInv
<1> SUFFICES ASSUME Init PROVE MigrationsInv
  OBVIOUS
<1>1. Len(Files) \in Nat BY MigrationsAssumption
<1>2. \A p \in Procs : task[p] = Down BY DEF Init
<1>3. Rows BY <1>1 DEF Init, Rows, Down
<1>4. \A p \in Procs : Passed(p) BY <1>1, <1>2 DEF Passed, Down, At
<1>5. Prefix(log, schema) BY DEF Init, Prefix, First
<1>6. CopyIsWhole BY DEF Init, CopyIsWhole, Names
<1>7. faults \in 0..MaxFaults BY MigrationsAssumption DEF Init
<1> QED BY <1>3, <1>4, <1>5, <1>6, <1>7 DEF MigrationsInv

\* A step of one process that only moves it keeps the invariant when the new
\* row fits.
LEMMA Moves ==
  ASSUME MigrationsInv, NEW p \in Procs,
         task' = [task EXCEPT ![p] = task'[p]],
         task'[p] \in [pc: {"down", "check", "apply", "open"},
                       file: 1..(Len(Files) + 1), done: Nat],
         Passed(p)', log \subseteq log'
  PROVE  Rows' /\ \A q \in Procs : Passed(q)'
<1>1. Rows' BY DEF MigrationsInv, Rows
<1>2. ASSUME NEW q \in Procs, q # p PROVE Passed(q)'
  <2>1. task'[q] = task[q] BY <1>2 DEF MigrationsInv, Rows
  <2> QED BY <2>1 DEF MigrationsInv, Passed, At
<1> QED BY <1>1, <1>2

\* The steps of store.Open keep the invariant.
LEMMA OpensInv == ASSUME MigrationsInv, NEW p \in Procs, Opens(p) PROVE MigrationsInv'
<1> DEFINE row == [pc: {"down", "check", "apply", "open"}, file: 1..(Len(Files) + 1), done: Nat]
<1>0. Len(Files) \in Nat BY MigrationsAssumption
<1>1. task[p] \in row /\ Passed(p) BY DEF MigrationsInv, Rows
<1>2. DOMAIN task = Procs BY DEF MigrationsInv, Rows
<1>3. CASE Commit(p)
  <2> DEFINE m == task[p].file
  <2>1. m \in Names /\ task[p].done = Count(m) /\ Count(m) \in Nat
    BY <1>1, <1>3, CountType DEF Commit, MayWrite, Passed
  <2>2. m \notin log BY <1>3, <2>1 DEF Commit, Refused
  <2>3. PICK n \in 0..Len(Files) : log = 1..n /\ schema = Whole(1..n)
    BY DEF MigrationsInv, Prefix, First
  <2>4. 1..(m - 1) \subseteq 1..n BY <1>1, <2>3 DEF Passed
  <2>5. m = n + 1
    <3>1. n < m BY <2>1, <2>2, <2>3 DEF Names
    <3>2. m - 1 <= n
      <4>1. CASE m = 1 BY <4>1, <2>3
      <4>2. CASE m # 1
        <5>1. m - 1 \in 1..(m - 1) BY <4>2, <2>1 DEF Names
        <5> QED BY <5>1, <2>4
      <4> QED BY <4>1, <4>2
    <3> QED BY <3>1, <3>2, <2>1, <2>3 DEF Names
  <2>6. log' = 1..(n + 1) BY <1>3, <2>3, <2>5 DEF Commit
  <2>7. schema' = Whole(1..(n + 1))
    <3>1. schema' = [schema EXCEPT ![m] = Count(m)] BY <1>3 DEF Commit
    <3> QED BY <3>1, <2>1, <2>3, <2>5 DEF Whole, Names
  <2>8. n + 1 \in 0..Len(Files) BY <2>1, <2>5, <2>3 DEF Names
  <2>9. Prefix(log, schema)' BY <2>6, <2>7, <2>8 DEF Prefix, First, Whole, Names, Count, Cuts, Cleaned
  <2>10. task'[p] = [pc |-> "check", file |-> m + 1, done |-> 0] BY <1>2, <1>3 DEF Commit
  <2>11. m + 1 \in 1..(Len(Files) + 1) BY <1>0, <2>1 DEF Names
  <2>12. task'[p] \in row BY <2>10, <2>11
  <2>13. 1..m \subseteq log' BY <2>5, <2>6
  <2>14. (m + 1) - 1 = m BY <2>1 DEF Names
  <2>15. Passed(p)' BY <2>10, <2>11, <2>13, <2>14 DEF Passed, At
  <2>16. task' = [task EXCEPT ![p] = task'[p]] BY <1>3, <2>10 DEF Commit
  <2>17. log \subseteq log' BY <1>3 DEF Commit
  <2>18. Rows' /\ \A q \in Procs : Passed(q)' BY <2>12, <2>15, <2>16, <2>17, Moves
  <2>19. CopyIsWhole' /\ faults' \in 0..MaxFaults
    BY <1>3 DEF Commit, MigrationsInv, CopyIsWhole, Whole, Names, Count, Cuts, Cleaned
  <2> QED BY <2>9, <2>18, <2>19 DEF MigrationsInv
<1>4. CASE Launch(p) \/ Check(p) \/ Exec(p) \/ Fails(p)
  <2>1. UNCHANGED <<schema, log, copy, faults>> BY <1>4 DEF Launch, Check, Exec, Fails
  <2>2. /\ task'[p] \in row /\ Passed(p)'
        /\ task' = [task EXCEPT ![p] = task'[p]]
    <3>1. CASE Launch(p)
      <4>1. task'[p] = [pc |-> "check", file |-> 1, done |-> 0] BY <3>1, <1>2 DEF Launch, Down
      <4>2. Passed(p)' BY <4>1, <1>0 DEF Passed, At
      <4>3. task' = [task EXCEPT ![p] = task'[p]] BY <3>1, <1>2 DEF Launch
      <4>4. task'[p] \in row BY <4>1, <1>0
      <4> QED BY <4>2, <4>3, <4>4
    <3>2. CASE Fails(p)
      <4>1. task'[p] = Down BY <3>2, <1>2 DEF Fails
      <4>2. Passed(p)' BY <4>1, <1>0 DEF Passed, At, Down
      <4> QED BY <4>1, <4>2, <3>2, <1>0 DEF Fails, Down
    <3>3. CASE Exec(p)
      <4>1. /\ task'[p].pc = "apply" /\ task'[p].file = task[p].file
            /\ task'[p].done = task[p].done + 1
            /\ task' = [task EXCEPT ![p] = task'[p]]
            /\ task'[p] \in row
        BY <3>3, <1>1, <1>2 DEF Exec, MayWrite, At
      <4>2. Passed(p)' BY <4>1, <1>1, <2>1, <3>3 DEF Passed, At, Exec, MayWrite
      <4> QED BY <4>1, <4>2
    <3>4. CASE Check(p)
      <4> DEFINE m == task[p].file
      <4>1. CASE m \notin Names
        <5>1. /\ task'[p].pc = "open" /\ task'[p].file = m
              /\ task'[p].done = task[p].done
              /\ task' = [task EXCEPT ![p] = task'[p]]
              /\ task'[p] \in row
          BY <3>4, <4>1, <1>1, <1>2 DEF Check
        <5>2. m = Len(Files) + 1 BY <4>1, <1>0, <1>1 DEF Names
        <5> QED BY <5>1, <5>2, <1>1, <2>1 DEF Passed, At
      <4>2. CASE m \in Names /\ m \in log
        <5>0. m + 1 \in 1..(Len(Files) + 1) /\ (m + 1) - 1 = m BY <4>2, <1>0 DEF Names
        <5>1. /\ task'[p].pc = "check" /\ task'[p].file = m + 1
              /\ task'[p].done = task[p].done
              /\ task' = [task EXCEPT ![p] = task'[p]]
              /\ task'[p] \in row
          BY <3>4, <4>2, <5>0, <1>1, <1>2 DEF Check, At
        <5>2. 1..m \subseteq log'
          BY <1>1, <4>2, <2>1 DEF Passed, Names
        <5> QED BY <5>0, <5>1, <5>2, <1>1 DEF Passed, At
      <4>3. CASE m \in Names /\ m \notin log
        <5>1. /\ task'[p].pc = "apply" /\ task'[p].file = m
              /\ task'[p].done = task[p].done
              /\ task' = [task EXCEPT ![p] = task'[p]]
              /\ task'[p] \in row
          BY <3>4, <4>3, <1>1, <1>2 DEF Check
        <5> QED BY <5>1, <4>3, <1>1, <2>1 DEF Passed, At
      <4> QED BY <4>1, <4>2, <4>3
    <3> QED BY <1>4, <3>1, <3>2, <3>3, <3>4
  <2>3. Rows' /\ \A q \in Procs : Passed(q)' BY <2>1, <2>2, Moves
  <2>4. Prefix(log, schema)' /\ CopyIsWhole' /\ faults' \in 0..MaxFaults
    BY <2>1 DEF MigrationsInv, Prefix, First, CopyIsWhole, Whole, Names, Count, Cuts, Cleaned
  <2> QED BY <2>3, <2>4 DEF MigrationsInv
<1> QED BY <1>3, <1>4 DEF Opens

\* So does every other step: a death, a backup, a restore.
LEMMA NextInv == MigrationsInv /\ [Next]_migrationVars => MigrationsInv'
<1> SUFFICES ASSUME MigrationsInv, [Next]_migrationVars PROVE MigrationsInv'
  OBVIOUS
<1>0. Len(Files) \in Nat BY MigrationsAssumption
<1>1. ASSUME NEW p \in Procs, Opens(p) PROVE MigrationsInv' BY <1>1, OpensInv
<1>2. ASSUME NEW p \in Procs, Dies(p) \/ BackupTo(p) PROVE MigrationsInv'
  <2>1. task' = [task EXCEPT ![p] = Down] /\ UNCHANGED <<schema, log>>
    BY <1>2 DEF Dies, BackupTo
  <2>2. task'[p] = Down BY <2>1 DEF MigrationsInv, Rows
  <2>3. Passed(p)' BY <2>2, <1>0 DEF Passed, At, Down
  <2>4. Rows' /\ \A q \in Procs : Passed(q)'
    <3>1. task'[p] \in [pc: {"down", "check", "apply", "open"}, file: 1..(Len(Files) + 1), done: Nat]
      BY <2>2, <1>0 DEF Down
    <3>2. task' = [task EXCEPT ![p] = task'[p]] /\ log \subseteq log' BY <2>1, <2>2
    <3> QED BY <2>3, <3>1, <3>2, Moves
  <2>5. Prefix(log, schema)'
    BY <2>1 DEF MigrationsInv, Prefix, First, Whole, Names, Count, Cuts, Cleaned
  <2>6. CopyIsWhole'
    BY <1>2 DEF Dies, BackupTo, MigrationsInv, CopyIsWhole, Prefix, First, Whole, Names, Count, Cuts, Cleaned
  <2>7. faults' \in 0..MaxFaults BY <1>2, MigrationsAssumption DEF Dies, BackupTo, MigrationsInv
  <2> QED BY <2>4, <2>5, <2>6, <2>7 DEF MigrationsInv
<1>3. CASE Restore
  <2>1. Rows' /\ CopyIsWhole' /\ faults' \in 0..MaxFaults
    BY <1>3 DEF Restore, MigrationsInv, Rows, CopyIsWhole, Whole, Names, Count, Cuts, Cleaned
  <2>2. ASSUME NEW p \in Procs PROVE Passed(p)'
    <3>1. task' = task /\ At(p, "down") /\ Passed(p) BY <1>3 DEF Restore, MigrationsInv
    <3>2. task[p].file = 1 BY <3>1 DEF Passed
    <3> QED BY <3>1, <3>2, <1>0 DEF Passed, At
  <2>3. PICK n \in 0..Len(Files) : copy = [log |-> 1..n, schema |-> Whole(1..n)]
    BY <1>3 DEF Restore, MigrationsInv, CopyIsWhole
  <2>4. log' = 1..n /\ schema' = Whole(1..n) BY <1>3, <2>3 DEF Restore
  <2>5. Prefix(log, schema)' BY <2>4 DEF Prefix, First, Whole, Names, Count, Cuts, Cleaned
  <2> QED BY <2>1, <2>2, <2>5 DEF MigrationsInv
<1>4. CASE UNCHANGED migrationVars
  BY <1>4 DEF migrationVars, MigrationsInv, Rows, Passed, At, Prefix, First, CopyIsWhole, Whole, Names, Count, Cuts, Cleaned
<1>5. Backups \subseteq Procs BY DEF Procs
<1> QED BY <1>1, <1>2, <1>3, <1>4, <1>5 DEF Next

\* The invariant gives the properties.
LEMMA InvGives == MigrationsInv => MigrationsTypeOK /\ WholeMigrations /\ OpenMeansMigrated
<1> SUFFICES ASSUME MigrationsInv PROVE MigrationsTypeOK /\ WholeMigrations /\ OpenMeansMigrated
  OBVIOUS
<1>0. Len(Files) \in Nat BY MigrationsAssumption
<1>1. ASSUME NEW n \in 0..Len(Files)
      PROVE  1..n \subseteq Names /\ Whole(1..n) \in [Names -> Nat]
  BY <1>0, CountType DEF Names, Whole
<1>2. WholeMigrations BY DEF MigrationsInv, Prefix, First, CopyIsWhole, WholeMigrations
<1>3. OpenMeansMigrated
  <2>1. SUFFICES ASSUME NEW p \in Procs, At(p, "open") PROVE log = Names
    BY DEF OpenMeansMigrated
  <2>2. task[p].file = Len(Files) + 1 /\ 1..(task[p].file - 1) \subseteq log
    BY <2>1 DEF MigrationsInv, Passed
  <2>3. Names \subseteq log BY <2>2, <1>0 DEF Names
  <2>4. log \subseteq Names BY <1>1 DEF MigrationsInv, Prefix, First
  <2> QED BY <2>3, <2>4
<1>4. MigrationsTypeOK
  <2>1. log \subseteq Names /\ schema \in [Names -> Nat]
    BY <1>1 DEF MigrationsInv, Prefix, First
  <2>2. copy # None => copy.log \subseteq Names /\ copy.schema \in [Names -> Nat]
    BY <1>1 DEF MigrationsInv, CopyIsWhole
  <2>3. \A p \in Procs : At(p, "apply") => task[p].file \in Names
    BY DEF MigrationsInv, Passed
  <2> QED BY <2>1, <2>2, <2>3 DEF MigrationsInv, Rows, MigrationsTypeOK
<1> QED BY <1>2, <1>3, <1>4

\* The variables keep their types (store.Open, migrate, BackupTo).
THEOREM MigrationsTypeCorrect == Spec => []MigrationsTypeOK
<1> QED BY InitInv, NextInv, InvGives, PTL DEF Spec

\* Whatever processes run and wherever they die, what is committed is the first
\* migrations, each of them whole (migrate, inTx).
THEOREM NoHalfMigration == Spec => []WholeMigrations
<1> QED BY InitInv, NextInv, InvGives, PTL DEF Spec

\* An open database has every migration, however many processes opened it at
\* once (migrate).
THEOREM OpenedIsMigrated == Spec => []OpenMeansMigrated
<1> QED BY InitInv, NextInv, InvGives, PTL DEF Spec

\* A backup that is written holds every migration (backup, BackupTo).
THEOREM BackupsAreComplete == Spec => BackupsAreMigrated
<1>1. ASSUME MigrationsInv, Next
      PROVE  copy' # copy => copy' = [log |-> Names, schema |-> Whole(Names)]
  <2>1. SUFFICES ASSUME copy' # copy PROVE copy' = [log |-> Names, schema |-> Whole(Names)]
    OBVIOUS
  <2>2. PICK p \in Backups : BackupTo(p)
    BY <1>1, <2>1 DEF Next, Opens, Launch, Check, Exec, Commit, Fails, Dies, Restore
  <2>3. p \in Procs /\ At(p, "open") /\ copy' = [log |-> log, schema |-> schema]
    BY <2>2 DEF BackupTo, Procs
  <2>4. log = Names BY <1>1, <2>3, InvGives DEF OpenMeansMigrated
  <2>5. PICK n \in 0..Len(Files) : log = 1..n /\ schema = Whole(1..n)
    BY <1>1 DEF MigrationsInv, Prefix, First
  <2> QED BY <2>3, <2>4, <2>5
<1>2. MigrationsInv /\ [Next]_migrationVars
        => [copy' # copy => copy' = [log |-> Names, schema |-> Whole(Names)]]_migrationVars
  BY <1>1
<1> QED BY <1>2, InitInv, NextInv, PTL DEF Spec, BackupsAreMigrated

-----------------------------------------------------------------------------
(* Why a start is not a loop.                                              *)

\* No statement is cut by a comment: the lines at which the text is cut are
\* none of the comments, so SQLite can run each of them (splitStatements).
LEMMA StatementsRun == \A m \in Names : \A k : Runs(m, k)
BY DEF Runs, Cuts, Cleaned

\* A statement or a row that is refused is one of a file that is applied.
LEMMA RefusedIsApplied ==
  ASSUME MigrationsInv, NEW p \in Procs, MayWrite(p), Refused(p)
  PROVE  task[p].file \in Names /\ task[p].file \in log
<1> DEFINE m == task[p].file
           k == task[p].done + 1
<1>1. m \in Names /\ task[p].done \in Nat
  BY DEF MayWrite, MigrationsInv, Passed
<1>2. CASE k > Count(m)
  BY <1>1, <1>2 DEF Refused
<1>3. CASE ~(k > Count(m))
  <2>1. schema[m] >= k
    BY <1>1, <1>3, StatementsRun DEF Refused
  <2>2. schema[m] # 0
    BY <1>1, <2>1
  <2>3. PICK n \in 0..Len(Files) : log = 1..n /\ schema = Whole(1..n)
    BY DEF MigrationsInv, Prefix, First
  <2>4. m \in 1..n
    BY <1>1, <2>2, <2>3 DEF Whole
  <2> QED
    BY <1>1, <2>3, <2>4
<1> QED
  BY <1>2, <1>3

\* A process that opens the database is one file, one statement or one look
\* further, within the statements of its file, or is down again.
Forward(p) ==
  \/ At(p, "down") /\ At(p, "check")'
  \/ task'[p].file = task[p].file + 1 /\ At(p, "check")'
  \/ /\ task'[p].file = task[p].file
     /\ At(p, "check") /\ (At(p, "apply")' \/ At(p, "open")')
  \/ /\ task'[p].file = task[p].file /\ At(p, "apply") /\ At(p, "apply")'
     /\ task'[p].done = task[p].done + 1 /\ task'[p].done <= Count(task[p].file)

(* A start that fails by itself, and not by a fault, fails at a migration  *)
(* that is applied by then, with all those before it: another process ran  *)
(* it meanwhile, and the next start gets past it (migrate, inTx).          *)
FailuresAreOvertaken ==
  [][\A p \in Procs : Opens(p) =>
       \/ Forward(p)
       \/ At(p, "down")' /\ 1..task[p].file \subseteq log']_migrationVars

(* The part of BotServes that needs no fairness: opening the database goes *)
(* forward, over at most Len(Files) files and the statements of each, or   *)
(* loses to another process that got further, for any list of files.       *)
THEOREM StartsGetFurther == Spec => FailuresAreOvertaken
<1> DEFINE Further == \A p \in Procs : Opens(p) =>
       \/ Forward(p)
       \/ At(p, "down")' /\ 1..task[p].file \subseteq log'
<1>1. MigrationsInv /\ [Next]_migrationVars => [Further]_migrationVars
  <2> SUFFICES ASSUME MigrationsInv, NEW p \in Procs, Opens(p)
               PROVE  Forward(p) \/ (At(p, "down")' /\ 1..task[p].file \subseteq log')
    OBVIOUS
  <2>1. task \in [Procs -> [pc: {"down", "check", "apply", "open"},
                            file: 1..(Len(Files) + 1), done: Nat]]
    BY DEF MigrationsInv, Rows
  <2>2. PICK r : r = task[p]
    OBVIOUS
  <2>3. r \in [pc: {"down", "check", "apply", "open"}, file: 1..(Len(Files) + 1), done: Nat]
    BY <2>1, <2>2
  <2>4. Len(Files) \in Nat
    BY MigrationsAssumption
  <2>5. CASE Launch(p)
    BY <2>1, <2>5 DEF Launch, Down, Forward, At
  <2>6. CASE Check(p)
    <3>1. task'[p] = IF r.file \notin Names THEN [r EXCEPT !.pc = "open"]
                     ELSE IF r.file \in log THEN [r EXCEPT !.file = r.file + 1]
                     ELSE [r EXCEPT !.pc = "apply"]
      BY <2>1, <2>2, <2>6 DEF Check
    <3>2. r.pc = "check"
      BY <2>2, <2>6 DEF Check, At
    <3> QED
      BY <2>2, <2>3, <3>1, <3>2 DEF Forward, At
  <2>7. CASE Exec(p)
    <3>1. task'[p] = [r EXCEPT !.done = r.done + 1]
      BY <2>1, <2>2, <2>7 DEF Exec
    <3>2. r.pc = "apply" /\ r.done < Count(r.file) /\ r.file \in Names
      BY <2>2, <2>7 DEF Exec, MayWrite, At, MigrationsInv, Passed
    <3>3. r.done + 1 <= Count(r.file)
      BY <2>3, <3>2, CountType
    <3> QED
      BY <2>2, <2>3, <3>1, <3>2, <3>3 DEF Forward, At
  <2>8. CASE Commit(p)
    <3>1. task'[p] = [pc |-> "check", file |-> r.file + 1, done |-> 0]
      BY <2>1, <2>2, <2>8 DEF Commit
    <3> QED
      BY <2>2, <3>1 DEF Forward, At
  <2>9. CASE Fails(p)
    <3>1. task'[p] = Down /\ log' = log
      BY <2>1, <2>9 DEF Fails
    <3>2. r.file \in Names /\ r.file \in log
      BY <2>2, <2>9, RefusedIsApplied DEF Fails
    <3>3. PICK n \in 0..Len(Files) : log = 1..n
      BY DEF MigrationsInv, Prefix, First
    <3>4. 1..r.file \subseteq log
      BY <2>4, <3>2, <3>3 DEF Names
    <3> QED
      BY <2>2, <3>1, <3>4 DEF At, Down
  <2> QED
    BY <2>5, <2>6, <2>7, <2>8, <2>9 DEF Opens
<1>2. Spec => [][Further]_migrationVars
  BY <1>1, InitInv, NextInv, PTL DEF Spec
<1> QED
  BY <1>2 DEF FailuresAreOvertaken

=============================================================================
