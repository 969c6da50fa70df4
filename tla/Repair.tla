-------------------------------- MODULE Repair ---------------------------------
(***************************************************************************)
(* RepairDB (repair.cc): logs become tables, tables are scanned and, when  *)
(* part of one cannot be read, copied, and a new descriptor lists them     *)
(* all at level 0.  What is replaced goes to the lost directory.  Any call *)
(* on a file, a read of it too, may fail once and work the next time, and  *)
(* the process may stop between any two of them and run RepairDB again.    *)
(*                                                                         *)
(* A file is the entries that can be read from it and whether reading it   *)
(* ends without an error when no call fails; an entry is its sequence      *)
(* number.                                                                 *)
(***************************************************************************)
EXTENDS Integers, FiniteSets

CONSTANTS Entries,        \* sequence numbers
          RepairLogs,     \* numbers of the logs there may be
          RepairTables,   \* numbers of the tables there may be
          MaxRuns,        \* bound on the runs of RepairDB
          MaxFaults       \* bound on the calls that fail in a run

VARIABLES dir,       \* name -> file, in the database directory
          lost,      \* name -> file, in its lost directory
          repairer,  \* Repairer, while it runs
          runs,      \* runs of RepairDB begun
          faults,    \* calls that failed in the last of them
          original   \* the entries that could be read before the first, until a call fails

repairVars == <<dir, lost, repairer, runs, faults, original>>

LogName(n) == <<"log", n>>
TableName(n) == <<"table", n>>
ManifestName(n) == <<"manifest", n>>
TempName == <<"temp", 1>>
CurrentName == <<"current", 0>>

File(entries, clean) == [entries |-> entries, clean |-> clean]
Unfinished == File({}, FALSE)

Put(d, name, f) == [n \in DOMAIN d \cup {name} |-> IF n = name THEN f ELSE d[n]]
Gone(d, name) == [n \in DOMAIN d \ {name} |-> d[n]]
NumbersOf(kind) == {name[2] : name \in {m \in DOMAIN dir : m[1] = kind}}
Readable(d) == UNION {d[n].entries : n \in {m \in DOMAIN d : m[1] \in {"log", "table"}}}
Largest(S) == IF S = {} THEN 0 ELSE CHOOSE x \in S : \A y \in S : y <= x

Idle == [at |-> "idle"]

\* Any database: logs and tables that hold some of the entries, tables perhaps damaged, and a
\* descriptor.  Damage to a log is what cannot be read of it: ConvertLogToTable takes the rest.
Init ==
  /\ \E logs \in SUBSET RepairLogs, tables \in SUBSET RepairTables :
       \E held \in [{LogName(n) : n \in logs} \cup {TableName(n) : n \in tables} ->
                      [entries : SUBSET Entries, clean : BOOLEAN]] :
         /\ \A n \in logs : held[LogName(n)].clean
         /\ dir = Put(held, ManifestName(1), File({}, TRUE))
  /\ lost = [n \in {} |-> Unfinished]
  /\ repairer = Idle /\ runs = 0 /\ faults = 0
  /\ original = Readable(dir)

-----------------------------------------------------------------------------
\* FindFiles: the next number is past that of every file but the descriptors, and no one looks at
\* the lost directory.  Remembered are what could be read at the start, and whether a call on a log
\* or a table fails (faulty).
FindFiles ==
  /\ repairer.at = "idle" /\ runs < MaxRuns
  /\ runs' = runs + 1
  /\ repairer' = [at |-> "logs", logs |-> NumbersOf("log"), tables |-> NumbersOf("table"),
                  number |-> 0, copy |-> 0, got |-> {}, max_sequence |-> 0, listed |-> {}, last |-> 0,
                  manifests |-> NumbersOf("manifest"),
                  next |-> Largest(NumbersOf("log") \cup NumbersOf("table") \cup NumbersOf("temp")) + 1,
                  faulty |-> FALSE, start |-> Readable(dir)]
  /\ faults' = 0
  /\ UNCHANGED <<dir, lost, original>>

\* The locals of a step that ended are forgotten.
EndOf(r) == [r EXCEPT !.number = 0, !.copy = 0, !.got = {}, !.max_sequence = 0]

Go(to) == repairer' = [repairer EXCEPT !.at = to]
Failed(to) == repairer' = [repairer EXCEPT !.at = to, !.faulty = TRUE]

\* ConvertLogToTable reads all of the log into a memtable.  It cannot be opened, or one of its
\* blocks cannot be read, which log::Reader takes for the end of the log.
BeginLog(n, ok) ==
  /\ repairer.at = "logs" /\ n \in repairer.logs
  /\ \/ /\ ~ok
        /\ repairer' = [repairer EXCEPT !.at = "archive", !.number = n, !.faulty = TRUE]
        /\ UNCHANGED dir
     \/ \E end \in IF ok THEN {Largest(Entries) + 1} ELSE Entries :
          LET got == {e \in dir[LogName(n)].entries : e < end}
          IN  /\ repairer' = [repairer EXCEPT !.at = "build", !.number = n, !.copy = repairer.next,
                                !.next = @ + 1, !.got = got, !.faulty = @ \/ ~ok]
              /\ dir' = IF got = {} THEN dir ELSE Put(dir, TableName(repairer.next), Unfinished)
  /\ UNCHANGED <<lost, runs>>

\* BuildTable: no table without entries; after an error it is deleted, unless that fails too.
EndLog(ok) ==
  LET entries == repairer.got
      table == TableName(repairer.copy)
  IN  /\ repairer.at = "build" /\ (ok \/ entries # {})
      /\ IF entries = {} THEN UNCHANGED dir
         ELSE IF ok THEN dir' = Put(dir, table, File(entries, TRUE))
         ELSE dir' \in {dir, Gone(dir, table)}
      /\ repairer' = [repairer EXCEPT !.at = "archive", !.faulty = @ \/ ~ok,
                        !.tables = IF ok /\ entries # {} THEN @ \cup {repairer.copy} ELSE @]
      /\ UNCHANGED <<lost, runs>>

\* ArchiveFile: a rename, whose failure is ignored.
Archive(name, ok) ==
  IF ok THEN dir' = Gone(dir, name) /\ lost' = Put(lost, name, dir[name]) ELSE UNCHANGED <<dir, lost>>

\* Faulty variant of ArchiveLog: the log is removed.
DeleteLog(ok) ==
  /\ repairer.at = "archive"
  /\ dir' = Gone(dir, LogName(repairer.number)) /\ UNCHANGED lost
  /\ repairer' = EndOf([repairer EXCEPT !.at = "logs", !.logs = @ \ {repairer.number}])
  /\ UNCHANGED runs

ArchiveLog(ok) ==
  /\ repairer.at = "archive"
  /\ Archive(LogName(repairer.number), ok)
  /\ repairer' = EndOf([repairer EXCEPT !.at = "logs", !.logs = @ \ {repairer.number}])
  /\ UNCHANGED runs

LogsDone ==
  repairer.at = "logs" /\ repairer.logs = {} /\ Go("tables") /\ UNCHANGED <<dir, lost, runs>>

-----------------------------------------------------------------------------
Scanned(n) == [repairer EXCEPT !.tables = @ \ {n}, !.number = n]

\* ScanTable gives a table up whose size is not to be had: it is archived.
DropTable(n, ok) ==
  /\ repairer.at = "tables" /\ n \in repairer.tables /\ ~ok
  /\ repairer' = [Scanned(n) EXCEPT !.at = "drop", !.faulty = TRUE]
  /\ UNCHANGED <<dir, lost, runs>>

ArchiveDropped(ok) ==
  /\ repairer.at = "drop"
  /\ Archive(TableName(repairer.number), ok)
  /\ repairer' = EndOf([repairer EXCEPT !.at = "tables"])
  /\ UNCHANGED runs

\* ScanTable: a table that reads without an error is listed, with the largest sequence number seen in
\* it, and another one goes to RepairTable.  A read that fails hides any of the entries.
ScanTable(n, ok) ==
  /\ repairer.at = "tables" /\ n \in repairer.tables
  /\ LET t == dir[TableName(n)]
     IN  \E seen \in IF ok THEN {t.entries} ELSE SUBSET t.entries :
           repairer' = IF ok /\ t.clean
                         THEN EndOf([Scanned(n) EXCEPT !.listed = @ \cup {n}, !.last = Largest({@} \cup seen)])
                         ELSE [Scanned(n) EXCEPT !.at = "repair", !.max_sequence = Largest(seen),
                                                 !.faulty = @ \/ ~ok]
  /\ UNCHANGED <<dir, lost, runs>>

\* RepairTable: without a file for the copy the table is left where it is.
NewCopy(ok) ==
  /\ repairer.at = "repair"
  /\ repairer' = IF ok THEN [repairer EXCEPT !.at = "copy", !.copy = repairer.next, !.next = @ + 1]
                 ELSE EndOf([repairer EXCEPT !.at = "tables", !.next = @ + 1, !.faulty = TRUE])
  /\ dir' = IF ok THEN Put(dir, TableName(repairer.next), Unfinished) ELSE dir
  /\ UNCHANGED <<lost, runs>>

\* Whether all of the table was read is not looked at: a read that fails shortens the copy.
CopyTable(ok) ==
  /\ repairer.at = "copy"
  /\ LET entries == dir[TableName(repairer.number)].entries
     IN  \E got \in IF ok THEN {entries} ELSE SUBSET entries :
           repairer' = [repairer EXCEPT !.at = "copied", !.got = got, !.faulty = @ \/ ~ok]
  /\ UNCHANGED <<dir, lost, runs>>

\* The source is archived before the copy is finished.
ArchiveTable(ok) ==
  /\ repairer.at = "copied"
  /\ Archive(TableName(repairer.number), ok)
  /\ Go("finish")
  /\ UNCHANGED runs

\* The copy is finished, or abandoned when nothing was copied; after an error it is deleted, unless
\* that fails too.
FinishCopy(ok) ==
  LET copy == TableName(repairer.copy)
      entries == repairer.got
  IN  /\ repairer.at = "finish"
      /\ IF ~ok THEN dir' \in {dir, Gone(dir, copy)}
         ELSE dir' = IF entries = {} THEN dir ELSE Put(dir, copy, File(entries, TRUE))
      /\ repairer' = IF ok /\ entries # {} THEN [repairer EXCEPT !.at = "rename"]
                     ELSE EndOf([repairer EXCEPT !.at = "tables", !.faulty = @ \/ ~ok])
      /\ UNCHANGED <<lost, runs>>

\* The copy takes the place of the table, listed with what the scan saw of it.
RenameCopy(ok) ==
  LET copy == TableName(repairer.copy)
      orig == TableName(repairer.number)
  IN  /\ repairer.at = "rename"
      /\ IF ok THEN dir' = Put(Gone(dir, copy), orig, dir[copy])
         ELSE dir' \in {dir, Gone(dir, copy)}
      /\ repairer' = EndOf(IF ok THEN [repairer EXCEPT !.at = "tables", !.listed = @ \cup {repairer.number},
                                                       !.last = Largest({@, repairer.max_sequence})]
                           ELSE [repairer EXCEPT !.at = "tables", !.faulty = TRUE])
      /\ UNCHANGED <<lost, runs>>

-----------------------------------------------------------------------------
\* The edit WriteDescriptor makes: every listed table, the largest sequence number, the next number.
Descriptor ==
  [clean |-> TRUE, entries |-> {}, tables |-> repairer.listed, next |-> repairer.next,
   last |-> repairer.last]

\* WriteDescriptor writes a temporary file first; RepairDB fails with it.
WriteTemp(ok) ==
  /\ repairer.at = "tables" /\ repairer.tables = {}
  /\ IF ok THEN dir' = Put(dir, TempName, Descriptor) /\ Go("manifests")
     ELSE dir' \in {dir, Gone(dir, TempName), Put(dir, TempName, Unfinished)} /\ Failed("failed")
  /\ UNCHANGED <<lost, runs>>

ArchiveManifest(n, ok) ==
  /\ repairer.at = "manifests" /\ n \in repairer.manifests
  /\ Archive(ManifestName(n), ok)
  /\ repairer' = [repairer EXCEPT !.manifests = @ \ {n}]
  /\ UNCHANGED runs

InstallManifest(ok) ==
  /\ repairer.at = "manifests" /\ repairer.manifests = {}
  /\ IF ok THEN dir' = Put(Gone(dir, TempName), ManifestName(1), dir[TempName]) /\ Go("current")
     ELSE dir' \in {dir, Gone(dir, TempName)} /\ Failed("failed")
  /\ UNCHANGED <<lost, runs>>

SetCurrentFile(ok) ==
  /\ repairer.at = "current"
  /\ IF ok THEN dir' = Put(dir, CurrentName, File({}, TRUE)) /\ Go("done")
     ELSE UNCHANGED dir /\ Failed("failed")
  /\ UNCHANGED <<lost, runs>>

\* RepairDB returns, or the process stops wherever it is: the Repairer is gone.
Leave == repairer.at # "idle" /\ repairer' = Idle /\ UNCHANGED <<dir, lost, runs>>

-----------------------------------------------------------------------------
\* A step with the outcome of the call it makes.
Step(ok) ==
  \/ \E n \in RepairLogs : BeginLog(n, ok)
  \/ \E n \in NumbersOf("table") : ScanTable(n, ok) \/ DropTable(n, ok)
  \/ \E n \in NumbersOf("manifest") : ArchiveManifest(n, ok)
  \/ EndLog(ok) \/ ArchiveLog(ok) \/ ArchiveDropped(ok)
  \/ NewCopy(ok) \/ CopyTable(ok) \/ ArchiveTable(ok) \/ FinishCopy(ok) \/ RenameCopy(ok)
  \/ WriteTemp(ok) \/ InstallManifest(ok) \/ SetCurrentFile(ok)

Next ==
  \/ FindFiles
  \/ (LogsDone \/ Leave \/ Step(TRUE)) /\ UNCHANGED <<faults, original>>
  \/ Step(FALSE) /\ faults < MaxFaults /\ faults' = faults + 1 /\ original' = {}

Spec == Init /\ [][Next]_repairVars

-----------------------------------------------------------------------------
\* When RepairDB succeeds, the tables the new descriptor lists are there, whole, and every number in
\* use is below the next one.  If no call on a log or a table failed, every entry that could be read
\* when it began is in one of them, with a sequence number the descriptor covers.
Resurrected ==
  repairer.at = "done" =>
    LET m == dir[ManifestName(1)]
        listed == {TableName(n) : n \in m.tables}
    IN  /\ \A t \in listed : t \in DOMAIN dir /\ dir[t].clean
        /\ ~repairer.faulty =>
             /\ repairer.start \subseteq UNION {dir[t].entries : t \in listed}
             /\ \A t \in listed : \A e \in dir[t].entries : e <= m.last
        /\ \A n \in NumbersOf("table") \cup NumbersOf("log") : n < m.next

Kept == Readable(dir) \cup Readable(lost)

\* RepairDB destroys nothing as long as few calls fail.  A run in which at most one did, wherever it
\* stops and whatever was left to it, keeps in the database or in the lost directory every entry that
\* could be read in the database when it began; while no call fails, this holds from the first run to
\* the last, however often RepairDB stops and is run again; and a run that succeeds lists all it read.
RepairKeeps ==
  /\ repairer.at # "idle" /\ faults <= 1 => repairer.start \subseteq Kept
  /\ original \subseteq Kept
  /\ Resurrected
=============================================================================
