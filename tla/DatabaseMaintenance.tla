------------------------- MODULE DatabaseMaintenance -------------------------
(***************************************************************************)
(* scripts/db.ts: migrate, backup, restore and dry-run over the files of a *)
(* directory, beside the application that writes the database.             *)
(*                                                                         *)
(* A file is known by its path; it holds the set of the writes it contains *)
(* (what the application committed), or it is an unfinished copy.  SQLite  *)
(* is external: a copy is Partial until the backup API has finished, and   *)
(* checkDatabase rejects it; an open or interrupted transaction leaves a   *)
(* journal beside the database, without which the file is of no use, and   *)
(* which the next connection that may write rolls back.                    *)
(*                                                                         *)
(* One maintenance command runs at a time.  --offline is the operator's    *)
(* word that the application is stopped from the lock check to the end of  *)
(* the restore (docs/operations.md); Offline is where that is assumed.     *)
(***************************************************************************)
EXTENDS Naturals, Sequences, FiniteSets

CONSTANTS
  Live,        \* the path of DATABASE_URL
  Spare,       \* the other paths: backups, staged copies, previous databases
  Absent,      \* no file, or no path
  Partial,     \* a file that checkDatabase rejects
  MaxWrites,   \* bound on what the application commits
  MaxCommands, \* bound on the maintenance commands
  MaxFaults    \* bound on crashes and failing calls

ASSUME MaintenanceAssumption ==
  /\ Live \notin Spare /\ Absent \notin Spare \cup {Live}
  /\ {MaxWrites, MaxCommands, MaxFaults} \subseteq Nat
  /\ Absent # Partial /\ \A content \in SUBSET (1 .. MaxWrites) : content \notin {Absent, Partial}

Path == {Live} \cup Spare
Write == 1 .. MaxWrites

VARIABLES
  disk,    \* the file at each path
  journal, \* a journal lies beside the database
  app,     \* the application: "down", "up", "writing" (in a transaction)
  cmd,     \* the command that runs
  told,    \* what the last command reported
  history, \* the database after each write, oldest first
  started, faults

vars == <<disk, journal, app, cmd, told, history, started, faults>>

Idle == [kind |-> "none", at |-> "idle", source |-> Absent, target |-> Absent,
         previous |-> Absent, had |-> Absent]

Whole(file) == file \notin {Absent, Partial}

Init ==
  /\ disk = [p \in Path |-> Absent] /\ journal = FALSE
  /\ app = "down" /\ cmd = Idle /\ told = "nothing"
  /\ history = <<>> /\ started = 0 /\ faults = 0

-----------------------------------------------------------------------------
(* The application. *)

\* What --offline asserts.
Offline == cmd.kind = "restore" => cmd.at \in {"idle", "lock"}

\* PrismaService connects: the file is created when there is none.
AppStarts ==
  /\ app = "down" /\ Offline
  /\ app' = "up" /\ journal' = FALSE
  /\ disk' = IF disk[Live] = Absent THEN [disk EXCEPT ![Live] = {}] ELSE disk
  /\ UNCHANGED <<cmd, told, history, started, faults>>

Begin ==
  /\ app = "up" /\ ~journal /\ Len(history) < MaxWrites
  /\ app' = "writing" /\ journal' = TRUE
  /\ UNCHANGED <<disk, cmd, told, history, started, faults>>

Commit ==
  /\ app = "writing" /\ app' = "up" /\ journal' = FALSE
  /\ LET now == disk[Live] \cup {Len(history) + 1}
     IN disk' = [disk EXCEPT ![Live] = now] /\ history' = Append(history, now)
  /\ UNCHANGED <<cmd, told, started, faults>>

AppStops ==
  /\ app = "up" /\ app' = "down"
  /\ UNCHANGED <<disk, journal, cmd, told, history, started, faults>>

AppCrashes ==
  /\ app = "writing" /\ faults < MaxFaults
  /\ app' = "down" /\ faults' = faults + 1
  /\ UNCHANGED <<disk, journal, cmd, told, history, started>>

-----------------------------------------------------------------------------
(* The commands. *)

Start(kind) == cmd.at = "idle" /\ started < MaxCommands /\ started' = started + 1

Ends(outcome) == cmd' = Idle /\ told' = outcome

At(kind, stage) == cmd.kind = kind /\ cmd.at = stage

\* A call of the command throws.
Faulty == faults < MaxFaults /\ faults' = faults + 1

\* checkDatabase: a connection that may not write cannot roll a journal back.
Readable(p) == Whole(disk[p]) /\ (p = Live => ~journal)

\* mutant: an existing backup is overwritten.
CopyOver(source, target, next) ==
  /\ disk[source] # Absent
  /\ disk' = [disk EXCEPT ![target] = Partial] /\ cmd' = next
\* backupDatabase, up to the copy.
CopyTo(source, target, next) ==
  /\ disk[target] = Absent /\ disk[source] # Absent
  /\ disk' = [disk EXCEPT ![target] = Partial] /\ cmd' = next

Backup ==
  /\ Start("backup")
  /\ \E p \in Spare :
       CopyTo(Live, p, [Idle EXCEPT !.kind = "backup", !.at = "copy", !.source = Live, !.target = p])
  /\ told' = "nothing"
  /\ UNCHANGED <<journal, app, history, faults>>

\* dry-run copies the database, when there is one, and migrates the copy.
DryRun ==
  /\ Start("dry-run")
  /\ \E p \in Spare :
       LET run == [Idle EXCEPT !.kind = "dry-run", !.source = Live, !.target = p]
       IN IF disk[Live] # Absent
          THEN CopyTo(Live, p, [run EXCEPT !.at = "copy"])
          ELSE /\ disk[p] = Absent
               /\ disk' = [disk EXCEPT ![p] = {}] /\ cmd' = [run EXCEPT !.at = "apply"]
  /\ told' = "nothing"
  /\ UNCHANGED <<journal, app, history, faults>>

\* migrateDatabase creates the file exclusively, or finds it.
Migrate ==
  /\ Start("migrate") /\ told' = "nothing"
  /\ disk' = IF disk[Live] = Absent THEN [disk EXCEPT ![Live] = {}] ELSE disk
  /\ cmd' = [Idle EXCEPT !.kind = "migrate", !.at = "apply", !.target = Live]
  /\ UNCHANGED <<journal, app, history, faults>>

\* restore --apply --offline: the backup is valid, and no journal is pending.
Restore ==
  /\ Start("restore") /\ told' = "nothing"
  /\ ~journal
  /\ \E p \in Spare :
       /\ Readable(p)
       /\ cmd' = [Idle EXCEPT !.kind = "restore", !.at = "lock", !.source = p]
  /\ UNCHANGED <<disk, journal, app, history, faults>>

\* The exclusive lock detects a writer; BEGIN rolls an interrupted transaction back.
LockRefused ==
  /\ At("restore", "lock") /\ disk[Live] # Absent /\ app = "writing"
  /\ Ends("refused")
  /\ UNCHANGED <<disk, journal, app, history, started, faults>>

\* The backup is copied to a file of a fresh name next to the database.
Stage ==
  /\ At("restore", "lock") /\ app = "down"
  /\ journal' = (journal /\ disk[Live] = Absent)
  /\ \E p \in Spare : CopyTo(cmd.source, p, [cmd EXCEPT !.at = "copy", !.target = p])
  /\ UNCHANGED <<app, told, history, started, faults>>

\* The backup API has copied the last page, and the copy is checked.
Copied ==
  /\ cmd.at = "copy" /\ Readable(cmd.source)
  /\ disk' = [disk EXCEPT ![cmd.target] = disk[cmd.source]]
  /\ CASE cmd.kind = "backup"  -> Ends("done")
       [] cmd.kind = "dry-run" -> cmd' = [cmd EXCEPT !.at = "apply"] /\ UNCHANGED told
       [] cmd.kind = "restore" -> cmd' = [cmd EXCEPT !.at = "swap"] /\ UNCHANGED told
  /\ UNCHANGED <<journal, app, history, started, faults>>

\* The library removes the file it began, or the check fails afterwards.  The
\* dry run removes its directory; a staged file stays behind.
CopyFails ==
  /\ cmd.at = "copy"
  /\ Faulty \/ (~Readable(cmd.source) /\ app = "down" /\ UNCHANGED faults)
  /\ Ends("refused")
  /\ \/ disk' = [disk EXCEPT ![cmd.target] = Absent]
     \/ cmd.kind # "dry-run" /\ UNCHANGED disk
  /\ UNCHANGED <<journal, app, history, started>>

\* prisma migrate deploy and the check; a journal of the database is rolled back.
Applied ==
  /\ cmd.at = "apply" /\ app # "writing"
  /\ journal' = (journal /\ cmd.kind # "migrate")
  /\ disk' = IF cmd.kind = "dry-run" THEN [disk EXCEPT ![cmd.target] = Absent] ELSE disk
  /\ Ends("done")
  /\ UNCHANGED <<app, history, started, faults>>

ApplyFails ==
  /\ cmd.at = "apply" /\ Faulty
  /\ disk' = IF cmd.kind = "dry-run" THEN [disk EXCEPT ![cmd.target] = Absent] ELSE disk
  /\ Ends("refused")
  /\ UNCHANGED <<journal, app, history, started>>

-----------------------------------------------------------------------------
(* The replacement of restoreDatabase: two renames. *)

\* A database is moved without its journal.
Moved(file) == IF journal THEN Partial ELSE file

\* mutant: the database is replaced by a single rename.
SetAsideNothing ==
  /\ At("restore", "swap")
  /\ cmd' = [cmd EXCEPT !.at = "place", !.had = disk[Live]]
  /\ UNCHANGED <<disk, journal, app, told, history, started, faults>>
\* The database, when there is one, gets its before-restore name.
SetAside ==
  /\ At("restore", "swap")
  /\ IF disk[Live] = Absent
     THEN cmd' = [cmd EXCEPT !.at = "place"] /\ UNCHANGED disk
     ELSE \E p \in Spare :
            /\ disk[p] = Absent
            /\ disk' = [disk EXCEPT ![p] = Moved(disk[Live]), ![Live] = Absent]
            /\ cmd' = [cmd EXCEPT !.at = "place", !.previous = p, !.had = disk[Live]]
  /\ UNCHANGED <<journal, app, told, history, started, faults>>

\* finally: the staged file goes.
SetAsideFails ==
  /\ At("restore", "swap") /\ Faulty
  /\ disk' = [disk EXCEPT ![cmd.target] = Absent]
  /\ Ends("refused")
  /\ UNCHANGED <<journal, app, history, started>>

Place ==
  /\ At("restore", "place")
  /\ disk' = [disk EXCEPT ![Live] = Moved(disk[cmd.target]), ![cmd.target] = Absent]
  /\ cmd' = [cmd EXCEPT !.at = "verify"]
  /\ UNCHANGED <<journal, app, told, history, started, faults>>

\* mutant: what was set aside stays aside.
PutNothingBack(d) == d
PutBack(d) ==
  IF cmd.previous = Absent THEN d
  ELSE [d EXCEPT ![Live] = d[cmd.previous], ![cmd.previous] = Absent]

PlaceFails ==
  /\ At("restore", "place") /\ Faulty
  /\ disk' = PutBack([disk EXCEPT ![cmd.target] = Absent])
  /\ Ends("refused")
  /\ UNCHANGED <<journal, app, history, started>>

\* Neither the copy can be placed, nor the database put back.
PutBackFails ==
  /\ At("restore", "place") /\ cmd.previous # Absent
  /\ faults + 1 < MaxFaults /\ faults' = faults + 2
  /\ disk' = [disk EXCEPT ![cmd.target] = Absent]
  /\ Ends("misplaced")
  /\ UNCHANGED <<journal, app, history, started>>

Verified ==
  /\ At("restore", "verify") /\ Readable(Live)
  /\ Ends("restored")
  /\ UNCHANGED <<disk, journal, app, history, started, faults>>

\* The new database stays, and the name of the previous one is not reported.
VerifyFails ==
  /\ At("restore", "verify") /\ Faulty
  /\ Ends("unverified")
  /\ UNCHANGED <<disk, journal, app, history, started>>

\* The process is killed: nothing is cleaned up.
Killed ==
  /\ cmd.at # "idle" /\ Faulty
  /\ Ends("nothing")
  /\ UNCHANGED <<disk, journal, app, history, started>>

Application == AppStarts \/ Begin \/ Commit \/ AppStops \/ AppCrashes

Maintenance ==
  \/ Backup \/ DryRun \/ Migrate \/ Restore
  \/ LockRefused \/ Stage \/ Copied \/ CopyFails \/ Applied \/ ApplyFails
  \/ SetAside \/ SetAsideFails \/ Place \/ PlaceFails \/ PutBackFails
  \/ Verified \/ VerifyFails \/ Killed

Next == Application \/ Maintenance

Spec == Init /\ [][Next]_vars

-----------------------------------------------------------------------------
TypeOK ==
  /\ disk \in [Path -> {Absent, Partial} \cup SUBSET Write]
  /\ journal \in BOOLEAN /\ app \in {"down", "up", "writing"}
  /\ told \in {"nothing", "done", "restored", "refused", "misplaced", "unverified"}
  /\ history \in Seq(SUBSET Write) /\ Len(history) <= MaxWrites
  /\ started \in 0 .. MaxCommands /\ faults \in 0 .. MaxFaults
  /\ cmd \in [kind : {"none", "backup", "restore", "dry-run", "migrate"},
              at : {"idle", "lock", "copy", "apply", "swap", "place", "verify"},
              source : Path \cup {Absent}, target : Path \cup {Absent},
              previous : Path \cup {Absent}, had : {Absent, Partial} \cup SUBSET Write]

\* Whatever is killed or fails between two steps of a restore (db.ts:71), the
\* path never names a file that is not a whole database, and every state of the
\* database that the application ever committed is contained in a whole file.
NothingLost ==
  /\ disk[Live] # Partial
  /\ \A n \in 1 .. Len(history) :
       \E p \in Path : Whole(disk[p]) /\ history[n] \subseteq disk[p]

\* A restore that reports success (db.ts:142) has put the content of the backup
\* at the path and keeps what was there before under the name it reports; one
\* that reports that the replacement failed has left the path as it found it
\* (db.ts:102), unless putting the database back failed too.
RestoreTellsTheTruth ==
  [][ cmd.kind = "restore" /\ cmd'.at = "idle" =>
      /\ told' = "restored" =>
           /\ disk'[Live] = disk'[cmd.source]
           /\ cmd.had # Absent => cmd.previous # Absent /\ disk'[cmd.previous] = cmd.had
      /\ told' = "refused" =>
           disk'[Live] = IF cmd.at = "place" THEN cmd.had ELSE disk[Live] ]_vars

\* A whole file that is not the database, nor in the hands of the command that
\* runs, is never changed: "Existing backup files are never overwritten"
\* (docs/operations.md:21), whatever command is run in whatever order.
KeptFilesStay ==
  [][ \A p \in Spare :
        Whole(disk[p]) /\ p \notin {cmd.target, cmd.previous} => disk'[p] = disk[p] ]_vars
=============================================================================
