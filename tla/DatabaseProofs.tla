---------------------------- MODULE DatabaseProofs ----------------------------
(***************************************************************************)
(* Proofs about DatabaseMaintenance, for every set of paths and every      *)
(* bound: no command and no failure loses a committed write, a restore     *)
(* tells the truth, and kept files stay.                                   *)
(*                                                                         *)
(* IInv ties the stage of the running command to what lies on the disk.    *)
(***************************************************************************)
EXTENDS DatabaseMaintenance, TLAPS

Stages ==
  /\ cmd.at = "idle" => cmd = Idle
  /\ cmd.at \in {"lock", "swap", "place", "verify"} => cmd.kind = "restore"
  /\ cmd.at = "copy" => cmd.kind \in {"backup", "dry-run", "restore"}
  /\ cmd.at = "apply" => cmd.kind \in {"dry-run", "migrate"}

\* The application has a database, and a journal lies beside one.
Beside ==
  /\ app # "down" => Whole(disk[Live])
  /\ app = "writing" => Len(history) < MaxWrites
  /\ journal => disk[Live] # Absent

\* A restore past its lock is alone.
Alone == cmd.kind = "restore" /\ cmd.at # "lock" => app = "down" /\ ~journal

\* A copy that is being written is nobody else's file.
CopyInHand ==
  cmd.at = "copy" =>
    /\ cmd.target \in Spare /\ disk[cmd.target] = Partial
    /\ cmd.source \in Path /\ cmd.source # cmd.target
    /\ cmd.kind # "restore" => cmd.source = Live

\* The backup that is restored stays, and the staged file is a second copy of it.
Staged ==
  /\ cmd.kind = "restore" => cmd.source \in Spare /\ Whole(disk[cmd.source])
  /\ cmd.at \in {"swap", "place"} =>
       cmd.target \in Spare /\ cmd.target # cmd.source /\ disk[cmd.target] = disk[cmd.source]
  /\ cmd.at = "verify" => disk[Live] = disk[cmd.source]

\* What was set aside is kept under its name.
Aside ==
  /\ cmd.at \notin {"place", "verify"} => cmd.previous = Absent /\ cmd.had = Absent
  /\ cmd.at = "place" => disk[Live] = Absent /\ cmd.previous # cmd.target
  /\ cmd.at \in {"place", "verify"} =>
       /\ cmd.previous = Absent => cmd.had = Absent
       /\ cmd.previous # Absent =>
            /\ cmd.previous \in Spare /\ cmd.previous # cmd.source
            /\ Whole(cmd.had) /\ disk[cmd.previous] = cmd.had

\* The copy that a dry run migrates holds nothing that the database lacks.
Scratch ==
  cmd.kind = "dry-run" /\ cmd.at = "apply" =>
    /\ cmd.target \in Spare
    /\ \/ disk[cmd.target] = {}
       \/ Whole(disk[Live]) /\ disk[cmd.target] \subseteq disk[Live]

WritesAreSomething == \A n \in 1 .. Len(history) : history[n] # {}

Hold == Stages /\ Beside /\ Alone /\ CopyInHand /\ Staged /\ Aside /\ Scratch /\ WritesAreSomething
IInv == TypeOK /\ Hold /\ NothingLost

-----------------------------------------------------------------------------
(* What the disk and the command are. *)

File == {Absent, Partial} \cup SUBSET Write
DiskType == disk \in [Path -> File]
CommandType ==
  cmd \in [kind : {"none", "backup", "restore", "dry-run", "migrate"},
           at : {"idle", "lock", "copy", "apply", "swap", "place", "verify"},
           source : Path \cup {Absent}, target : Path \cup {Absent},
           previous : Path \cup {Absent}, had : File]
RestType ==
  /\ journal \in BOOLEAN /\ app \in {"down", "up", "writing"}
  /\ told \in {"nothing", "done", "restored", "refused", "misplaced", "unverified"}
  /\ history \in Seq(SUBSET Write) /\ Len(history) <= MaxWrites
  /\ started \in 0 .. MaxCommands /\ faults \in 0 .. MaxFaults

LEMMA Types == TypeOK <=> DiskType /\ CommandType /\ RestType
BY DEF TypeOK, DiskType, CommandType, RestType, File

LEMMA Names ==
  Live \in Path /\ Spare \subseteq Path /\ Live \notin Spare /\ Absent \notin Path /\ Absent # Partial
BY MaintenanceAssumption DEF Path

LEMMA Bounds == MaxWrites \in Nat /\ MaxCommands \in Nat /\ MaxFaults \in Nat
BY MaintenanceAssumption

LEMMA Empty ==
  /\ {} \in SUBSET Write /\ {} # Absent /\ {} # Partial
  /\ \A content \in SUBSET Write : Whole(content)
  /\ \A file \in File : Whole(file) => file \in SUBSET Write
BY MaintenanceAssumption DEF Write, Whole, File

LEMMA Files == {} \in File /\ Absent \in File /\ Partial \in File
BY Empty DEF File

\* Writing one file.
LEMMA PutFile ==
  ASSUME NEW d \in [Path -> File], NEW p \in Path, NEW file \in File
  PROVE  [d EXCEPT ![p] = file] \in [Path -> File]
OBVIOUS

-----------------------------------------------------------------------------
(* Types *)

LEMMA DiskStays == IInv /\ [Next]_vars => DiskType'
<1> SUFFICES ASSUME DiskType, CommandType, RestType, Stages, Beside, Alone, CopyInHand, Staged,
                    Aside, Scratch, WritesAreSomething, NothingLost, [Next]_vars
             PROVE  DiskType'
  BY Types DEF IInv, Hold
<1> USE Names, Files, PutFile DEF DiskType, At, CopyTo
<1>1. CASE UNCHANGED vars
  BY <1>1 DEF vars
<1>2. CASE Application
  <2>1. CASE AppStarts
    BY <2>1 DEF AppStarts
  <2>2. CASE Begin
    BY <2>2 DEF Begin
  <2>3. CASE Commit
    <3>1. disk[Live] \cup {Len(history) + 1} \in File
      BY <2>3, Bounds, Empty DEF Commit, Beside, RestType, Write, File
    <3> QED BY <2>3, <3>1 DEF Commit
  <2>4. CASE AppStops
    BY <2>4 DEF AppStops
  <2>5. CASE AppCrashes
    BY <2>5 DEF AppCrashes
  <2> QED BY <1>2, <2>1, <2>2, <2>3, <2>4, <2>5 DEF Application
<1>3. CASE Maintenance
  <2>1. CASE Backup
    BY <2>1 DEF Backup
  <2>2. CASE DryRun
    BY <2>2 DEF DryRun
  <2>3. CASE Migrate
    BY <2>3 DEF Migrate
  <2>4. CASE Restore
    BY <2>4 DEF Restore
  <2>5. CASE LockRefused
    BY <2>5 DEF LockRefused
  <2>6. CASE Stage
    BY <2>6 DEF Stage
  <2>7. CASE Copied
    BY <2>7 DEF Copied, CopyInHand
  <2>8. CASE CopyFails
    BY <2>8 DEF CopyFails, CopyInHand
  <2>9. CASE Applied
    BY <2>9 DEF Applied, Scratch
  <2>10. CASE ApplyFails
    BY <2>10 DEF ApplyFails, Scratch
  <2>11. CASE SetAside
    <3>1. Moved(disk[Live]) \in File
      BY DEF Moved
    <3>2. \A p \in Spare : [disk EXCEPT ![p] = Moved(disk[Live]), ![Live] = Absent] \in [Path -> File]
      <4> SUFFICES ASSUME NEW p \in Spare
                   PROVE  [disk EXCEPT ![p] = Moved(disk[Live]), ![Live] = Absent] \in [Path -> File]
        OBVIOUS
      <4>1. [disk EXCEPT ![p] = Moved(disk[Live])] \in [Path -> File]
        BY <3>1
      <4> QED BY <4>1
    <3>3. \/ disk' = disk
          \/ \E p \in Spare : disk' = [disk EXCEPT ![p] = Moved(disk[Live]), ![Live] = Absent]
      BY <2>11 DEF SetAside
    <3>4. CASE disk' = disk
      BY <3>4
    <3>5. ASSUME NEW p \in Spare, disk' = [disk EXCEPT ![p] = Moved(disk[Live]), ![Live] = Absent]
          PROVE  DiskType'
      BY <3>2, <3>5
    <3> QED BY <3>3, <3>4, <3>5
  <2>12. CASE SetAsideFails
    BY <2>12 DEF SetAsideFails, Staged
  <2>13. CASE Place
    <3>1. cmd.target \in Path /\ Moved(disk[cmd.target]) \in File
      BY <2>13 DEF Place, Moved, Staged
    <3> QED BY <2>13, <3>1 DEF Place
  <2>14. CASE PlaceFails
    <3>1. cmd.target \in Path
      BY <2>14 DEF PlaceFails, Staged
    <3>2. [disk EXCEPT ![cmd.target] = Absent] \in [Path -> File]
      BY <3>1
    <3>3. \A e \in [Path -> File] : PutBack(e) \in [Path -> File]
      BY <2>14 DEF PlaceFails, PutBack, Aside
    <3> QED BY <2>14, <3>2, <3>3 DEF PlaceFails
  <2>15. CASE PutBackFails
    BY <2>15 DEF PutBackFails, Staged
  <2>16. CASE Verified
    BY <2>16 DEF Verified
  <2>17. CASE VerifyFails
    BY <2>17 DEF VerifyFails
  <2>18. CASE Killed
    BY <2>18 DEF Killed
  <2> QED BY <1>3, <2>1, <2>2, <2>3, <2>4, <2>5, <2>6, <2>7, <2>8, <2>9, <2>10, <2>11,
             <2>12, <2>13, <2>14, <2>15, <2>16, <2>17, <2>18 DEF Maintenance
<1> QED BY <1>1, <1>2, <1>3 DEF Next

LEMMA CommandStays == IInv /\ [Next]_vars => CommandType'
<1> SUFFICES ASSUME DiskType, CommandType, RestType, Stages, Beside, Alone, CopyInHand, Staged,
                    Aside, Scratch, WritesAreSomething, NothingLost, [Next]_vars
             PROVE  CommandType'
  BY Types DEF IInv, Hold
<1> USE Names, Files DEF DiskType, CommandType, Idle, At, Ends, CopyTo
<1>1. CASE UNCHANGED vars
  BY <1>1 DEF vars
<1>2. CASE Application
  <2>1. CASE AppStarts
    BY <2>1 DEF AppStarts
  <2>2. CASE Begin
    BY <2>2 DEF Begin
  <2>3. CASE Commit
    BY <2>3 DEF Commit
  <2>4. CASE AppStops
    BY <2>4 DEF AppStops
  <2>5. CASE AppCrashes
    BY <2>5 DEF AppCrashes
  <2> QED BY <1>2, <2>1, <2>2, <2>3, <2>4, <2>5 DEF Application
<1>3. CASE Maintenance
  <2>1. CASE Backup
    BY <2>1 DEF Backup
  <2>2. CASE DryRun
    BY <2>2 DEF DryRun
  <2>3. CASE Migrate
    BY <2>3 DEF Migrate
  <2>4. CASE Restore
    BY <2>4 DEF Restore
  <2>5. CASE LockRefused
    BY <2>5 DEF LockRefused
  <2>6. CASE Stage
    BY <2>6 DEF Stage
  <2>7. CASE Copied
    <3>1. cmd' = Idle \/ cmd' = [cmd EXCEPT !.at = "apply"] \/ cmd' = [cmd EXCEPT !.at = "swap"]
      BY <2>7 DEF Copied, Stages
    <3> QED BY <3>1
  <2>8. CASE CopyFails
    BY <2>8 DEF CopyFails
  <2>9. CASE Applied
    BY <2>9 DEF Applied
  <2>10. CASE ApplyFails
    BY <2>10 DEF ApplyFails
  <2>11. CASE SetAside
    BY <2>11 DEF SetAside
  <2>12. CASE SetAsideFails
    BY <2>12 DEF SetAsideFails
  <2>13. CASE Place
    BY <2>13 DEF Place
  <2>14. CASE PlaceFails
    BY <2>14 DEF PlaceFails
  <2>15. CASE PutBackFails
    BY <2>15 DEF PutBackFails
  <2>16. CASE Verified
    BY <2>16 DEF Verified
  <2>17. CASE VerifyFails
    BY <2>17 DEF VerifyFails
  <2>18. CASE Killed
    BY <2>18 DEF Killed
  <2> QED BY <1>3, <2>1, <2>2, <2>3, <2>4, <2>5, <2>6, <2>7, <2>8, <2>9, <2>10, <2>11,
             <2>12, <2>13, <2>14, <2>15, <2>16, <2>17, <2>18 DEF Maintenance
<1> QED BY <1>1, <1>2, <1>3 DEF Next

LEMMA RestStays == IInv /\ [Next]_vars => RestType'
<1> SUFFICES ASSUME DiskType, CommandType, RestType, Stages, Beside, Alone, CopyInHand, Staged,
                    Aside, Scratch, WritesAreSomething, NothingLost, [Next]_vars
             PROVE  RestType'
  BY Types DEF IInv, Hold
<1> USE Bounds DEF RestType, Start, Faulty, Ends
<1>1. CASE UNCHANGED vars
  BY <1>1 DEF vars
<1>2. CASE Application
  <2>1. CASE AppStarts
    BY <2>1 DEF AppStarts
  <2>2. CASE Begin
    BY <2>2 DEF Begin
  <2>3. CASE Commit
    <3>1. disk[Live] \cup {Len(history) + 1} \in SUBSET Write
      BY <2>3, Names, Empty DEF Commit, Beside, Write, DiskType
    <3>2. PICK now \in SUBSET Write : history' = Append(history, now)
      BY <2>3, <3>1 DEF Commit
    <3>3. history' \in Seq(SUBSET Write) /\ Len(history') = Len(history) + 1
      BY <3>2
    <3>4. Len(history) < MaxWrites /\ Len(history) \in Nat
      BY <2>3 DEF Commit, Beside
    <3>5. app' = "up" /\ journal' = FALSE /\ UNCHANGED <<told, started, faults>>
      BY <2>3 DEF Commit
    <3>6. Len(history') <= MaxWrites
      BY <3>3, <3>4
    <3>7. told' \in {"nothing", "done", "restored", "refused", "misplaced", "unverified"}
          /\ started' \in 0 .. MaxCommands /\ faults' \in 0 .. MaxFaults
      BY <3>5
    <3> QED BY <3>3, <3>5, <3>6, <3>7
  <2>4. CASE AppStops
    BY <2>4 DEF AppStops
  <2>5. CASE AppCrashes
    BY <2>5 DEF AppCrashes
  <2> QED BY <1>2, <2>1, <2>2, <2>3, <2>4, <2>5 DEF Application
<1>3. CASE Maintenance
  <2>1. CASE Backup
    BY <2>1 DEF Backup
  <2>2. CASE DryRun
    BY <2>2 DEF DryRun
  <2>3. CASE Migrate
    BY <2>3 DEF Migrate
  <2>4. CASE Restore
    BY <2>4 DEF Restore
  <2>5. CASE LockRefused
    BY <2>5 DEF LockRefused
  <2>6. CASE Stage
    BY <2>6 DEF Stage
  <2>7. CASE Copied
    BY <2>7 DEF Copied, Stages
  <2>8. CASE CopyFails
    BY <2>8 DEF CopyFails
  <2>9. CASE Applied
    BY <2>9 DEF Applied
  <2>10. CASE ApplyFails
    BY <2>10 DEF ApplyFails
  <2>11. CASE SetAside
    BY <2>11 DEF SetAside
  <2>12. CASE SetAsideFails
    BY <2>12 DEF SetAsideFails
  <2>13. CASE Place
    BY <2>13 DEF Place
  <2>14. CASE PlaceFails
    BY <2>14 DEF PlaceFails
  <2>15. CASE PutBackFails
    BY <2>15 DEF PutBackFails
  <2>16. CASE Verified
    BY <2>16 DEF Verified
  <2>17. CASE VerifyFails
    BY <2>17 DEF VerifyFails
  <2>18. CASE Killed
    BY <2>18 DEF Killed
  <2> QED BY <1>3, <2>1, <2>2, <2>3, <2>4, <2>5, <2>6, <2>7, <2>8, <2>9, <2>10, <2>11,
             <2>12, <2>13, <2>14, <2>15, <2>16, <2>17, <2>18 DEF Maintenance
<1> QED BY <1>1, <1>2, <1>3 DEF Next

-----------------------------------------------------------------------------
(* What the steps that touch several files do. *)

LEMMA CommitDoes ==
  ASSUME DiskType, RestType, Beside, Commit
  PROVE  \E now \in SUBSET Write :
           /\ now # {} /\ Whole(now) /\ Whole(disk[Live]) /\ disk[Live] \subseteq now
           /\ disk' = [disk EXCEPT ![Live] = now] /\ history' = Append(history, now)
<1> DEFINE now == disk[Live] \cup {Len(history) + 1}
<1>1. app = "writing" /\ disk' = [disk EXCEPT ![Live] = now] /\ history' = Append(history, now)
  BY DEF Commit
<1>2. Whole(disk[Live]) /\ Len(history) < MaxWrites
  BY <1>1 DEF Beside
<1>3. disk[Live] \in SUBSET Write
  BY <1>2, Names, Empty DEF DiskType
<1>4. Len(history) + 1 \in Write
  BY <1>2, Bounds DEF RestType, Write
<1>5. now \in SUBSET Write /\ now # {} /\ disk[Live] \subseteq now
  BY <1>3, <1>4
<1>6. Whole(now)
  BY <1>5, Empty
<1> QED BY <1>1, <1>2, <1>5, <1>6

LEMMA CopiedDoes ==
  ASSUME Stages, CommandType, Copied
  PROVE  /\ cmd.at = "copy" /\ Whole(disk[cmd.source]) /\ UNCHANGED <<journal, app, history>>
         /\ disk' = [disk EXCEPT ![cmd.target] = disk[cmd.source]]
         /\ \/ cmd.kind = "backup" /\ cmd' = Idle
            \/ cmd.kind = "dry-run" /\ cmd' = [cmd EXCEPT !.at = "apply"]
            \/ cmd.kind = "restore" /\ cmd' = [cmd EXCEPT !.at = "swap"]
BY DEF Stages, Copied, Readable, Ends

LEMMA DryRunDoes ==
  ASSUME DryRun
  PROVE  \E p \in Spare :
           /\ disk[p] = Absent
           /\ \/ /\ disk[Live] # Absent /\ disk' = [disk EXCEPT ![p] = Partial]
                 /\ cmd' = [kind |-> "dry-run", at |-> "copy", source |-> Live, target |-> p,
                            previous |-> Absent, had |-> Absent]
              \/ /\ disk[Live] = Absent /\ disk' = [disk EXCEPT ![p] = {}]
                 /\ cmd' = [kind |-> "dry-run", at |-> "apply", source |-> Live, target |-> p,
                            previous |-> Absent, had |-> Absent]
BY DEF DryRun, CopyTo, Idle

LEMMA SetAsideDoes ==
  ASSUME SetAside, Alone, Stages, CommandType
  PROVE  /\ cmd.at = "swap"
         /\ \/ disk[Live] = Absent /\ disk' = disk /\ cmd' = [cmd EXCEPT !.at = "place"]
            \/ \E p \in Spare :
                 /\ disk[p] = Absent /\ disk[Live] # Absent
                 /\ disk' = [disk EXCEPT ![p] = disk[Live], ![Live] = Absent]
                 /\ cmd' = [cmd EXCEPT !.at = "place", !.previous = p, !.had = disk[Live]]
<1>1. cmd.at = "swap" /\ ~journal
  BY DEF SetAside, At, Alone
<1>2. Moved(disk[Live]) = disk[Live]
  BY <1>1 DEF Moved
<1> QED BY <1>1, <1>2 DEF SetAside

LEMMA PlaceDoes ==
  ASSUME Place, Alone
  PROVE  /\ cmd.at = "place" /\ cmd.kind = "restore"
         /\ disk' = [disk EXCEPT ![Live] = disk[cmd.target], ![cmd.target] = Absent]
         /\ cmd' = [cmd EXCEPT !.at = "verify"]
BY DEF Place, At, Alone, Moved

-----------------------------------------------------------------------------
(* The parts of the invariant. *)

LEMMA StagesStays == IInv /\ [Next]_vars => Stages'
<1> SUFFICES ASSUME DiskType, CommandType, RestType, Stages, Beside, Alone, CopyInHand, Staged,
                    Aside, Scratch, WritesAreSomething, NothingLost, [Next]_vars
             PROVE  Stages'
  BY Types DEF IInv, Hold
<1> USE DEF Stages, Idle, At, Ends, CopyTo, CommandType
<1>1. CASE UNCHANGED vars
  BY <1>1 DEF vars
<1>2. CASE Application
  <2>1. CASE AppStarts
    BY <2>1 DEF AppStarts
  <2>2. CASE Begin
    BY <2>2 DEF Begin
  <2>3. CASE Commit
    BY <2>3 DEF Commit
  <2>4. CASE AppStops
    BY <2>4 DEF AppStops
  <2>5. CASE AppCrashes
    BY <2>5 DEF AppCrashes
  <2> QED BY <1>2, <2>1, <2>2, <2>3, <2>4, <2>5 DEF Application
<1>3. CASE Maintenance
  <2>1. CASE Backup
    BY <2>1 DEF Backup
  <2>2. CASE DryRun
    BY <2>2 DEF DryRun
  <2>3. CASE Migrate
    BY <2>3 DEF Migrate
  <2>4. CASE Restore
    BY <2>4 DEF Restore
  <2>5. CASE LockRefused
    BY <2>5 DEF LockRefused
  <2>6. CASE Stage
    BY <2>6 DEF Stage
  <2>7. CASE Copied
    BY <2>7, CopiedDoes
  <2>8. CASE CopyFails
    BY <2>8 DEF CopyFails
  <2>9. CASE Applied
    BY <2>9 DEF Applied
  <2>10. CASE ApplyFails
    BY <2>10 DEF ApplyFails
  <2>11. CASE SetAside
    BY <2>11 DEF SetAside
  <2>12. CASE SetAsideFails
    BY <2>12 DEF SetAsideFails
  <2>13. CASE Place
    BY <2>13 DEF Place
  <2>14. CASE PlaceFails
    BY <2>14 DEF PlaceFails
  <2>15. CASE PutBackFails
    BY <2>15 DEF PutBackFails
  <2>16. CASE Verified
    BY <2>16 DEF Verified
  <2>17. CASE VerifyFails
    BY <2>17 DEF VerifyFails
  <2>18. CASE Killed
    BY <2>18 DEF Killed
  <2> QED BY <1>3, <2>1, <2>2, <2>3, <2>4, <2>5, <2>6, <2>7, <2>8, <2>9, <2>10, <2>11,
             <2>12, <2>13, <2>14, <2>15, <2>16, <2>17, <2>18 DEF Maintenance
<1> QED BY <1>1, <1>2, <1>3 DEF Next

LEMMA BesideStays == IInv /\ [Next]_vars => Beside'
<1> SUFFICES ASSUME DiskType, CommandType, RestType, Stages, Beside, Alone, CopyInHand, Staged,
                    Aside, Scratch, WritesAreSomething, NothingLost, [Next]_vars
             PROVE  Beside'
  BY Types DEF IInv, Hold
<1> USE Names, Empty DEF Beside, Whole, DiskType, RestType, At, CopyTo
<1>1. CASE UNCHANGED vars
  BY <1>1 DEF vars
<1>2. CASE Application
  <2>1. CASE AppStarts
    BY <2>1 DEF AppStarts, NothingLost
  <2>2. CASE Begin
    BY <2>2 DEF Begin
  <2>3. CASE Commit
    <3>1. PICK now \in SUBSET Write :
            /\ now # {} /\ Whole(now) /\ disk' = [disk EXCEPT ![Live] = now]
      BY <2>3, CommitDoes
    <3>2. app' = "up" /\ journal' = FALSE /\ Whole(disk'[Live])
      BY <2>3, <3>1 DEF Commit
    <3> QED BY <3>2
  <2>4. CASE AppStops
    BY <2>4 DEF AppStops
  <2>5. CASE AppCrashes
    BY <2>5 DEF AppCrashes
  <2> QED BY <1>2, <2>1, <2>2, <2>3, <2>4, <2>5 DEF Application
<1>3. CASE Maintenance
  <2>1. CASE Backup
    BY <2>1 DEF Backup
  <2>2. CASE DryRun
    BY <2>2 DEF DryRun
  <2>3. CASE Migrate
    BY <2>3 DEF Migrate
  <2>4. CASE Restore
    BY <2>4 DEF Restore
  <2>5. CASE LockRefused
    BY <2>5 DEF LockRefused
  <2>6. CASE Stage
    BY <2>6 DEF Stage
  <2>7. CASE Copied
    BY <2>7, CopiedDoes DEF CopyInHand
  <2>8. CASE CopyFails
    BY <2>8 DEF CopyFails, CopyInHand
  <2>9. CASE Applied
    BY <2>9 DEF Applied, Scratch, Stages
  <2>10. CASE ApplyFails
    BY <2>10 DEF ApplyFails, Scratch, Stages
  <2>11. CASE SetAside
    BY <2>11 DEF SetAside, Alone
  <2>12. CASE SetAsideFails
    BY <2>12 DEF SetAsideFails, Alone
  <2>13. CASE Place
    BY <2>13 DEF Place, Alone
  <2>14. CASE PlaceFails
    BY <2>14 DEF PlaceFails, Alone
  <2>15. CASE PutBackFails
    BY <2>15 DEF PutBackFails, Alone
  <2>16. CASE Verified
    BY <2>16 DEF Verified
  <2>17. CASE VerifyFails
    BY <2>17 DEF VerifyFails
  <2>18. CASE Killed
    BY <2>18 DEF Killed
  <2> QED BY <1>3, <2>1, <2>2, <2>3, <2>4, <2>5, <2>6, <2>7, <2>8, <2>9, <2>10, <2>11,
             <2>12, <2>13, <2>14, <2>15, <2>16, <2>17, <2>18 DEF Maintenance
<1> QED BY <1>1, <1>2, <1>3 DEF Next

LEMMA AloneStays == IInv /\ [Next]_vars => Alone'
<1> SUFFICES ASSUME DiskType, CommandType, RestType, Stages, Beside, Alone, CopyInHand, Staged,
                    Aside, Scratch, WritesAreSomething, NothingLost, [Next]_vars
             PROVE  Alone'
  BY Types DEF IInv, Hold
<1> USE DEF Alone, Stages, Idle, At, Ends, CopyTo, CommandType
<1>1. CASE UNCHANGED vars
  BY <1>1 DEF vars
<1>2. CASE Application
  <2>1. CASE AppStarts
    BY <2>1 DEF AppStarts, Offline
  <2>2. CASE Begin
    BY <2>2 DEF Begin
  <2>3. CASE Commit
    BY <2>3 DEF Commit
  <2>4. CASE AppStops
    BY <2>4 DEF AppStops
  <2>5. CASE AppCrashes
    BY <2>5 DEF AppCrashes
  <2> QED BY <1>2, <2>1, <2>2, <2>3, <2>4, <2>5 DEF Application
<1>3. CASE Maintenance
  <2>1. CASE Backup
    BY <2>1 DEF Backup
  <2>2. CASE DryRun
    BY <2>2 DEF DryRun
  <2>3. CASE Migrate
    BY <2>3 DEF Migrate
  <2>4. CASE Restore
    BY <2>4 DEF Restore
  <2>5. CASE LockRefused
    BY <2>5 DEF LockRefused
  <2>6. CASE Stage
    BY <2>6 DEF Stage, Beside
  <2>7. CASE Copied
    BY <2>7, CopiedDoes
  <2>8. CASE CopyFails
    BY <2>8 DEF CopyFails
  <2>9. CASE Applied
    BY <2>9 DEF Applied
  <2>10. CASE ApplyFails
    BY <2>10 DEF ApplyFails
  <2>11. CASE SetAside
    BY <2>11 DEF SetAside
  <2>12. CASE SetAsideFails
    BY <2>12 DEF SetAsideFails
  <2>13. CASE Place
    BY <2>13 DEF Place
  <2>14. CASE PlaceFails
    BY <2>14 DEF PlaceFails
  <2>15. CASE PutBackFails
    BY <2>15 DEF PutBackFails
  <2>16. CASE Verified
    BY <2>16 DEF Verified
  <2>17. CASE VerifyFails
    BY <2>17 DEF VerifyFails
  <2>18. CASE Killed
    BY <2>18 DEF Killed
  <2> QED BY <1>3, <2>1, <2>2, <2>3, <2>4, <2>5, <2>6, <2>7, <2>8, <2>9, <2>10, <2>11,
             <2>12, <2>13, <2>14, <2>15, <2>16, <2>17, <2>18 DEF Maintenance
<1> QED BY <1>1, <1>2, <1>3 DEF Next

LEMMA CopyInHandStays == IInv /\ [Next]_vars => CopyInHand'
<1> SUFFICES ASSUME DiskType, CommandType, RestType, Stages, Beside, Alone, CopyInHand, Staged,
                    Aside, Scratch, WritesAreSomething, NothingLost, [Next]_vars
             PROVE  CopyInHand'
  BY Types DEF IInv, Hold
<1> USE Names DEF CopyInHand, Idle, At, Ends, CopyTo, CommandType, DiskType
<1>1. CASE UNCHANGED vars
  BY <1>1 DEF vars
<1>2. CASE Application
  <2>1. CASE AppStarts
    BY <2>1 DEF AppStarts
  <2>2. CASE Begin
    BY <2>2 DEF Begin
  <2>3. CASE Commit
    BY <2>3 DEF Commit
  <2>4. CASE AppStops
    BY <2>4 DEF AppStops
  <2>5. CASE AppCrashes
    BY <2>5 DEF AppCrashes
  <2> QED BY <1>2, <2>1, <2>2, <2>3, <2>4, <2>5 DEF Application
<1>3. CASE Maintenance
  <2>1. CASE Backup
    BY <2>1 DEF Backup
  <2>2. CASE DryRun
    <3>1. PICK p \in Spare :
            /\ disk[p] = Absent
            /\ \/ /\ disk[Live] # Absent /\ disk' = [disk EXCEPT ![p] = Partial]
                  /\ cmd' = [kind |-> "dry-run", at |-> "copy", source |-> Live, target |-> p,
                             previous |-> Absent, had |-> Absent]
               \/ /\ disk[Live] = Absent /\ disk' = [disk EXCEPT ![p] = {}]
                  /\ cmd' = [kind |-> "dry-run", at |-> "apply", source |-> Live, target |-> p,
                             previous |-> Absent, had |-> Absent]
      BY <2>2, DryRunDoes
    <3> QED BY <3>1
  <2>3. CASE Migrate
    BY <2>3 DEF Migrate
  <2>4. CASE Restore
    BY <2>4 DEF Restore
  <2>5. CASE LockRefused
    BY <2>5 DEF LockRefused
  <2>6. CASE Stage
    <3>1. PICK p \in Spare : CopyTo(cmd.source, p, [cmd EXCEPT !.at = "copy", !.target = p])
      BY <2>6 DEF Stage
    <3>2. cmd.source \in Spare /\ cmd.kind = "restore"
      BY <2>6 DEF Stage, Staged
    <3> QED BY <3>1, <3>2
  <2>7. CASE Copied
    BY <2>7, CopiedDoes
  <2>8. CASE CopyFails
    BY <2>8 DEF CopyFails
  <2>9. CASE Applied
    BY <2>9 DEF Applied
  <2>10. CASE ApplyFails
    BY <2>10 DEF ApplyFails
  <2>11. CASE SetAside
    BY <2>11 DEF SetAside
  <2>12. CASE SetAsideFails
    BY <2>12 DEF SetAsideFails
  <2>13. CASE Place
    BY <2>13 DEF Place
  <2>14. CASE PlaceFails
    BY <2>14 DEF PlaceFails
  <2>15. CASE PutBackFails
    BY <2>15 DEF PutBackFails
  <2>16. CASE Verified
    BY <2>16 DEF Verified
  <2>17. CASE VerifyFails
    BY <2>17 DEF VerifyFails
  <2>18. CASE Killed
    BY <2>18 DEF Killed
  <2> QED BY <1>3, <2>1, <2>2, <2>3, <2>4, <2>5, <2>6, <2>7, <2>8, <2>9, <2>10, <2>11,
             <2>12, <2>13, <2>14, <2>15, <2>16, <2>17, <2>18 DEF Maintenance
<1> QED BY <1>1, <1>2, <1>3 DEF Next

LEMMA StagedStays == IInv /\ [Next]_vars => Staged'
<1> SUFFICES ASSUME DiskType, CommandType, RestType, Stages, Beside, Alone, CopyInHand, Staged,
                    Aside, Scratch, WritesAreSomething, NothingLost, [Next]_vars
             PROVE  Staged'
  BY Types DEF IInv, Hold
<1> USE Names, Empty DEF Staged, Whole, Idle, At, Ends, CopyTo, CommandType, DiskType
<1>1. CASE UNCHANGED vars
  BY <1>1 DEF vars
<1>2. CASE Application
  <2>1. CASE AppStarts
    BY <2>1 DEF AppStarts, Offline, Stages
  <2>2. CASE Begin
    BY <2>2 DEF Begin
  <2>3. CASE Commit
    <3>1. PICK now \in SUBSET Write :
            /\ now # {} /\ Whole(now) /\ Whole(disk[Live]) /\ disk[Live] \subseteq now
            /\ disk' = [disk EXCEPT ![Live] = now] /\ history' = Append(history, now)
      BY <2>3, CommitDoes
    <3> QED BY <2>3, <3>1 DEF Commit, Alone, Stages
  <2>4. CASE AppStops
    BY <2>4 DEF AppStops
  <2>5. CASE AppCrashes
    BY <2>5 DEF AppCrashes
  <2> QED BY <1>2, <2>1, <2>2, <2>3, <2>4, <2>5 DEF Application
<1>3. CASE Maintenance
  <2>1. CASE Backup
    BY <2>1 DEF Backup
  <2>2. CASE DryRun
    <3>1. PICK p \in Spare :
            /\ disk[p] = Absent
            /\ \/ /\ disk[Live] # Absent /\ disk' = [disk EXCEPT ![p] = Partial]
                  /\ cmd' = [kind |-> "dry-run", at |-> "copy", source |-> Live, target |-> p,
                             previous |-> Absent, had |-> Absent]
               \/ /\ disk[Live] = Absent /\ disk' = [disk EXCEPT ![p] = {}]
                  /\ cmd' = [kind |-> "dry-run", at |-> "apply", source |-> Live, target |-> p,
                             previous |-> Absent, had |-> Absent]
      BY <2>2, DryRunDoes
    <3> QED BY <3>1
  <2>3. CASE Migrate
    BY <2>3 DEF Migrate
  <2>4. CASE Restore
    BY <2>4 DEF Restore, Readable
  <2>5. CASE LockRefused
    BY <2>5 DEF LockRefused
  <2>6. CASE Stage
    BY <2>6 DEF Stage
  <2>7. CASE Copied
    BY <2>7, CopiedDoes DEF CopyInHand
  <2>8. CASE CopyFails
    BY <2>8 DEF CopyFails
  <2>9. CASE Applied
    BY <2>9 DEF Applied
  <2>10. CASE ApplyFails
    BY <2>10 DEF ApplyFails
  <2>11. CASE SetAside
    <3>1. CASE disk' = disk /\ cmd' = [cmd EXCEPT !.at = "place"] /\ disk[Live] = Absent
      BY <2>11, <3>1, SetAsideDoes DEF Stages
    <3>2. ASSUME NEW p \in Spare, disk[p] = Absent, disk[Live] # Absent,
                 disk' = [disk EXCEPT ![p] = disk[Live], ![Live] = Absent],
                 cmd' = [cmd EXCEPT !.at = "place", !.previous = p, !.had = disk[Live]]
          PROVE  Staged'
      BY <2>11, <3>2, SetAsideDoes DEF Stages
    <3> QED BY <2>11, <3>1, <3>2, SetAsideDoes
  <2>12. CASE SetAsideFails
    BY <2>12 DEF SetAsideFails
  <2>13. CASE Place
    BY <2>13, PlaceDoes
  <2>14. CASE PlaceFails
    BY <2>14 DEF PlaceFails
  <2>15. CASE PutBackFails
    BY <2>15 DEF PutBackFails
  <2>16. CASE Verified
    BY <2>16 DEF Verified
  <2>17. CASE VerifyFails
    BY <2>17 DEF VerifyFails
  <2>18. CASE Killed
    BY <2>18 DEF Killed
  <2> QED BY <1>3, <2>1, <2>2, <2>3, <2>4, <2>5, <2>6, <2>7, <2>8, <2>9, <2>10, <2>11,
             <2>12, <2>13, <2>14, <2>15, <2>16, <2>17, <2>18 DEF Maintenance
<1> QED BY <1>1, <1>2, <1>3 DEF Next

LEMMA AsideStays == IInv /\ [Next]_vars => Aside'
<1> SUFFICES ASSUME DiskType, CommandType, RestType, Stages, Beside, Alone, CopyInHand, Staged,
                    Aside, Scratch, WritesAreSomething, NothingLost, [Next]_vars
             PROVE  Aside'
  BY Types DEF IInv, Hold
<1> USE Names, Empty DEF Aside, Whole, Idle, At, Ends, CopyTo, CommandType, DiskType
<1>1. CASE UNCHANGED vars
  BY <1>1 DEF vars
<1>2. CASE Application
  <2>1. CASE AppStarts
    BY <2>1 DEF AppStarts, Offline, Stages
  <2>2. CASE Begin
    BY <2>2 DEF Begin
  <2>3. CASE Commit
    <3>1. PICK now \in SUBSET Write :
            /\ now # {} /\ Whole(now) /\ Whole(disk[Live]) /\ disk[Live] \subseteq now
            /\ disk' = [disk EXCEPT ![Live] = now] /\ history' = Append(history, now)
      BY <2>3, CommitDoes
    <3> QED BY <2>3, <3>1 DEF Commit
  <2>4. CASE AppStops
    BY <2>4 DEF AppStops
  <2>5. CASE AppCrashes
    BY <2>5 DEF AppCrashes
  <2> QED BY <1>2, <2>1, <2>2, <2>3, <2>4, <2>5 DEF Application
<1>3. CASE Maintenance
  <2>1. CASE Backup
    BY <2>1 DEF Backup
  <2>2. CASE DryRun
    <3>1. PICK p \in Spare :
            /\ disk[p] = Absent
            /\ \/ /\ disk[Live] # Absent /\ disk' = [disk EXCEPT ![p] = Partial]
                  /\ cmd' = [kind |-> "dry-run", at |-> "copy", source |-> Live, target |-> p,
                             previous |-> Absent, had |-> Absent]
               \/ /\ disk[Live] = Absent /\ disk' = [disk EXCEPT ![p] = {}]
                  /\ cmd' = [kind |-> "dry-run", at |-> "apply", source |-> Live, target |-> p,
                             previous |-> Absent, had |-> Absent]
      BY <2>2, DryRunDoes
    <3> QED BY <3>1
  <2>3. CASE Migrate
    BY <2>3 DEF Migrate
  <2>4. CASE Restore
    BY <2>4 DEF Restore
  <2>5. CASE LockRefused
    BY <2>5 DEF LockRefused
  <2>6. CASE Stage
    BY <2>6 DEF Stage
  <2>7. CASE Copied
    BY <2>7, CopiedDoes DEF CopyInHand
  <2>8. CASE CopyFails
    BY <2>8 DEF CopyFails
  <2>9. CASE Applied
    BY <2>9 DEF Applied
  <2>10. CASE ApplyFails
    BY <2>10 DEF ApplyFails
  <2>11. CASE SetAside
    <3>1. CASE disk' = disk /\ cmd' = [cmd EXCEPT !.at = "place"] /\ disk[Live] = Absent
      BY <2>11, <3>1, SetAsideDoes DEF NothingLost, Staged, Stages
    <3>2. ASSUME NEW p \in Spare, disk[p] = Absent, disk[Live] # Absent,
                 disk' = [disk EXCEPT ![p] = disk[Live], ![Live] = Absent],
                 cmd' = [cmd EXCEPT !.at = "place", !.previous = p, !.had = disk[Live]]
          PROVE  Aside'
      <4>1. cmd.kind = "restore" /\ p # cmd.source /\ p # cmd.target
        BY <2>11, <3>2, SetAsideDoes DEF Staged, Stages
      <4>2. Whole(disk[Live])
        BY <3>2 DEF NothingLost
      <4>3. disk'[p] = disk[Live] /\ disk'[Live] = Absent
        BY <3>2
      <4>4. /\ cmd'.previous = p /\ cmd'.had = disk[Live] /\ cmd'.at = "place"
            /\ cmd'.source = cmd.source /\ cmd'.target = cmd.target
        BY <3>2
      <4> QED BY <4>1, <4>2, <4>3, <4>4
    <3> QED BY <2>11, <3>1, <3>2, SetAsideDoes
  <2>12. CASE SetAsideFails
    BY <2>12 DEF SetAsideFails
  <2>13. CASE Place
    BY <2>13, PlaceDoes
  <2>14. CASE PlaceFails
    BY <2>14 DEF PlaceFails
  <2>15. CASE PutBackFails
    BY <2>15 DEF PutBackFails
  <2>16. CASE Verified
    BY <2>16 DEF Verified
  <2>17. CASE VerifyFails
    BY <2>17 DEF VerifyFails
  <2>18. CASE Killed
    BY <2>18 DEF Killed
  <2> QED BY <1>3, <2>1, <2>2, <2>3, <2>4, <2>5, <2>6, <2>7, <2>8, <2>9, <2>10, <2>11,
             <2>12, <2>13, <2>14, <2>15, <2>16, <2>17, <2>18 DEF Maintenance
<1> QED BY <1>1, <1>2, <1>3 DEF Next

LEMMA ScratchStays == IInv /\ [Next]_vars => Scratch'
<1> SUFFICES ASSUME DiskType, CommandType, RestType, Stages, Beside, Alone, CopyInHand, Staged,
                    Aside, Scratch, WritesAreSomething, NothingLost, [Next]_vars
             PROVE  Scratch'
  BY Types DEF IInv, Hold
<1> USE Names, Empty DEF Scratch, Whole, Idle, At, Ends, CopyTo, CommandType, DiskType
<1>1. CASE UNCHANGED vars
  BY <1>1 DEF vars
<1>2. CASE Application
  <2>1. CASE AppStarts
    BY <2>1 DEF AppStarts
  <2>2. CASE Begin
    BY <2>2 DEF Begin
  <2>3. CASE Commit
    <3>1. PICK now \in SUBSET Write :
            /\ now # {} /\ Whole(now) /\ Whole(disk[Live]) /\ disk[Live] \subseteq now
            /\ disk' = [disk EXCEPT ![Live] = now] /\ history' = Append(history, now)
      BY <2>3, CommitDoes
    <3> QED BY <2>3, <3>1 DEF Commit
  <2>4. CASE AppStops
    BY <2>4 DEF AppStops
  <2>5. CASE AppCrashes
    BY <2>5 DEF AppCrashes
  <2> QED BY <1>2, <2>1, <2>2, <2>3, <2>4, <2>5 DEF Application
<1>3. CASE Maintenance
  <2>1. CASE Backup
    BY <2>1 DEF Backup
  <2>2. CASE DryRun
    <3>1. PICK p \in Spare :
            /\ disk[p] = Absent
            /\ \/ /\ disk[Live] # Absent /\ disk' = [disk EXCEPT ![p] = Partial]
                  /\ cmd' = [kind |-> "dry-run", at |-> "copy", source |-> Live, target |-> p,
                             previous |-> Absent, had |-> Absent]
               \/ /\ disk[Live] = Absent /\ disk' = [disk EXCEPT ![p] = {}]
                  /\ cmd' = [kind |-> "dry-run", at |-> "apply", source |-> Live, target |-> p,
                             previous |-> Absent, had |-> Absent]
      BY <2>2, DryRunDoes
    <3> QED BY <3>1
  <2>3. CASE Migrate
    BY <2>3 DEF Migrate
  <2>4. CASE Restore
    BY <2>4 DEF Restore
  <2>5. CASE LockRefused
    BY <2>5 DEF LockRefused
  <2>6. CASE Stage
    BY <2>6 DEF Stage
  <2>7. CASE Copied
    BY <2>7, CopiedDoes DEF CopyInHand
  <2>8. CASE CopyFails
    BY <2>8 DEF CopyFails
  <2>9. CASE Applied
    BY <2>9 DEF Applied
  <2>10. CASE ApplyFails
    BY <2>10 DEF ApplyFails
  <2>11. CASE SetAside
    <3>1. CASE disk' = disk /\ cmd' = [cmd EXCEPT !.at = "place"] /\ disk[Live] = Absent
      BY <2>11, <3>1, SetAsideDoes DEF Stages
    <3>2. ASSUME NEW p \in Spare, disk[p] = Absent, disk[Live] # Absent,
                 disk' = [disk EXCEPT ![p] = disk[Live], ![Live] = Absent],
                 cmd' = [cmd EXCEPT !.at = "place", !.previous = p, !.had = disk[Live]]
          PROVE  Scratch'
      BY <2>11, <3>2, SetAsideDoes DEF Stages
    <3> QED BY <2>11, <3>1, <3>2, SetAsideDoes
  <2>12. CASE SetAsideFails
    BY <2>12 DEF SetAsideFails
  <2>13. CASE Place
    BY <2>13 DEF Place
  <2>14. CASE PlaceFails
    BY <2>14 DEF PlaceFails
  <2>15. CASE PutBackFails
    BY <2>15 DEF PutBackFails
  <2>16. CASE Verified
    BY <2>16 DEF Verified
  <2>17. CASE VerifyFails
    BY <2>17 DEF VerifyFails
  <2>18. CASE Killed
    BY <2>18 DEF Killed
  <2> QED BY <1>3, <2>1, <2>2, <2>3, <2>4, <2>5, <2>6, <2>7, <2>8, <2>9, <2>10, <2>11,
             <2>12, <2>13, <2>14, <2>15, <2>16, <2>17, <2>18 DEF Maintenance
<1> QED BY <1>1, <1>2, <1>3 DEF Next

LEMMA WritesAreSomethingStays == IInv /\ [Next]_vars => WritesAreSomething'
<1> SUFFICES ASSUME DiskType, CommandType, RestType, Stages, Beside, Alone, CopyInHand, Staged,
                    Aside, Scratch, WritesAreSomething, NothingLost, [Next]_vars
             PROVE  WritesAreSomething'
  BY Types DEF IInv, Hold
<1> USE DEF WritesAreSomething, RestType
<1>1. CASE UNCHANGED vars
  BY <1>1 DEF vars
<1>2. CASE Application
  <2>1. CASE AppStarts
    BY <2>1 DEF AppStarts
  <2>2. CASE Begin
    BY <2>2 DEF Begin
  <2>3. CASE Commit
    <3>1. PICK now \in SUBSET Write :
            /\ now # {} /\ Whole(now) /\ Whole(disk[Live]) /\ disk[Live] \subseteq now
            /\ disk' = [disk EXCEPT ![Live] = now] /\ history' = Append(history, now)
      BY <2>3, CommitDoes
    <3> QED BY <2>3, <3>1 DEF Commit
  <2>4. CASE AppStops
    BY <2>4 DEF AppStops
  <2>5. CASE AppCrashes
    BY <2>5 DEF AppCrashes
  <2> QED BY <1>2, <2>1, <2>2, <2>3, <2>4, <2>5 DEF Application
<1>3. CASE Maintenance
  <2>1. CASE Backup
    BY <2>1 DEF Backup
  <2>2. CASE DryRun
    BY <2>2 DEF DryRun
  <2>3. CASE Migrate
    BY <2>3 DEF Migrate
  <2>4. CASE Restore
    BY <2>4 DEF Restore
  <2>5. CASE LockRefused
    BY <2>5 DEF LockRefused
  <2>6. CASE Stage
    BY <2>6 DEF Stage
  <2>7. CASE Copied
    BY <2>7 DEF Copied
  <2>8. CASE CopyFails
    BY <2>8 DEF CopyFails
  <2>9. CASE Applied
    BY <2>9 DEF Applied
  <2>10. CASE ApplyFails
    BY <2>10 DEF ApplyFails
  <2>11. CASE SetAside
    BY <2>11 DEF SetAside
  <2>12. CASE SetAsideFails
    BY <2>12 DEF SetAsideFails
  <2>13. CASE Place
    BY <2>13 DEF Place
  <2>14. CASE PlaceFails
    BY <2>14 DEF PlaceFails
  <2>15. CASE PutBackFails
    BY <2>15 DEF PutBackFails
  <2>16. CASE Verified
    BY <2>16 DEF Verified
  <2>17. CASE VerifyFails
    BY <2>17 DEF VerifyFails
  <2>18. CASE Killed
    BY <2>18 DEF Killed
  <2> QED BY <1>3, <2>1, <2>2, <2>3, <2>4, <2>5, <2>6, <2>7, <2>8, <2>9, <2>10, <2>11,
             <2>12, <2>13, <2>14, <2>15, <2>16, <2>17, <2>18 DEF Maintenance
<1> QED BY <1>1, <1>2, <1>3 DEF Next

-----------------------------------------------------------------------------
(* Nothing is lost. *)

\* Whatever a file holds, a file holds after the step.
Covers ==
  \A p \in Path : Whole(disk[p]) /\ disk[p] # {} =>
    \E q \in Path : Whole(disk'[q]) /\ disk[p] \subseteq disk'[q]

LEMMA Covering ==
  ASSUME NothingLost, WritesAreSomething, Covers, disk'[Live] # Partial, UNCHANGED history
  PROVE  NothingLost'
<1> SUFFICES ASSUME NEW n \in 1 .. Len(history)
             PROVE  \E q \in Path : Whole(disk'[q]) /\ history[n] \subseteq disk'[q]
  BY DEF NothingLost, Whole
<1>1. PICK p \in Path : Whole(disk[p]) /\ history[n] \subseteq disk[p]
  BY DEF NothingLost
<1>2. disk[p] # {}
  BY <1>1 DEF WritesAreSomething
<1>3. PICK q \in Path : Whole(disk'[q]) /\ disk[p] \subseteq disk'[q]
  BY <1>1, <1>2 DEF Covers
<1> QED BY <1>1, <1>3

\* Every step but a commit leaves what there is, somewhere.
LEMMA OthersCover == IInv /\ [Next]_vars /\ ~Commit => Covers /\ UNCHANGED history
<1> SUFFICES ASSUME DiskType, CommandType, RestType, Stages, Beside, Alone, CopyInHand, Staged,
                    Aside, Scratch, WritesAreSomething, NothingLost, [Next]_vars
             PROVE  (~Commit) => Covers /\ UNCHANGED history
  BY Types DEF IInv, Hold
<1> USE Names, Empty DEF Covers, Whole, At, CopyTo, DiskType, CommandType
<1>1. CASE UNCHANGED vars
  BY <1>1 DEF vars
<1>2. CASE Application
  <2>1. CASE AppStarts
    BY <2>1 DEF AppStarts
  <2>2. CASE Begin
    BY <2>2 DEF Begin
  <2>3. CASE Commit
    BY <2>3
  <2>4. CASE AppStops
    BY <2>4 DEF AppStops
  <2>5. CASE AppCrashes
    BY <2>5 DEF AppCrashes
  <2> QED BY <1>2, <2>1, <2>2, <2>3, <2>4, <2>5 DEF Application
<1>3. CASE Maintenance
  <2>1. CASE Backup
    BY <2>1 DEF Backup
  <2>2. CASE DryRun
    <3>1. UNCHANGED history
      BY <2>2 DEF DryRun
    <3> QED BY <2>2, <3>1, DryRunDoes
  <2>3. CASE Migrate
    BY <2>3 DEF Migrate
  <2>4. CASE Restore
    BY <2>4 DEF Restore
  <2>5. CASE LockRefused
    BY <2>5 DEF LockRefused
  <2>6. CASE Stage
    BY <2>6 DEF Stage
  <2>7. CASE Copied
    BY <2>7, CopiedDoes DEF CopyInHand
  <2>8. CASE CopyFails
    BY <2>8 DEF CopyFails, CopyInHand
  <2>9. CASE Applied
    BY <2>9 DEF Applied, Scratch
  <2>10. CASE ApplyFails
    BY <2>10 DEF ApplyFails, Scratch
  <2>11. CASE SetAside
    <3>1. UNCHANGED history
      BY <2>11 DEF SetAside
    <3> QED BY <2>11, <3>1, SetAsideDoes
  <2>12. CASE SetAsideFails
    BY <2>12 DEF SetAsideFails, Staged
  <2>13. CASE Place
    <3>1. UNCHANGED history
      BY <2>13 DEF Place
    <3> QED BY <2>13, <3>1, PlaceDoes DEF Aside, Staged
  <2>14. CASE PlaceFails
    BY <2>14 DEF PlaceFails, PutBack, Aside, Staged
  <2>15. CASE PutBackFails
    BY <2>15 DEF PutBackFails, Staged
  <2>16. CASE Verified
    BY <2>16 DEF Verified
  <2>17. CASE VerifyFails
    BY <2>17 DEF VerifyFails
  <2>18. CASE Killed
    BY <2>18 DEF Killed
  <2> QED BY <1>3, <2>1, <2>2, <2>3, <2>4, <2>5, <2>6, <2>7, <2>8, <2>9, <2>10, <2>11,
             <2>12, <2>13, <2>14, <2>15, <2>16, <2>17, <2>18 DEF Maintenance
<1> QED BY <1>1, <1>2, <1>3 DEF Next

LEMMA LiveIsWhole == IInv /\ [Next]_vars => disk'[Live] # Partial
<1> SUFFICES ASSUME DiskType, CommandType, RestType, Stages, Beside, Alone, CopyInHand, Staged,
                    Aside, Scratch, WritesAreSomething, NothingLost, [Next]_vars
             PROVE  disk'[Live] # Partial
  BY Types DEF IInv, Hold
<1>0. disk[Live] # Partial
  BY DEF NothingLost
<1> USE <1>0, Names, Empty DEF Whole, At, CopyTo, DiskType, CommandType
<1>1. CASE UNCHANGED vars
  BY <1>1 DEF vars
<1>2. CASE Application
  <2>1. CASE AppStarts
    BY <2>1 DEF AppStarts
  <2>2. CASE Begin
    BY <2>2 DEF Begin
  <2>3. CASE Commit
    BY <2>3, CommitDoes
  <2>4. CASE AppStops
    BY <2>4 DEF AppStops
  <2>5. CASE AppCrashes
    BY <2>5 DEF AppCrashes
  <2> QED BY <1>2, <2>1, <2>2, <2>3, <2>4, <2>5 DEF Application
<1>3. CASE Maintenance
  <2>1. CASE Backup
    BY <2>1 DEF Backup
  <2>2. CASE DryRun
    BY <2>2, DryRunDoes
  <2>3. CASE Migrate
    BY <2>3 DEF Migrate
  <2>4. CASE Restore
    BY <2>4 DEF Restore
  <2>5. CASE LockRefused
    BY <2>5 DEF LockRefused
  <2>6. CASE Stage
    BY <2>6 DEF Stage
  <2>7. CASE Copied
    BY <2>7, CopiedDoes DEF CopyInHand
  <2>8. CASE CopyFails
    BY <2>8 DEF CopyFails
  <2>9. CASE Applied
    BY <2>9 DEF Applied
  <2>10. CASE ApplyFails
    BY <2>10 DEF ApplyFails
  <2>11. CASE SetAside
    BY <2>11, SetAsideDoes
  <2>12. CASE SetAsideFails
    BY <2>12 DEF SetAsideFails
  <2>13. CASE Place
    BY <2>13, PlaceDoes DEF Staged
  <2>14. CASE PlaceFails
    BY <2>14 DEF PlaceFails, PutBack, Aside, Staged
  <2>15. CASE PutBackFails
    BY <2>15 DEF PutBackFails
  <2>16. CASE Verified
    BY <2>16 DEF Verified
  <2>17. CASE VerifyFails
    BY <2>17 DEF VerifyFails
  <2>18. CASE Killed
    BY <2>18 DEF Killed
  <2> QED BY <1>3, <2>1, <2>2, <2>3, <2>4, <2>5, <2>6, <2>7, <2>8, <2>9, <2>10, <2>11,
             <2>12, <2>13, <2>14, <2>15, <2>16, <2>17, <2>18 DEF Maintenance
<1> QED BY <1>1, <1>2, <1>3 DEF Next

LEMMA NothingLostStays == IInv /\ [Next]_vars => NothingLost'
<1> SUFFICES ASSUME DiskType, CommandType, RestType, Stages, Beside, Alone, CopyInHand, Staged,
                    Aside, Scratch, WritesAreSomething, NothingLost, [Next]_vars
             PROVE  NothingLost'
  BY Types DEF IInv, Hold
<1>1. disk'[Live] # Partial
  BY Types, LiveIsWhole DEF IInv, Hold
<1>2. CASE ~Commit
  BY <1>1, <1>2, Types, OthersCover, Covering DEF IInv, Hold
<1>3. CASE Commit
  <2>1. PICK now \in SUBSET Write :
          /\ now # {} /\ Whole(now) /\ Whole(disk[Live]) /\ disk[Live] \subseteq now
          /\ disk' = [disk EXCEPT ![Live] = now] /\ history' = Append(history, now)
    BY <1>3, CommitDoes
  <2>2. disk'[Live] = now /\ \A p \in Path \ {Live} : disk'[p] = disk[p]
    BY <2>1, Names DEF DiskType
  <2> SUFFICES ASSUME NEW n \in 1 .. Len(history')
               PROVE  \E p \in Path : Whole(disk'[p]) /\ history'[n] \subseteq disk'[p]
    BY <1>1 DEF NothingLost, Whole
  <2>3. CASE n = Len(history) + 1
    <3>1. history'[n] = now
      BY <2>1, <2>3 DEF RestType
    <3> QED BY <2>1, <2>2, <3>1, Names
  <2>4. CASE n # Len(history) + 1
    <3>1. n \in 1 .. Len(history) /\ history'[n] = history[n]
      BY <2>1, <2>4 DEF RestType
    <3>2. PICK p \in Path : Whole(disk[p]) /\ history[n] \subseteq disk[p]
      BY <3>1 DEF NothingLost
    <3> QED BY <2>1, <2>2, <3>1, <3>2, Names
  <2> QED BY <2>3, <2>4
<1> QED BY <1>2, <1>3

-----------------------------------------------------------------------------
(* The theorems. *)

LEMMA HoldInitially == Init => IInv
<1> SUFFICES ASSUME Init PROVE IInv
  OBVIOUS
<1> USE DEF Init
<1>1. DiskType /\ CommandType
  BY Names, Files DEF DiskType, CommandType, Idle
<1>2. RestType
  <2>1. history \in Seq(SUBSET Write) /\ Len(history) = 0
    OBVIOUS
  <2>2. started \in 0 .. MaxCommands /\ faults \in 0 .. MaxFaults /\ 0 <= MaxWrites
    BY Bounds
  <2>3. told = "nothing" /\ app = "down" /\ journal = FALSE
    OBVIOUS
  <2> QED BY <2>1, <2>2, <2>3 DEF RestType
<1>3. Hold
  BY Names DEF Hold, Stages, Beside, Alone, CopyInHand, Staged, Aside, Scratch, WritesAreSomething, Idle, Whole
<1>4. NothingLost
  BY Names DEF NothingLost
<1> QED BY <1>1, <1>2, <1>3, <1>4, Types DEF IInv

LEMMA Invariance == Spec => []IInv
<1>1. Init => IInv
  BY HoldInitially
<1>2. IInv /\ [Next]_vars => IInv'
  <2> SUFFICES ASSUME IInv, [Next]_vars PROVE IInv'
    OBVIOUS
  <2>1. TypeOK'
    BY DiskStays, CommandStays, RestStays DEF TypeOK, DiskType, CommandType, RestType, File
  <2>2. Hold'
    BY StagesStays, BesideStays, AloneStays, CopyInHandStays, StagedStays, AsideStays, ScratchStays,
       WritesAreSomethingStays DEF Hold
  <2> QED BY <2>1, <2>2, NothingLostStays DEF IInv
<1> QED BY <1>1, <1>2, PTL DEF Spec

\* The disk maps paths to files, the command is one of the commands, and the
\* bounds hold, for whatever paths and bounds there are.
THEOREM DatabaseTypeCorrect == Spec => []TypeOK
<1>1. IInv => TypeOK
  BY DEF IInv
<1> QED BY <1>1, Invariance, PTL

\* Whatever is killed or fails in a migrate, backup, restore or dry run, every
\* state that the application committed is contained in a whole file, and the
\* path of the database never names anything but a whole database.
THEOREM CommittedWritesSurvive == Spec => []NothingLost
<1>1. IInv => NothingLost
  BY DEF IInv
<1> QED BY <1>1, Invariance, PTL

\* What a restore reports when it ends is what it did: the backup is in place
\* and the previous database under the reported name, or the path is as found.
THEOREM RestoreIsHonest == Spec => RestoreTellsTheTruth
<1> DEFINE Honest == [
      cmd.kind = "restore" /\ cmd'.at = "idle" =>
      /\ told' = "restored" =>
           /\ disk'[Live] = disk'[cmd.source]
           /\ cmd.had # Absent => cmd.previous # Absent /\ disk'[cmd.previous] = cmd.had
      /\ told' = "refused" =>
           disk'[Live] = IF cmd.at = "place" THEN cmd.had ELSE disk[Live] ]_vars
<1>1. IInv /\ [Next]_vars => Honest
  <2> SUFFICES ASSUME DiskType, CommandType, RestType, Stages, Beside, Alone, CopyInHand, Staged,
                      Aside, Scratch, WritesAreSomething, NothingLost, [Next]_vars
               PROVE  Honest
    BY Types DEF IInv, Hold
  <2> SUFFICES ASSUME cmd.kind = "restore", cmd'.at = "idle", Next
               PROVE  Honest
    BY DEF vars
  <2>0. cmd.at # "idle"
    BY DEF Stages, Idle
  <2> USE <2>0, Names, Empty DEF At, Idle, Ends, Start, DiskType, CommandType, Whole
  <2>2. CASE Application
    <3>1. CASE AppStarts
      BY <3>1 DEF AppStarts
    <3>2. CASE Begin
      BY <3>2 DEF Begin
    <3>3. CASE Commit
      BY <3>3 DEF Commit
    <3>4. CASE AppStops
      BY <3>4 DEF AppStops
    <3>5. CASE AppCrashes
      BY <3>5 DEF AppCrashes
    <3> QED BY <2>2, <3>1, <3>2, <3>3, <3>4, <3>5 DEF Application
  <2>3. CASE Maintenance
    <3>1. CASE Backup
      BY <3>1 DEF Backup
    <3>2. CASE DryRun
      BY <3>2 DEF DryRun
    <3>3. CASE Migrate
      BY <3>3 DEF Migrate
    <3>4. CASE Restore
      BY <3>4 DEF Restore
    <3>5. CASE LockRefused
      BY <3>5 DEF LockRefused
    <3>6. CASE Stage
      BY <3>6 DEF Stage, CopyTo
    <3>7. CASE Copied
      BY <3>7, CopiedDoes
    <3>8. CASE CopyFails
      BY <3>8 DEF CopyFails, CopyInHand
    <3>9. CASE Applied
      BY <3>9 DEF Applied, Stages
    <3>10. CASE ApplyFails
      BY <3>10 DEF ApplyFails, Stages
    <3>11. CASE SetAside
      BY <3>11 DEF SetAside
    <3>12. CASE SetAsideFails
      BY <3>12 DEF SetAsideFails, Staged
    <3>13. CASE Place
      BY <3>13 DEF Place
    <3>14. CASE PlaceFails
      BY <3>14 DEF PlaceFails, PutBack, Aside, Staged
    <3>15. CASE PutBackFails
      BY <3>15 DEF PutBackFails
    <3>16. CASE Verified
      BY <3>16 DEF Verified, Staged, Aside
    <3>17. CASE VerifyFails
      BY <3>17 DEF VerifyFails
    <3>18. CASE Killed
      BY <3>18 DEF Killed
    <3> QED BY <2>3, <3>1, <3>2, <3>3, <3>4, <3>5, <3>6, <3>7, <3>8, <3>9, <3>10, <3>11,
               <3>12, <3>13, <3>14, <3>15, <3>16, <3>17, <3>18 DEF Maintenance
  <2> QED BY <2>2, <2>3 DEF Next
<1> QED BY <1>1, Invariance, PTL DEF Spec, RestoreTellsTheTruth

\* No command changes a whole file that is neither the database nor its own.
THEOREM ExistingFilesAreNeverOverwritten == Spec => KeptFilesStay
<1> DEFINE Kept == [
      \A p \in Spare :
        Whole(disk[p]) /\ p \notin {cmd.target, cmd.previous} => disk'[p] = disk[p] ]_vars
<1>1. IInv /\ [Next]_vars => Kept
  <2> SUFFICES ASSUME DiskType, CommandType, RestType, Stages, Beside, Alone, CopyInHand, Staged,
                      Aside, Scratch, WritesAreSomething, NothingLost, [Next]_vars
               PROVE  Kept
    BY Types DEF IInv, Hold
  <2> SUFFICES ASSUME NEW p \in Spare, Whole(disk[p]), p # cmd.target, p # cmd.previous, Next
               PROVE  disk'[p] = disk[p]
    BY DEF vars
  <2> USE Names, Empty DEF At, CopyTo, DiskType, CommandType, Whole
  <2>2. CASE Application
    <3>1. CASE AppStarts
      BY <3>1 DEF AppStarts
    <3>2. CASE Begin
      BY <3>2 DEF Begin
    <3>3. CASE Commit
      BY <3>3, CommitDoes
    <3>4. CASE AppStops
      BY <3>4 DEF AppStops
    <3>5. CASE AppCrashes
      BY <3>5 DEF AppCrashes
    <3> QED BY <2>2, <3>1, <3>2, <3>3, <3>4, <3>5 DEF Application
  <2>3. CASE Maintenance
    <3>1. CASE Backup
      BY <3>1 DEF Backup
    <3>2. CASE DryRun
      BY <3>2, DryRunDoes
    <3>3. CASE Migrate
      BY <3>3 DEF Migrate
    <3>4. CASE Restore
      BY <3>4 DEF Restore
    <3>5. CASE LockRefused
      BY <3>5 DEF LockRefused
    <3>6. CASE Stage
      BY <3>6 DEF Stage
    <3>7. CASE Copied
      BY <3>7, CopiedDoes
    <3>8. CASE CopyFails
      BY <3>8 DEF CopyFails
    <3>9. CASE Applied
      BY <3>9 DEF Applied
    <3>10. CASE ApplyFails
      BY <3>10 DEF ApplyFails
    <3>11. CASE SetAside
      BY <3>11, SetAsideDoes
    <3>12. CASE SetAsideFails
      BY <3>12 DEF SetAsideFails
    <3>13. CASE Place
      BY <3>13, PlaceDoes
    <3>14. CASE PlaceFails
      BY <3>14 DEF PlaceFails, PutBack
    <3>15. CASE PutBackFails
      BY <3>15 DEF PutBackFails
    <3>16. CASE Verified
      BY <3>16 DEF Verified
    <3>17. CASE VerifyFails
      BY <3>17 DEF VerifyFails
    <3>18. CASE Killed
      BY <3>18 DEF Killed
    <3> QED BY <2>3, <3>1, <3>2, <3>3, <3>4, <3>5, <3>6, <3>7, <3>8, <3>9, <3>10, <3>11,
               <3>12, <3>13, <3>14, <3>15, <3>16, <3>17, <3>18 DEF Maintenance
  <2> QED BY <2>2, <2>3 DEF Next
<1> QED BY <1>1, Invariance, PTL DEF Spec, KeptFilesStay
=============================================================================
