---------------------------- MODULE WallpaperRun ----------------------------
(***************************************************************************)
(* The durable protocol of ONE wallpaper run: ChannelWallpaperService.resume *)
(* and .undo (src/src/images/channel-wallpaper.service.ts) executed by      *)
(* attempts that compete for the run's lease, against a TeamSpeak server    *)
(* whose replies may be lost and whose commands may still be executed after *)
(* the caller gave up.                                                      *)
(*                                                                          *)
(* An attempt is one call of leased(): its `body` is the callback, its      *)
(* `closer` the code after withConnection (final status) and the finally    *)
(* block (lease release).  They separate when runTeamSpeakOperation stops:  *)
(* withConnection rejects at once while the callback may still be running.  *)
(* The lease token is a fresh UUID per attempt: here the attempt itself.    *)
(***************************************************************************)
EXTENDS Integers

CONSTANTS
  Attempt,    \* slots for attempts; a slot is reused once nothing of it is left
  RowCount,   \* number of rows of the run
  ParentRow,  \* ParentRow[r]: the row whose channel is r's parent, 0 for none
  Nobody,     \* the null lease token
  MaxFaults   \* bound on crashes, stalls, failures and outside interference

Row == 1..RowCount

ASSUME RunAssumption ==
  /\ RowCount \in Nat \ {0}
  /\ MaxFaults \in Nat
  /\ Nobody \notin Attempt
  /\ ParentRow \in [Row -> 0..RowCount]
  \* `parents` only holds rows processed before; the row plan nests once.
  /\ \A r \in Row : ParentRow[r] < r /\ (ParentRow[r] # 0 => ParentRow[ParentRow[r]] = 0)

VARIABLES
  \* --- the database
  status,     \* WallpaperRun.status
  token,      \* WallpaperRun.leaseToken
  lease,      \* WallpaperRun.leaseUntil: none, in the future, in the past
  rows,       \* WallpaperRunRow: status, cid, prepared (image bytes still kept)
  images,     \* cids that have a ChannelImage
  \* --- the TeamSpeak server
  channels,   \* live channels carrying this run's provisional URL and marker
  nextCid,
  cmd,        \* the command of an attempt the server has not answered yet
  \* --- the memory of the attempts
  kind,       \* resume, undo or none
  pc,         \* where the callback is
  closer,     \* where the code after the callback is
  conn,       \* the connection is usable: runTeamSpeakOperation has not stopped
  lost,       \* leaseLost
  failed,     \* the outcome the closer will record
  at,         \* position of the row in hand
  local,      \* run.rows as loaded and changed in memory
  snap,       \* `channels`: the snapshot the callback works from
  \* --- history
  ordered,    \* rows for which a channelcreate was ever sent
  meddled,    \* cids somebody outside the run interfered with
  faults      \* how many faults have happened

db      == <<status, token, lease, rows, images>>
ts      == <<channels, nextCid>>
memory  == <<kind, pc, closer, conn, lost, failed, at, local, snap>>
history == <<ordered, meddled, faults>>
vars    == <<db, ts, cmd, memory, history>>

NoCid == 0
Cid   == Nat \ {0}

RunStatus == {"pending", "running", "partial-failure", "completed",
              "undoing", "undo-partial", "undone"}
RowStatus == {"pending", "creating", "uncertain", "created", "saved",
              "deleting", "deleted"}
RowRecord == [status : RowStatus, cid : Nat, prepared : BOOLEAN]
\* url: the run's provisional URL, the by-id URL of the channel, another one.
\* edit: what an administrator did to the channel since it was created.
\* rewritten (history): somebody else than the run has written the URL.
Channel   == [cid : Cid, row : Row, pid : Nat, url : {"run", "id", "other"}, busy : BOOLEAN,
              edit : {"none", "changed", "unmarked", "child"}, rewritten : BOOLEAN]
NoCommand == [op |-> "none", row |-> 0, cid |-> NoCid]
Command   == {NoCommand} \cup [op : {"create", "edit", "delete"}, row : Row, cid : Nat]

\* At which statement the callback is, for the row in hand.
Pc == {"off", "load", "list", "row", "identify", "intend", "order", "await",
       "record", "store", "save", "point", "finish", "delete", "erase", "catch"}

FreshRow  == [status |-> "pending", cid |-> NoCid, prepared |-> TRUE]
NoRows    == [r \in Row |-> FreshRow]

DatabaseTypeOK ==
  /\ status \in RunStatus
  /\ token \in Attempt \cup {Nobody}
  /\ lease \in {"none", "valid", "expired"}
  /\ rows \in [Row -> RowRecord]
  /\ images \in SUBSET Cid

ServerTypeOK ==
  /\ channels \in SUBSET Channel
  /\ nextCid \in Cid
  /\ cmd \in [Attempt -> Command]

MemoryTypeOK ==
  /\ kind \in [Attempt -> {"none", "resume", "undo"}]
  /\ pc \in [Attempt -> Pc]
  /\ closer \in [Attempt -> {"off", "await", "status", "release"}]
  /\ conn \in [Attempt -> BOOLEAN]
  /\ lost \in [Attempt -> BOOLEAN]
  /\ failed \in [Attempt -> BOOLEAN]
  /\ at \in [Attempt -> 0..(RowCount + 1)]
  /\ local \in [Attempt -> [Row -> RowRecord]]
  /\ snap \in [Attempt -> SUBSET Channel]

HistoryTypeOK ==
  /\ ordered \in SUBSET Row
  /\ meddled \in SUBSET Cid
  /\ faults \in 0..MaxFaults

TypeOK == DatabaseTypeOK /\ ServerTypeOK /\ MemoryTypeOK /\ HistoryTypeOK

\* A run as prepare() leaves it: rows stored with their prepared images.
Init ==
  /\ status = "pending"
  /\ token = Nobody
  /\ lease = "none"
  /\ rows = NoRows
  /\ images = {}
  /\ channels = {}
  /\ nextCid = 1
  /\ cmd = [a \in Attempt |-> NoCommand]
  /\ kind = [a \in Attempt |-> "none"]
  /\ pc = [a \in Attempt |-> "off"]
  /\ closer = [a \in Attempt |-> "off"]
  /\ conn = [a \in Attempt |-> FALSE]
  /\ lost = [a \in Attempt |-> FALSE]
  /\ failed = [a \in Attempt |-> FALSE]
  /\ at = [a \in Attempt |-> 0]
  /\ local = [a \in Attempt |-> NoRows]
  /\ snap = [a \in Attempt |-> {}]
  /\ ordered = {}
  /\ meddled = {}
  /\ faults = 0

-----------------------------------------------------------------------------
(* Helpers *)

Fault == faults < MaxFaults /\ faults' = faults + 1

Live(c) == {ch \in channels : ch.cid = c}

\* The row the callback has in hand, as its memory has it.
Mine(a) == local[a][at[a]]

InRow(a) == at[a] \in Row

Goto(a, p) == pc' = [pc EXCEPT ![a] = p]

\* The callback is over: its memory is gone.  If withConnection has not
\* rejected before, the closer continues at `next` with the outcome.
BodyEnds(a, bad, next) ==
  /\ Goto(a, "off")
  /\ local' = [local EXCEPT ![a] = NoRows]
  /\ snap' = [snap EXCEPT ![a] = {}]
  /\ at' = [at EXCEPT ![a] = 0]
  /\ lost' = [lost EXCEPT ![a] = FALSE]
  /\ conn' = [conn EXCEPT ![a] = FALSE]
  /\ failed' = IF closer[a] = "await" /\ next = "status" /\ bad
                 THEN [failed EXCEPT ![a] = TRUE] ELSE failed
  /\ closer' = IF closer[a] = "await" THEN [closer EXCEPT ![a] = next] ELSE closer
  /\ kind' = IF closer[a] = "off" THEN [kind EXCEPT ![a] = "none"] ELSE kind

\* mutant: trust the flag in memory and do not ask the database.
HeldInMemory(a) == ~lost[a]
\* assertLease() passes: the lease is renewed under this attempt's token.
Held(a) == token = a /\ ~lost[a]
Renew(a) == lease' = "valid"

-----------------------------------------------------------------------------
(* leased(): the claim, the heartbeat, the final status and the release *)

Free(a) == pc[a] = "off" /\ closer[a] = "off" /\ cmd[a] = NoCommand

\* mutant: a lease that ran out is not claimed.
ClaimableReleased == lease = "none"
\* leaseUntil is null or in the past.
Claimable == lease # "valid"

Claim(a, k, st) ==
  /\ Free(a)
  /\ Claimable
  /\ status' = st
  /\ token' = a
  /\ lease' = "valid"
  /\ kind' = [kind EXCEPT ![a] = k]
  /\ Goto(a, "load")
  /\ closer' = [closer EXCEPT ![a] = "await"]
  /\ UNCHANGED <<rows, images, ts, cmd, conn, lost, failed, at, local, snap, history>>

ClaimResume(a) ==
  /\ status \in {"pending", "running", "partial-failure"}
  /\ Claim(a, "resume", "running")

ClaimUndo(a) ==
  /\ status # "undone"
  /\ Claim(a, "undo", "undoing")

\* The interval that renews the lease; it runs until the finally block.
Heartbeat(a) ==
  /\ closer[a] \in {"await", "status"}
  /\ IF token = a THEN Renew(a) /\ UNCHANGED lost
                  ELSE /\ lost' = IF pc[a] = "off" THEN lost ELSE [lost EXCEPT ![a] = TRUE]
                       /\ UNCHANGED lease
  /\ UNCHANGED <<status, token, rows, images, ts, cmd, kind, pc, closer, conn, failed,
                 at, local, snap, history>>

\* The heartbeat's query fails: leaseLost is set although the token is held.
HeartbeatFails(a) ==
  /\ closer[a] \in {"await", "status"}
  /\ pc[a] # "off"
  /\ Fault
  /\ lost' = [lost EXCEPT ![a] = TRUE]
  /\ UNCHANGED <<db, ts, cmd, kind, pc, closer, conn, failed, at, local, snap,
                 ordered, meddled>>

HolderAlive == \E a \in Attempt : token = a /\ closer[a] # "off"

\* leaseUntil passes, nobody being left to renew it.
LeaseExpires ==
  /\ lease = "valid"
  /\ ~HolderAlive
  /\ lease' = "expired"
  /\ UNCHANGED <<status, token, rows, images, ts, cmd, memory, history>>

\* leaseUntil passes although its holder is at work: a stall of a minute of the
\* event loop, of the database or of the clock.
LeaseStalls ==
  /\ lease = "valid"
  /\ HolderAlive
  /\ Fault
  /\ lease' = "expired"
  /\ UNCHANGED <<status, token, rows, images, ts, cmd, memory, ordered, meddled>>

\* mutant: a row's failure is reported per row only.
FinalStatusBlind(a) == IF kind[a] = "resume" THEN "completed" ELSE "undone"
FinalStatus(a) ==
  IF kind[a] = "resume" THEN IF failed[a] THEN "partial-failure" ELSE "completed"
                        ELSE IF failed[a] THEN "undo-partial" ELSE "undone"

\* The last updateMany of resume and undo, fenced by the token.
CloseStatus(a) ==
  /\ closer[a] = "status"
  /\ status' = IF token = a THEN FinalStatus(a) ELSE status
  /\ closer' = [closer EXCEPT ![a] = "release"]
  /\ failed' = [failed EXCEPT ![a] = FALSE]
  /\ UNCHANGED <<token, lease, rows, images, ts, cmd, kind, pc, conn, lost, at, local,
                 snap, history>>

\* The finally block of leased().
Release(a) ==
  /\ closer[a] = "release"
  /\ IF token = a THEN token' = Nobody /\ lease' = "none"
                  ELSE UNCHANGED <<token, lease>>
  /\ closer' = [closer EXCEPT ![a] = "off"]
  /\ kind' = IF pc[a] = "off" THEN [kind EXCEPT ![a] = "none"] ELSE kind
  /\ UNCHANGED <<status, rows, images, ts, cmd, pc, conn, lost, failed, at, local, snap,
                 history>>

\* The database refuses one of these two updates: resume falls back to the
\* partial-failure update, everything else goes on to the release or ends.
CloserFails(a) ==
  /\ closer[a] \in {"status", "release"}
  /\ Fault
  /\ IF closer[a] = "status" /\ kind[a] = "resume" /\ ~failed[a]
       THEN failed' = [failed EXCEPT ![a] = TRUE] /\ UNCHANGED closer
       ELSE /\ failed' = [failed EXCEPT ![a] = FALSE]
            /\ closer' = [closer EXCEPT ![a] = IF @ = "status" THEN "release" ELSE "off"]
  /\ kind' = IF closer[a] = "release" /\ pc[a] = "off" THEN [kind EXCEPT ![a] = "none"] ELSE kind
  /\ UNCHANGED <<db, ts, cmd, pc, conn, lost, at, local, snap, ordered, meddled>>

-----------------------------------------------------------------------------
(* The start of a callback: load the rows, connect, list the channels *)

Load(a) ==
  /\ pc[a] = "load"
  /\ local' = [local EXCEPT ![a] = rows]
  /\ conn' = [conn EXCEPT ![a] = TRUE]
  /\ Goto(a, "list")
  /\ UNCHANGED <<db, ts, cmd, kind, closer, lost, failed, at, snap, history>>

List(a) ==
  /\ pc[a] = "list"
  /\ conn[a]
  /\ snap' = [snap EXCEPT ![a] = channels]
  /\ at' = [at EXCEPT ![a] = IF kind[a] = "resume" THEN 1 ELSE RowCount]
  /\ Goto(a, "row")
  /\ UNCHANGED <<db, ts, cmd, kind, closer, conn, lost, failed, local, history>>

\* Every row is done: rows run upwards in resume, downwards in undo.
AllRowsDone(a) ==
  /\ pc[a] = "row"
  /\ ~InRow(a)
  /\ BodyEnds(a, FALSE, "status")
  /\ UNCHANGED <<db, ts, cmd, history>>

NextRow(a) ==
  /\ at' = [at EXCEPT ![a] = IF kind[a] = "resume" THEN at[a] + 1 ELSE at[a] - 1]
  /\ Goto(a, "row")

SkipDeleted(a) ==
  /\ pc[a] = "row" /\ InRow(a)
  /\ kind[a] = "undo"
  /\ Mine(a).status = "deleted"
  /\ NextRow(a)
  /\ UNCHANGED <<db, ts, cmd, kind, closer, conn, lost, failed, local, snap, history>>

\* assertLease() before the row; resume also clears the row's error (fenced).
\* Here and below, assertLease() and the fenced update or the command after it
\* are one step: a lease lost in between lets the update match no row, and the
\* server executes a command at any later time anyway.
StartRow(a) ==
  /\ pc[a] = "row" /\ InRow(a)
  /\ kind[a] = "undo" => Mine(a).status # "deleted"
  /\ Held(a)
  /\ Renew(a)
  /\ Goto(a, "identify")
  /\ UNCHANGED <<status, token, rows, images, ts, cmd, kind, closer, conn, lost, failed,
                 at, local, snap, history>>

-----------------------------------------------------------------------------
(* identify(): which live channel is this row's *)

Candidates(a) ==
  {ch \in snap[a] : IF Mine(a).cid # NoCid THEN ch.cid = Mine(a).cid
                                           ELSE ch.row = at[a] /\ ch.url = "run"}

\* channelInfo reads the marker now; name, parent and URL are the snapshot's.
Marked(ch) == \E now \in Live(ch.cid) : now.edit # "unmarked"
Owned(a) == {ch \in Candidates(a) : Marked(ch)}
IdentifyThrows(a) ==
  \/ ~conn[a] /\ Candidates(a) # {}
  \/ \E ch \in Candidates(a) : Live(ch.cid) = {}
  \/ Mine(a).cid # NoCid /\ Candidates(a) # Owned(a)
  \/ \E ch \in Owned(a) : ch.edit = "changed" \/ ch.url = "other"
  \/ \E ch, other \in Owned(a) : ch # other

\* mutant: "creating" is taken for a creation that never started.
UnknownIfSaid(r) == r.cid = NoCid /\ r.status = "uncertain"
Unknown(r) == r.cid = NoCid /\ r.status \in {"creating", "uncertain"}
HasChild(a, ch) == ch.edit = "child" \/ \E sub \in snap[a] : sub.pid = ch.cid

\* The channel was found, by its recorded cid or by the provisional URL.
IdentifyFound(a) ==
  /\ pc[a] = "identify"
  /\ ~IdentifyThrows(a)
  /\ \E ch \in Owned(a) :
       /\ local' = [local EXCEPT ![a][at[a]].cid = ch.cid]
       /\ Goto(a, IF kind[a] = "resume" THEN "record"
                  ELSE IF HasChild(a, ch) THEN "catch" ELSE "intend")
  /\ UNCHANGED <<db, ts, cmd, kind, closer, conn, lost, failed, at, snap, history>>

\* No channel: resume may create one, undo has nothing to delete -- unless an
\* earlier creation may have happened without anybody having seen its result.
IdentifyNone(a) ==
  /\ pc[a] = "identify"
  /\ ~IdentifyThrows(a)
  /\ Owned(a) = {}
  /\ Goto(a, IF Unknown(Mine(a)) \/ (kind[a] = "resume" /\ Mine(a).cid # NoCid) THEN "catch"
             ELSE IF kind[a] = "resume" THEN "intend" ELSE "erase")
  /\ UNCHANGED <<db, ts, cmd, kind, closer, conn, lost, failed, at, local, snap, history>>

IdentifyConflict(a) ==
  /\ pc[a] = "identify"
  /\ IdentifyThrows(a)
  /\ Goto(a, "catch")
  /\ UNCHANGED <<db, ts, cmd, kind, closer, conn, lost, failed, at, local, snap, history>>

-----------------------------------------------------------------------------
(* resume(): create, record, store the image, point the channel at it *)

\* The durable intent, written before the command is sent.
IntendCreate(a) ==
  /\ pc[a] = "intend" /\ kind[a] = "resume"
  /\ token = a
  /\ rows' = [rows EXCEPT ![at[a]].status = "creating"]
  /\ local' = [local EXCEPT ![a][at[a]].status = "creating"]
  /\ Goto(a, "order")
  /\ UNCHANGED <<status, token, lease, images, ts, cmd, kind, closer, conn, lost, failed,
                 at, snap, history>>

ParentCid(a) == IF ParentRow[at[a]] = 0 THEN NoCid ELSE local[a][ParentRow[at[a]]].cid

Send(a, op, c) ==
  /\ conn[a]
  /\ cmd' = [cmd EXCEPT ![a] = [op |-> op, row |-> at[a], cid |-> c]]
  /\ Goto(a, "await")

OrderCreate(a) ==
  /\ pc[a] = "order"
  /\ Held(a)
  /\ Renew(a)
  /\ Send(a, "create", ParentCid(a))
  /\ ordered' = ordered \cup {at[a]}
  /\ UNCHANGED <<status, token, rows, images, ts, kind, closer, conn, lost, failed, at,
                 local, snap, meddled, faults>>

\* mutant: the image is dropped as soon as the channel is on record.
CreatedDropsImage(r, c) == [r EXCEPT !.cid = c, !.status = "created", !.prepared = FALSE]
Created(r, c) == [r EXCEPT !.cid = c, !.status = "created"]
RecordCid(a) ==
  /\ pc[a] = "record"
  /\ Held(a)
  /\ Renew(a)
  /\ rows' = [rows EXCEPT ![at[a]] = Created(@, Mine(a).cid)]
  /\ Goto(a, "store")
  /\ UNCHANGED <<status, token, images, ts, cmd, kind, closer, conn, lost, failed, at,
                 local, snap, history>>

\* assertLease(), then the prepared image is stored; a row whose image was
\* stored by an earlier attempt only has it checked.
StoreImage(a) ==
  /\ pc[a] = "store"
  /\ Held(a)
  /\ Renew(a)
  /\ Goto(a, IF Mine(a).prepared THEN "save"
             ELSE IF Mine(a).cid \in images THEN "point" ELSE "catch")
  /\ UNCHANGED <<status, token, rows, images, ts, cmd, kind, closer, conn, lost, failed,
                 at, local, snap, history>>

\* ImagesService.saveImage commits: it knows nothing of the lease.
SaveImage(a) ==
  /\ pc[a] = "save"
  /\ images' = images \cup {Mine(a).cid}
  /\ Goto(a, "point")
  /\ UNCHANGED <<status, token, lease, rows, ts, cmd, kind, closer, conn, lost, failed,
                 at, local, snap, history>>

PointChannel(a) ==
  /\ pc[a] = "point"
  /\ Held(a)
  /\ Renew(a)
  /\ Send(a, "edit", Mine(a).cid)
  /\ UNCHANGED <<status, token, rows, images, ts, kind, closer, conn, lost, failed, at,
                 local, snap, history>>

FinishRow(a) ==
  /\ pc[a] = "finish"
  /\ token = a
  /\ rows' = [rows EXCEPT ![at[a]].status = "saved", ![at[a]].prepared = FALSE]
  /\ local' = [local EXCEPT ![a][at[a]].status = "saved"]
  /\ NextRow(a)
  /\ UNCHANGED <<status, token, lease, images, ts, cmd, kind, closer, conn, lost, failed,
                 snap, history>>

-----------------------------------------------------------------------------
(* undo(): record the intent, delete, erase *)

IntendDelete(a) ==
  /\ pc[a] = "intend" /\ kind[a] = "undo"
  /\ Held(a)
  /\ Renew(a)
  /\ rows' = [rows EXCEPT ![at[a]].cid = Mine(a).cid, ![at[a]].status = "deleting"]
  /\ Goto(a, "delete")
  /\ UNCHANGED <<status, token, images, ts, cmd, kind, closer, conn, lost, failed, at,
                 local, snap, history>>

OrderDelete(a) ==
  /\ pc[a] = "delete"
  /\ Held(a)
  /\ Renew(a)
  /\ Send(a, "delete", Mine(a).cid)
  /\ UNCHANGED <<status, token, rows, images, ts, kind, closer, conn, lost, failed, at,
                 local, snap, history>>

\* One transaction: the lease is checked, the image and the row's data go.
EraseRow(a) ==
  /\ pc[a] = "erase"
  /\ token = a
  /\ images' = images \ {Mine(a).cid}
  /\ rows' = [rows EXCEPT ![at[a]] =
               [status |-> "deleted", cid |-> Mine(a).cid, prepared |-> FALSE]]
  /\ NextRow(a)
  /\ UNCHANGED <<status, token, lease, ts, cmd, kind, closer, conn, lost, failed, local,
                 snap, history>>

-----------------------------------------------------------------------------
(* Errors *)

\* assertLease() throws.  Before a row of resume it is outside the row's try.
LeaseLost(a) ==
  /\ pc[a] \in {"row", "order", "record", "store", "point", "delete"}
       \/ (pc[a] = "intend" /\ kind[a] = "undo")
  /\ InRow(a)
  /\ pc[a] = "row" /\ kind[a] = "undo" => Mine(a).status # "deleted"
  /\ ~Held(a)
  /\ IF pc[a] = "row" /\ kind[a] = "resume"
       THEN BodyEnds(a, TRUE, "status")
       ELSE /\ Goto(a, "catch")
            /\ lost' = [lost EXCEPT ![a] = TRUE]
            /\ UNCHANGED <<kind, closer, conn, failed, at, local, snap>>
  /\ UNCHANGED <<db, ts, cmd, history>>

\* A fenced update matches no row, or a command meets a stopped connection.
StepRejected(a) ==
  /\ \/ pc[a] = "intend" /\ kind[a] = "resume" /\ token # a
     \/ pc[a] \in {"finish", "erase"} /\ token # a
     \/ pc[a] \in {"order", "point", "delete"} /\ Held(a) /\ ~conn[a]
  /\ Goto(a, "catch")
  /\ UNCHANGED <<db, ts, cmd, kind, closer, conn, lost, failed, at, local, snap, history>>

\* A database call, a TeamSpeak read or the image store fails.
StepFails(a) ==
  /\ pc[a] \notin {"off", "await"}
  /\ pc[a] = "row" => InRow(a) /\ (kind[a] = "undo" => Mine(a).status # "deleted")
  /\ Fault
  /\ CASE pc[a] = "load" -> BodyEnds(a, TRUE, "release")
       [] pc[a] \in {"list", "catch"} \/ (pc[a] = "row" /\ kind[a] = "resume") ->
            BodyEnds(a, TRUE, "status")
       [] OTHER -> Goto(a, "catch")
                   /\ UNCHANGED <<kind, closer, conn, lost, failed, at, local, snap>>
  /\ UNCHANGED <<db, ts, cmd, ordered, meddled>>

\* mutant: a creation that failed is taken back for the next attempt.
AfterErrorRetry(a) ==
  IF Mine(a).status = "creating" /\ Mine(a).cid = NoCid THEN "pending" ELSE rows[at[a]].status
AfterError(a) ==
  IF Mine(a).status = "creating" /\ Mine(a).cid = NoCid THEN "uncertain" ELSE rows[at[a]].status

\* resume's catch: a creation of unknown outcome is recorded, then rethrown.
CatchResume(a) ==
  /\ pc[a] = "catch" /\ kind[a] = "resume"
  /\ rows' = IF token = a THEN [rows EXCEPT ![at[a]].status = AfterError(a)] ELSE rows
  /\ BodyEnds(a, TRUE, "status")
  /\ UNCHANGED <<status, token, lease, images, ts, cmd, history>>

\* undo's catch: the failure is noted and the next row is tried; when the
\* fenced note itself is refused the whole undo ends.
CatchUndo(a) ==
  /\ pc[a] = "catch" /\ kind[a] = "undo"
  /\ IF token = a
       THEN /\ failed' = IF closer[a] = "await" THEN [failed EXCEPT ![a] = TRUE] ELSE failed
            /\ NextRow(a)
            /\ UNCHANGED <<kind, closer, conn, lost, local, snap>>
       ELSE BodyEnds(a, TRUE, "status")
  /\ UNCHANGED <<db, ts, cmd, history>>

\* runTeamSpeakOperation stops (a command's or the operation's deadline): the
\* awaited command and withConnection reject together; what the callback is
\* doing elsewhere goes on.
Stop(a) ==
  /\ conn[a]
  /\ Fault
  /\ conn' = [conn EXCEPT ![a] = FALSE]
  /\ IF pc[a] = "list"
       THEN /\ Goto(a, "off")
            /\ local' = [local EXCEPT ![a] = NoRows]
            /\ lost' = [lost EXCEPT ![a] = FALSE]
       ELSE /\ pc' = IF pc[a] = "await" THEN [pc EXCEPT ![a] = "catch"] ELSE pc
            /\ UNCHANGED <<local, lost>>
  /\ closer' = [closer EXCEPT ![a] = "status"]
  /\ failed' = [failed EXCEPT ![a] = TRUE]
  /\ UNCHANGED <<db, ts, cmd, kind, at, snap, ordered, meddled>>

\* The process dies: nothing in memory survives, the command it sent does.
Crash(a) ==
  /\ ~(pc[a] = "off" /\ closer[a] = "off")
  /\ Fault
  /\ Goto(a, "off")
  /\ closer' = [closer EXCEPT ![a] = "off"]
  /\ kind' = [kind EXCEPT ![a] = "none"]
  /\ conn' = [conn EXCEPT ![a] = FALSE]
  /\ lost' = [lost EXCEPT ![a] = FALSE]
  /\ failed' = [failed EXCEPT ![a] = FALSE]
  /\ at' = [at EXCEPT ![a] = 0]
  /\ local' = [local EXCEPT ![a] = NoRows]
  /\ snap' = [snap EXCEPT ![a] = {}]
  /\ UNCHANGED <<db, ts, cmd, ordered, meddled>>

-----------------------------------------------------------------------------
(* The TeamSpeak server, as the code uses it *)

Awaited(a) == pc[a] = "await"
Answered(a) == cmd' = [cmd EXCEPT ![a] = NoCommand]

\* channelcreate: a fresh cid under an existing parent, with URL and marker.
NewChannel(a) == [cid |-> nextCid, row |-> cmd[a].row, pid |-> cmd[a].cid, url |-> "run",
                  busy |-> FALSE, edit |-> "none", rewritten |-> FALSE]

ExecCreate(a) ==
  /\ cmd[a].op = "create"
  /\ cmd[a].cid # NoCid => Live(cmd[a].cid) # {}
  /\ channels' = channels \cup {NewChannel(a)}
  /\ IF Awaited(a)
       THEN /\ local' = [local EXCEPT ![a][at[a]].cid = nextCid]
            /\ snap' = [snap EXCEPT ![a] = @ \cup {NewChannel(a)}]
            /\ Goto(a, "record")
       ELSE UNCHANGED <<local, snap, pc>>
  /\ nextCid' = nextCid + 1
  /\ Answered(a)
  /\ UNCHANGED <<db, kind, closer, conn, lost, failed, at, history>>

\* The channel exists, but the library reports an error: its answer cannot be
\* read.  The connection stays usable.
CreateUnseen(a) ==
  /\ cmd[a].op = "create" /\ Awaited(a)
  /\ cmd[a].cid # NoCid => Live(cmd[a].cid) # {}
  /\ Fault
  /\ channels' = channels \cup {NewChannel(a)}
  /\ nextCid' = nextCid + 1
  /\ Goto(a, "catch")
  /\ Answered(a)
  /\ UNCHANGED <<db, kind, closer, conn, lost, failed, at, local, snap, ordered, meddled>>

\* channeledit of the banner URL.
ExecEdit(a) ==
  /\ cmd[a].op = "edit"
  /\ Live(cmd[a].cid) # {}
  /\ channels' = {IF ch.cid = cmd[a].cid THEN [ch EXCEPT !.url = "id"] ELSE ch : ch \in channels}
  /\ IF Awaited(a) THEN Goto(a, "finish") ELSE UNCHANGED pc
  /\ Answered(a)
  /\ UNCHANGED <<db, nextCid, kind, closer, conn, lost, failed, at, local, snap, history>>

Subtree(c) == {ch \in channels : ch.cid = c \/ ch.pid = c}

\* channeldelete force=0: refused while anybody is in the channel or below it.
ExecDelete(a) ==
  /\ cmd[a].op = "delete"
  /\ Live(cmd[a].cid) # {}
  /\ \A ch \in Subtree(cmd[a].cid) : ~ch.busy
  /\ channels' = channels \ Subtree(cmd[a].cid)
  /\ IF Awaited(a)
       THEN /\ snap' = [snap EXCEPT ![a] = {ch \in @ : ch.cid # cmd[a].cid}]
            /\ Goto(a, "erase")
       ELSE UNCHANGED <<snap, pc>>
  /\ Answered(a)
  /\ UNCHANGED <<db, nextCid, kind, closer, conn, lost, failed, at, local, history>>

Executable(a) ==
  CASE cmd[a].op = "create" -> cmd[a].cid # NoCid => Live(cmd[a].cid) # {}
    [] cmd[a].op = "edit"   -> Live(cmd[a].cid) # {}
    [] cmd[a].op = "delete" -> /\ Live(cmd[a].cid) # {}
                               /\ \A ch \in Subtree(cmd[a].cid) : ~ch.busy
    [] OTHER -> FALSE

\* An error answer: what cannot be done, or (a fault) permissions, a name in
\* use, flood protection.
Refuse(a) ==
  /\ cmd[a] # NoCommand
  /\ IF Executable(a) THEN Fault ELSE UNCHANGED faults
  /\ IF Awaited(a) THEN Goto(a, "catch") ELSE UNCHANGED pc
  /\ Answered(a)
  /\ UNCHANGED <<db, ts, kind, closer, conn, lost, failed, at, local, snap, ordered, meddled>>

\* The command of a closed connection never reaches the server.
Vanish(a) ==
  /\ cmd[a] # NoCommand
  /\ ~Awaited(a)
  /\ Answered(a)
  /\ UNCHANGED <<db, ts, memory, history>>

-----------------------------------------------------------------------------
(* Everybody else: clients and administrators of the TeamSpeak server and  *)
(* users of the image API *)

Replace(ch, new) == channels' = (channels \ {ch}) \cup {new}

Occupy == \E ch \in channels :
  /\ ~ch.busy
  /\ Fault
  /\ Replace(ch, [ch EXCEPT !.busy = TRUE])
  /\ UNCHANGED <<db, nextCid, cmd, memory, ordered, meddled>>

Vacate == \E ch \in channels :
  /\ ch.busy
  /\ Replace(ch, [ch EXCEPT !.busy = FALSE])
  /\ UNCHANGED <<db, nextCid, cmd, memory, history>>

\* Rename or move it, change its description, or put a sub-channel below it.
Tamper == \E ch \in channels, how \in {"changed", "unmarked", "child"} :
  /\ ch.edit = "none"
  /\ Fault
  /\ Replace(ch, [ch EXCEPT !.edit = how])
  /\ meddled' = meddled \cup {ch.cid}
  /\ UNCHANGED <<db, nextCid, cmd, memory, ordered>>

\* The banner URL is written outside the run: to the by-id URL by this
\* application's own "set for all channels" or PATCH banner-url, whose
\* isManagedByUs does not know the provisional URL; to any other by a client.
Rewritten(ch, url) == [ch EXCEPT !.url = url, !.rewritten = TRUE]
Readdress == \E ch \in channels, url \in {"id", "other"} :
  /\ ch.url # url
  /\ Fault
  /\ Replace(ch, Rewritten(ch, url))
  /\ UNCHANGED <<db, nextCid, cmd, memory, ordered, meddled>>

\* An administrator deletes the channel and what is below it.
Remove == \E ch \in channels :
  /\ Fault
  /\ channels' = channels \ Subtree(ch.cid)
  /\ meddled' = meddled \cup {gone.cid : gone \in Subtree(ch.cid)}
  /\ UNCHANGED <<db, nextCid, cmd, memory, ordered>>

\* DELETE of an image through the image API.
DeleteImage == \E c \in images :
  /\ Fault
  /\ images' = images \ {c}
  /\ meddled' = meddled \cup {c}
  /\ UNCHANGED <<status, token, lease, rows, ts, cmd, memory, ordered>>

Outsiders == Occupy \/ Vacate \/ Tamper \/ Readdress \/ Remove \/ DeleteImage

-----------------------------------------------------------------------------
Body(a) ==
  \/ Load(a) \/ List(a) \/ AllRowsDone(a) \/ SkipDeleted(a) \/ StartRow(a)
  \/ IdentifyFound(a) \/ IdentifyNone(a) \/ IdentifyConflict(a)
  \/ IntendCreate(a) \/ OrderCreate(a) \/ RecordCid(a) \/ StoreImage(a) \/ SaveImage(a)
  \/ PointChannel(a) \/ FinishRow(a)
  \/ IntendDelete(a) \/ OrderDelete(a) \/ EraseRow(a)
  \/ LeaseLost(a) \/ StepRejected(a) \/ CatchResume(a) \/ CatchUndo(a)

Closer(a) == CloseStatus(a) \/ Release(a)

Server(a) == ExecCreate(a) \/ ExecEdit(a) \/ ExecDelete(a) \/ Refuse(a) \/ Vanish(a)

Failure(a) ==
  \/ StepFails(a) \/ Stop(a) \/ Crash(a) \/ HeartbeatFails(a) \/ CloserFails(a)
  \/ CreateUnseen(a)

NextAlone ==
  \/ \E a \in Attempt : \/ ClaimResume(a) \/ ClaimUndo(a) \/ Heartbeat(a)
                        \/ Body(a) \/ Closer(a) \/ Server(a) \/ Failure(a)
  \/ LeaseExpires
  \/ LeaseStalls

Next == NextAlone \/ Outsiders

Spec == Init /\ [][Next]_vars

\* A process that runs takes its next step; the server answers what it got; a
\* lease nobody renews runs out; people leave channels.
Progress ==
  /\ \A a \in Attempt : /\ WF_vars(Body(a))
                        /\ WF_vars(Closer(a))
                        /\ WF_vars(Server(a))
  /\ WF_vars(LeaseExpires)
  /\ WF_vars(Vacate)

\* The administrator who wants the run gone (finished) keeps asking for it
\* whenever no lease is in force.
KeepsUndoing  == SF_vars(\E a \in Attempt : ClaimUndo(a))
KeepsResuming == SF_vars(\E a \in Attempt : ClaimResume(a))

LiveSpec == Spec /\ Progress
\* Nobody but this application touches the run's channels and images, and the
\* administrator keeps undoing.
AloneSpec == Init /\ [][NextAlone]_vars /\ Progress /\ KeepsUndoing

-----------------------------------------------------------------------------
(* Properties *)

\* A channelcreate is sent at most once per row, whatever crashes, whichever
\* attempt takes the lease over and however late the server executes it: a row
\* whose outcome is unknown is never "blindly created again".
CreateAtMostOnce ==
  [][\A a \in Attempt : cmd'[a] # cmd[a] /\ cmd'[a].op = "create"
                          => cmd'[a].row \notin ordered]_vars

\* Every channel of the run has its cid on record, or its row says that a
\* creation has an unknown outcome: no row forgets a creation.  Until somebody
\* else writes its URL, a channel of such a row also has the provisional URL
\* that identify() searches for; the run itself never takes it away too early.
Traceable ==
  \A ch \in channels :
    \/ rows[ch.row].cid = ch.cid
    \/ Unknown(rows[ch.row]) /\ (ch.url = "run" \/ ch.rewritten)

\* Once an undo was claimed no late or revived attempt brings the run back.
UndoIsFinal ==
  [][/\ status \in {"undoing", "undo-partial", "undone"}
          => status' \in {"undoing", "undo-partial", "undone"}
     /\ status = "undone" => status' = "undone" /\ rows' = rows]_vars

\* "undone" means that no channel of the run is left or can still appear.
UndoneIsClean ==
  status = "undone" =>
    /\ channels = {}
    /\ \A a \in Attempt : cmd[a].op # "create"
    /\ \A r \in Row : rows[r].status = "deleted"

\* "completed" means that every row has its channel, pointing at the by-id URL,
\* and its stored image, unless somebody else interfered with it.
CompletedIsWhole ==
  status = "completed" =>
    \A r \in Row :
      /\ rows[r].status = "saved"
      /\ rows[r].cid \notin meddled =>
           /\ rows[r].cid \in images
           /\ \E ch \in channels : /\ ch.cid = rows[r].cid /\ ch.row = r
                                   /\ ch.url = "id" \/ ch.rewritten

\* The prepared bytes of a row are dropped only when the image is stored under
\* the row's cid: a failure between the two never loses the slice.
PreparedUntilStored ==
  \A r \in Row : ~rows[r].prepared /\ rows[r].status \notin {"deleting", "deleted"} =>
    rows[r].cid \in images \cup meddled

\* What a person has to look at before the run can be undone or resumed.
NeedsReview ==
  \/ \E r \in Row : /\ Unknown(rows[r])
                    /\ \A ch \in channels : ch.row = r => ch.edit # "none" \/ ch.url # "run"
  \/ \E ch \in channels : ch.edit # "none" \/ ch.url = "other"

\* Whatever failed before, repeated undo ends in "undone", or with a row or
\* channel a person has to look at.
UndoConverges == KeepsUndoing => <>[](status = "undone" \/ NeedsReview)

\* Repeated resume ends in "completed" under the same provisos, unless the run
\* is being undone or one of its channels or images was taken away.
ResumeConverges ==
  KeepsResuming =>
  <>[](\/ status \in {"completed", "undoing", "undo-partial", "undone"}
       \/ NeedsReview
       \/ meddled # {})

\* --- what the repository says of the program and the code does not do

\* "undo removes child channels before parents, deletes images": no image of
\* the run is left when it is undone.
UndoneHasNoImages == status = "undone" => images = {}

=============================================================================
