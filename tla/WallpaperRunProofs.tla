------------------------- MODULE WallpaperRunProofs -------------------------
(* Theorems about WallpaperRun, for every set of attempts, every number of   *)
(* rows, every nesting and every number of faults.                           *)
EXTENDS WallpaperRun, TLAPS

\* The callback works on a row wherever it is past the head of its loop.
Positioned ==
  \A a \in Attempt : pc[a] \notin {"off", "load", "list", "row"} => at[a] \in Row

\* Where the callback uses the row's cid without looking at it again.
NeedsCid(a) ==
  \/ pc[a] \in {"record", "store", "save", "point", "finish", "delete"}
  \/ pc[a] = "intend" /\ kind[a] = "undo"
  \/ pc[a] = "await" /\ cmd[a].op \in {"edit", "delete"}

CidInHand == \A a \in Attempt : NeedsCid(a) => Mine(a).cid # NoCid

\* TypeOK is not inductive: a row is written and an image stored under the cid
\* in hand, so both facts above belong to the invariant.
TypeInv == TypeOK /\ Positioned /\ CidInHand

-----------------------------------------------------------------------------
(* Lemmas about the records *)

LEMMA FreshType == FreshRow \in RowRecord /\ NoRows \in [Row -> RowRecord]
BY DEF FreshRow, NoRows, RowRecord, RowStatus, NoCid

LEMMA MineType ==
  ASSUME MemoryTypeOK, NEW a \in Attempt, at[a] \in Row
  PROVE  /\ Mine(a) \in RowRecord
         /\ Mine(a).cid \in Nat /\ Mine(a).status \in RowStatus
BY DEF MemoryTypeOK, Mine, RowRecord

LEMMA RowWriteType ==
  ASSUME NEW f \in [Row -> RowRecord], NEW r \in Row
  PROVE  /\ \A s \in RowStatus : [f EXCEPT ![r].status = s] \in [Row -> RowRecord]
         /\ \A c \in Nat : [f EXCEPT ![r].cid = c] \in [Row -> RowRecord]
         /\ \A s \in RowStatus :
              [f EXCEPT ![r].status = s, ![r].prepared = FALSE] \in [Row -> RowRecord]
         /\ \A s \in RowStatus, c \in Nat :
              [f EXCEPT ![r].cid = c, ![r].status = s] \in [Row -> RowRecord]
         /\ \A v \in RowRecord : [f EXCEPT ![r] = v] \in [Row -> RowRecord]
BY DEF RowRecord

LEMMA LocalWriteType ==
  ASSUME NEW g \in [Attempt -> [Row -> RowRecord]], NEW a \in Attempt, NEW r \in Row
  PROVE  /\ \A s \in RowStatus :
              [g EXCEPT ![a][r].status = s] \in [Attempt -> [Row -> RowRecord]]
         /\ \A c \in Nat : [g EXCEPT ![a][r].cid = c] \in [Attempt -> [Row -> RowRecord]]
         /\ \A f \in [Row -> RowRecord] :
              [g EXCEPT ![a] = f] \in [Attempt -> [Row -> RowRecord]]
BY RowWriteType

LEMMA ChannelWriteType ==
  ASSUME NEW ch \in Channel
  PROVE  /\ ch.cid \in Cid
         /\ \A b \in BOOLEAN : [ch EXCEPT !.busy = b] \in Channel
         /\ \A e \in {"changed", "unmarked", "child"} : [ch EXCEPT !.edit = e] \in Channel
         /\ [ch EXCEPT !.url = "id"] \in Channel
         /\ \A u \in {"id", "other"} : Rewritten(ch, u) \in Channel
BY DEF Channel, Rewritten

-----------------------------------------------------------------------------
(* Type correctness: every part of TypeInv is preserved by every step *)

LEMMA InitTypeInv == Init => TypeInv
BY RunAssumption, FreshType
   DEF Init, TypeInv, TypeOK, DatabaseTypeOK, ServerTypeOK, MemoryTypeOK, HistoryTypeOK,
       Positioned, CidInHand, NeedsCid, RunStatus, Pc, NoCommand, Command, NoCid, Cid

LEMMA DatabaseTypeOKStep == TypeInv /\ [Next]_vars => DatabaseTypeOK'
<1> SUFFICES ASSUME TypeInv, [Next]_vars PROVE DatabaseTypeOK'
  OBVIOUS
<1> USE RunAssumption DEF TypeInv, TypeOK, DatabaseTypeOK
<1>a. \A a \in Attempt : pc[a] \notin {"off", "load", "list", "row"} =>
         /\ at[a] \in Row
         /\ Mine(a) \in RowRecord
         /\ Mine(a).cid \in Nat /\ Mine(a).status \in RowStatus
  BY MineType DEF Positioned
<1>b. \A a \in Attempt : NeedsCid(a) => Mine(a).cid # NoCid
  BY DEF CidInHand
<1>c. {"creating", "deleting", "saved", "deleted", "created", "uncertain"} \subseteq RowStatus
  BY DEF RowStatus
<1>1. ASSUME NEW a \in Attempt, IntendCreate(a) PROVE DatabaseTypeOK'
  BY <1>1, <1>a, <1>c, RowWriteType DEF IntendCreate
<1>2. ASSUME NEW a \in Attempt, RecordCid(a) PROVE DatabaseTypeOK'
  <2>1. Created(rows[at[a]], Mine(a).cid) \in RowRecord
    BY <1>2, <1>a, <1>c DEF RecordCid, Created, RowRecord
  <2> QED
    BY <1>2, <1>a, <2>1, RowWriteType DEF RecordCid, Renew
<1>3. ASSUME NEW a \in Attempt, SaveImage(a) PROVE DatabaseTypeOK'
  BY <1>3, <1>a, <1>b DEF SaveImage, NeedsCid, Cid, NoCid
<1>4. ASSUME NEW a \in Attempt, FinishRow(a) PROVE DatabaseTypeOK'
  BY <1>4, <1>a, <1>c, RowWriteType DEF FinishRow
<1>5. ASSUME NEW a \in Attempt, IntendDelete(a) PROVE DatabaseTypeOK'
  BY <1>5, <1>a, <1>c, RowWriteType DEF IntendDelete, Renew
<1>6. ASSUME NEW a \in Attempt, EraseRow(a) PROVE DatabaseTypeOK'
  <2>1. [status |-> "deleted", cid |-> Mine(a).cid, prepared |-> FALSE] \in RowRecord
    BY <1>6, <1>a, <1>c DEF EraseRow, RowRecord
  <2> QED
    BY <1>6, <1>a, <2>1, RowWriteType DEF EraseRow
<1>7. ASSUME NEW a \in Attempt, CatchResume(a) PROVE DatabaseTypeOK'
  <2>1. AfterError(a) \in RowStatus /\ at[a] \in Row
    BY <1>7, <1>a, <1>c DEF CatchResume, AfterError, RowRecord
  <2>2. rows' \in [Row -> RowRecord]
    BY <1>7, <2>1, RowWriteType DEF CatchResume
  <2> QED
    BY <1>7, <2>2 DEF CatchResume
<1>8. ASSUME NEW a \in Attempt, ClaimResume(a) \/ ClaimUndo(a) \/ Heartbeat(a) \/
             HeartbeatFails(a) \/ CloseStatus(a) \/ Release(a) \/ CloserFails(a)
      PROVE  DatabaseTypeOK'
  BY <1>8, SMTT(30) DEF ClaimResume, Claim, Free, Claimable, Goto, ClaimUndo,
     Heartbeat, Renew, HeartbeatFails, Fault, CloseStatus, FinalStatus, Release,
     CloserFails, RunStatus, db, ts, memory, history
<1>9. ASSUME NEW a \in Attempt, Load(a) \/ List(a) \/ AllRowsDone(a) \/ SkipDeleted(a)
             \/ StartRow(a) \/ IdentifyFound(a) \/ IdentifyNone(a) \/
             IdentifyConflict(a)
      PROVE  DatabaseTypeOK'
  BY <1>9, SMTT(30) DEF Load, Goto, List, AllRowsDone, BodyEnds, InRow, SkipDeleted,
     NextRow, StartRow, Renew, Held, IdentifyFound, Owned, Candidates, IdentifyNone,
     IdentifyConflict, RunStatus, db, ts, memory, history
<1>10. ASSUME NEW a \in Attempt, OrderCreate(a) \/ StoreImage(a) \/ PointChannel(a) \/
              OrderDelete(a)
       PROVE  DatabaseTypeOK'
  BY <1>10, SMTT(30) DEF OrderCreate, Renew, Held, Send, Goto, ParentCid, StoreImage,
     PointChannel, OrderDelete, RunStatus, db, ts, memory, history
<1>11. ASSUME NEW a \in Attempt, LeaseLost(a) \/ StepRejected(a) \/ StepFails(a) \/
              CatchUndo(a) \/ Stop(a) \/ Crash(a)
       PROVE  DatabaseTypeOK'
  BY <1>11, SMTT(30) DEF LeaseLost, BodyEnds, Goto, InRow, StepRejected, StepFails,
     Fault, CatchUndo, NextRow, Stop, Crash, RunStatus, db, ts, memory, history
<1>12. ASSUME NEW a \in Attempt, ExecCreate(a) \/ CreateUnseen(a) \/ ExecEdit(a) \/
              ExecDelete(a) \/ Refuse(a) \/ Vanish(a)
       PROVE  DatabaseTypeOK'
  BY <1>12, SMTT(30) DEF ExecCreate, NewChannel, Goto, Awaited, Answered,
     CreateUnseen, Fault, ExecEdit, ExecDelete, Subtree, Refuse, Vanish, RunStatus,
     db, ts, memory, history
<1>13. ASSUME LeaseExpires \/ LeaseStalls \/ Occupy \/ Vacate \/ Tamper \/ Readdress \/ Remove \/
              DeleteImage
       PROVE  DatabaseTypeOK'
  BY <1>13, SMTT(30) DEF LeaseExpires, LeaseStalls, Fault, Occupy, Replace, Vacate,
     Tamper, Readdress, Remove, Subtree, DeleteImage, RunStatus, db, ts, memory, history
<1>14. ASSUME UNCHANGED vars PROVE DatabaseTypeOK'
  BY <1>14 DEF RunStatus, vars, db, ts, memory, history
<1> QED
  BY <1>1, <1>2, <1>3, <1>4, <1>5, <1>6, <1>7, <1>8, <1>9, <1>10, <1>11, <1>12, <1>13,
     <1>14
  DEF Next, NextAlone, Body, Closer, Server, Failure, Outsiders

LEMMA ServerTypeOKStep == TypeInv /\ [Next]_vars => ServerTypeOK'
<1> SUFFICES ASSUME TypeInv, [Next]_vars PROVE ServerTypeOK'
  OBVIOUS
<1> USE RunAssumption DEF TypeInv, TypeOK, ServerTypeOK
<1>a. \A a \in Attempt : pc[a] \notin {"off", "load", "list", "row"} =>
         /\ at[a] \in Row
         /\ Mine(a) \in RowRecord
         /\ Mine(a).cid \in Nat /\ Mine(a).status \in RowStatus
  BY MineType DEF Positioned
<1>s. ASSUME NEW a \in Attempt, at[a] \in Row, NEW op \in {"create", "edit", "delete"},
             NEW c \in Nat, Send(a, op, c), UNCHANGED ts
      PROVE  ServerTypeOK'
  <2>1. [op |-> op, row |-> at[a], cid |-> c] \in Command
    BY <1>s DEF Command, Row
  <2> QED
    BY <1>s, <2>1 DEF Send, ts
<1>n. NoCommand \in Command
  BY DEF Command
<1>r. ASSUME NEW ch \in channels, NEW new \in Channel, Replace(ch, new), UNCHANGED <<nextCid, cmd>>
      PROVE  ServerTypeOK'
  BY <1>r DEF Replace
<1>1. ASSUME NEW a \in Attempt, OrderCreate(a) PROVE ServerTypeOK'
  <2>1. at[a] \in Row
    BY <1>1, <1>a DEF OrderCreate
  <2>2. ParentCid(a) \in Nat
    BY <2>1, MineType DEF ParentCid, MemoryTypeOK, RowRecord, NoCid, Row
  <2> QED
    BY <1>1, <1>s, <2>1, <2>2 DEF OrderCreate
<1>2. ASSUME NEW a \in Attempt, PointChannel(a) PROVE ServerTypeOK'
  BY <1>2, <1>a, <1>s DEF PointChannel
<1>3. ASSUME NEW a \in Attempt, OrderDelete(a) PROVE ServerTypeOK'
  BY <1>3, <1>a, <1>s DEF OrderDelete
<1>4. ASSUME NEW a \in Attempt, ExecCreate(a) PROVE ServerTypeOK'
  <2>1. cmd[a].row \in Row /\ cmd[a].cid \in Nat
    BY <1>4 DEF ExecCreate, Command, NoCommand
  <2>2. NewChannel(a) \in Channel
    BY <2>1 DEF NewChannel, Channel
  <2>3. channels' = channels \cup {NewChannel(a)} /\ nextCid' = nextCid + 1
    BY <1>4 DEF ExecCreate
  <2>4. channels' \in SUBSET Channel /\ nextCid' \in Cid
    BY <2>2, <2>3 DEF Cid
  <2> QED
    BY <1>4, <2>4, <1>n DEF ExecCreate, Answered
<1>5. ASSUME NEW a \in Attempt, CreateUnseen(a) PROVE ServerTypeOK'
  <2>1. cmd[a].row \in Row /\ cmd[a].cid \in Nat
    BY <1>5 DEF CreateUnseen, Command, NoCommand
  <2>2. NewChannel(a) \in Channel
    BY <2>1 DEF NewChannel, Channel
  <2>3. channels' = channels \cup {NewChannel(a)} /\ nextCid' = nextCid + 1
    BY <1>5 DEF CreateUnseen
  <2>4. channels' \in SUBSET Channel /\ nextCid' \in Cid
    BY <2>2, <2>3 DEF Cid
  <2> QED
    BY <1>5, <2>4, <1>n DEF CreateUnseen, Answered
<1>6. ASSUME NEW a \in Attempt, ExecEdit(a) PROVE ServerTypeOK'
  BY <1>6, <1>n, ChannelWriteType DEF ExecEdit, Answered
<1>7. ASSUME Occupy PROVE ServerTypeOK'
  BY <1>7, <1>r, ChannelWriteType DEF Occupy
<1>8. ASSUME Vacate PROVE ServerTypeOK'
  BY <1>8, <1>r, ChannelWriteType DEF Vacate
<1>9. ASSUME Tamper \/ Readdress PROVE ServerTypeOK'
  BY <1>9, <1>r, ChannelWriteType DEF Tamper, Readdress
<1>10. ASSUME NEW a \in Attempt, ClaimResume(a) \/ ClaimUndo(a) \/ Heartbeat(a) \/
              HeartbeatFails(a) \/ CloseStatus(a) \/ Release(a) \/ CloserFails(a)
       PROVE  ServerTypeOK'
  BY <1>10, SMTT(30) DEF ClaimResume, Claim, Free, Claimable, Goto, ClaimUndo,
     Heartbeat, Renew, HeartbeatFails, Fault, CloseStatus, FinalStatus, Release,
     CloserFails, NoCommand, Command, NoCid, db, ts, memory, history
<1>11. ASSUME NEW a \in Attempt, Load(a) \/ List(a) \/ AllRowsDone(a) \/
              SkipDeleted(a) \/ StartRow(a) \/ IdentifyFound(a) \/ IdentifyNone(a) \/
              IdentifyConflict(a)
       PROVE  ServerTypeOK'
  BY <1>11, SMTT(30) DEF Load, Goto, List, AllRowsDone, BodyEnds, InRow, SkipDeleted,
     NextRow, StartRow, Renew, Held, IdentifyFound, Owned, Candidates, IdentifyNone,
     IdentifyConflict, NoCommand, Command, NoCid, db, ts, memory, history
<1>12. ASSUME NEW a \in Attempt, IntendCreate(a) \/ RecordCid(a) \/ StoreImage(a) \/
              SaveImage(a) \/ FinishRow(a) \/ IntendDelete(a) \/ EraseRow(a)
       PROVE  ServerTypeOK'
  BY <1>12, SMTT(30) DEF IntendCreate, Goto, RecordCid, Renew, Created, Held,
     StoreImage, SaveImage, FinishRow, NextRow, IntendDelete, EraseRow, NoCommand,
     Command, NoCid, db, ts, memory, history
<1>13. ASSUME NEW a \in Attempt, LeaseLost(a) \/ StepRejected(a) \/ StepFails(a) \/
              CatchResume(a) \/ CatchUndo(a) \/ Stop(a) \/ Crash(a)
       PROVE  ServerTypeOK'
  BY <1>13, SMTT(30) DEF LeaseLost, BodyEnds, Goto, InRow, StepRejected, StepFails,
     Fault, CatchResume, AfterError, CatchUndo, NextRow, Stop, Crash, NoCommand,
     Command, NoCid, db, ts, memory, history
<1>14. ASSUME NEW a \in Attempt, ExecDelete(a) \/ Refuse(a) \/ Vanish(a)
       PROVE  ServerTypeOK'
  BY <1>14, SMTT(30) DEF ExecDelete, Goto, Awaited, Answered, Subtree, Refuse, Fault,
     Vanish, NoCommand, Command, NoCid, db, ts, memory, history
<1>15. ASSUME LeaseExpires \/ LeaseStalls \/ Remove \/ DeleteImage
       PROVE  ServerTypeOK'
  BY <1>15, SMTT(30) DEF LeaseExpires, LeaseStalls, Fault, Remove, Subtree,
     DeleteImage, NoCommand, Command, NoCid, db, ts, memory, history
<1>16. ASSUME UNCHANGED vars PROVE ServerTypeOK'
  BY <1>16 DEF NoCommand, Command, NoCid, vars, db, ts, memory, history
<1> QED
  BY <1>1, <1>2, <1>3, <1>4, <1>5, <1>6, <1>7, <1>8, <1>9, <1>10, <1>11, <1>12, <1>13,
     <1>14, <1>15, <1>16
  DEF Next, NextAlone, Body, Closer, Server, Failure, Outsiders

LEMMA MemoryTypeOKStep == TypeInv /\ [Next]_vars => MemoryTypeOK'
<1> SUFFICES ASSUME TypeInv, [Next]_vars PROVE MemoryTypeOK'
  OBVIOUS
<1> USE RunAssumption DEF TypeInv, TypeOK, MemoryTypeOK
<1>a. \A a \in Attempt : pc[a] \notin {"off", "load", "list", "row"} =>
         /\ at[a] \in Row
         /\ Mine(a) \in RowRecord
         /\ Mine(a).cid \in Nat /\ Mine(a).status \in RowStatus
  BY MineType DEF Positioned
<1>c. {"creating", "deleting", "saved", "deleted", "created", "uncertain"} \subseteq RowStatus
  BY DEF RowStatus
<1>o. "off" \in Pc /\ "row" \in Pc /\ "catch" \in Pc
  BY DEF Pc
<1>e. ASSUME NEW a \in Attempt, NEW bad \in BOOLEAN, NEW next \in {"status", "release"},
             BodyEnds(a, bad, next)
      PROVE  MemoryTypeOK'
  BY <1>e, <1>o, FreshType, LocalWriteType DEF BodyEnds, Goto
<1>1. ASSUME NEW a \in Attempt, Heartbeat(a) PROVE MemoryTypeOK'
  <2>1. lost' \in [Attempt -> BOOLEAN]
    BY <1>1 DEF Heartbeat
  <2> QED
    BY <1>1, <2>1 DEF Heartbeat
<1>2. ASSUME NEW a \in Attempt, CloserFails(a) PROVE MemoryTypeOK'
  <2>1. failed' \in [Attempt -> BOOLEAN] /\ kind' \in [Attempt -> {"none", "resume", "undo"}]
    BY <1>2 DEF CloserFails
  <2>2. closer' \in [Attempt -> {"off", "await", "status", "release"}]
    <3>1. \/ closer' = closer
          \/ closer' = [closer EXCEPT ![a] = IF closer[a] = "status" THEN "release" ELSE "off"]
      BY <1>2 DEF CloserFails
    <3> QED
      BY <3>1
  <2> QED
    BY <1>2, <2>1, <2>2 DEF CloserFails
<1>3. ASSUME NEW a \in Attempt, Load(a) PROVE MemoryTypeOK'
  <2>1. local' \in [Attempt -> [Row -> RowRecord]]
    BY <1>3, LocalWriteType DEF Load, DatabaseTypeOK
  <2> QED
    BY <1>3, <2>1 DEF Load, Goto, Pc
<1>4. ASSUME NEW a \in Attempt, List(a) PROVE MemoryTypeOK'
  <2>1. snap' \in [Attempt -> SUBSET Channel]
    BY <1>4 DEF List, ServerTypeOK
  <2>2. at' \in [Attempt -> 0..(RowCount + 1)]
    BY <1>4 DEF List
  <2> QED
    BY <1>4, <2>1, <2>2, <1>o DEF List, Goto
<1>5. ASSUME NEW a \in Attempt, AllRowsDone(a) PROVE MemoryTypeOK'
  BY <1>5, <1>e DEF AllRowsDone
<1>6. ASSUME NEW a \in Attempt, IdentifyFound(a) PROVE MemoryTypeOK'
  <2>1. PICK ch \in Owned(a) : /\ local' = [local EXCEPT ![a][at[a]].cid = ch.cid]
                             /\ pc' \in [Attempt -> Pc]
    BY <1>6 DEF IdentifyFound, Goto, Pc
  <2>2. ch.cid \in Nat
    BY ChannelWriteType DEF Owned, Candidates, Cid
  <2>3. at[a] \in Row
    BY <1>6, <1>a DEF IdentifyFound
  <2> QED
    BY <1>6, <2>1, <2>2, <2>3, LocalWriteType DEF IdentifyFound
<1>7. ASSUME NEW a \in Attempt, IntendCreate(a) PROVE MemoryTypeOK'
  <2>1. at[a] \in Row
    BY <1>7, <1>a DEF IntendCreate
  <2>2. local' \in [Attempt -> [Row -> RowRecord]]
    BY <1>7, <2>1, <1>c, LocalWriteType DEF IntendCreate
  <2> QED
    BY <1>7, <2>2 DEF IntendCreate, Goto, Pc
<1>8. ASSUME NEW a \in Attempt, FinishRow(a) PROVE MemoryTypeOK'
  <2>1. at[a] \in Row
    BY <1>8, <1>a DEF FinishRow
  <2>2. local' \in [Attempt -> [Row -> RowRecord]]
    BY <1>8, <2>1, <1>c, LocalWriteType DEF FinishRow
  <2>3. at' \in [Attempt -> 0..(RowCount + 1)] /\ pc' \in [Attempt -> Pc]
    BY <1>8, <2>1, <1>o DEF FinishRow, NextRow, Goto, Row
  <2> QED
    BY <1>8, <2>2, <2>3 DEF FinishRow
<1>9. ASSUME NEW a \in Attempt, EraseRow(a) PROVE MemoryTypeOK'
  <2>1. at[a] \in Row
    BY <1>9, <1>a DEF EraseRow
  <2> QED
    BY <1>9, <2>1, <1>o DEF EraseRow, NextRow, Goto, Row
<1>10. ASSUME NEW a \in Attempt, LeaseLost(a) PROVE MemoryTypeOK'
  <2>1. CASE BodyEnds(a, TRUE, "status")
    BY <2>1, <1>e
  <2>2. CASE ~BodyEnds(a, TRUE, "status")
    BY <1>10, <2>2, <1>o DEF LeaseLost, Goto
  <2> QED
    BY <2>1, <2>2
<1>11. ASSUME NEW a \in Attempt, StepFails(a) PROVE MemoryTypeOK'
  <2>1. CASE BodyEnds(a, TRUE, "status") \/ BodyEnds(a, TRUE, "release")
    BY <2>1, <1>e
  <2>2. CASE ~(BodyEnds(a, TRUE, "status") \/ BodyEnds(a, TRUE, "release"))
    BY <1>11, <2>2, <1>o DEF StepFails, Goto
  <2> QED
    BY <2>1, <2>2
<1>12. ASSUME NEW a \in Attempt, CatchResume(a) PROVE MemoryTypeOK'
  BY <1>12, <1>e DEF CatchResume
<1>13. ASSUME NEW a \in Attempt, CatchUndo(a) PROVE MemoryTypeOK'
  <2>1. at[a] \in Row
    BY <1>13, <1>a DEF CatchUndo
  <2>2. CASE token = a
    <3>1. failed' \in [Attempt -> BOOLEAN]
      BY <1>13, <2>2 DEF CatchUndo
    <3>2. at' = [at EXCEPT ![a] = at[a] - 1]
      BY <1>13, <2>2 DEF CatchUndo, NextRow
    <3>3. at' \in [Attempt -> 0..(RowCount + 1)]
      BY <2>1, <3>2 DEF Row
    <3> QED
      BY <1>13, <2>2, <3>1, <3>3, <1>o DEF CatchUndo, NextRow, Goto
  <2>3. CASE token # a
    BY <1>13, <2>3, <1>e DEF CatchUndo
  <2> QED
    BY <2>2, <2>3
<1>14. ASSUME NEW a \in Attempt, Stop(a) PROVE MemoryTypeOK'
  <2>1. CASE pc[a] = "list"
    <3>1. local' \in [Attempt -> [Row -> RowRecord]]
      BY <1>14, <2>1, FreshType DEF Stop
    <3> QED
      BY <1>14, <2>1, <3>1, <1>o DEF Stop, Goto
  <2>2. CASE pc[a] # "list"
    BY <1>14, <2>2, <1>o DEF Stop
  <2> QED
    BY <2>1, <2>2
<1>15. ASSUME NEW a \in Attempt, Crash(a) PROVE MemoryTypeOK'
  <2>1. local' \in [Attempt -> [Row -> RowRecord]]
    BY <1>15, FreshType, LocalWriteType DEF Crash
  <2> QED
    BY <1>15, <2>1, <1>o DEF Crash, Goto
<1>16. ASSUME NEW a \in Attempt, ExecCreate(a) PROVE MemoryTypeOK'
  <2>1. CASE Awaited(a)
    <3>1. at[a] \in Row /\ nextCid \in Nat
      BY <2>1, <1>a DEF Awaited, ServerTypeOK, Cid
    <3> DEFINE new == [cid |-> nextCid, row |-> cmd[a].row, pid |-> cmd[a].cid, url |-> "run",
                       busy |-> FALSE, edit |-> "none", rewritten |-> FALSE]
    <3>2. /\ local' = [local EXCEPT ![a][at[a]].cid = nextCid]
          /\ snap' = [snap EXCEPT ![a] = @ \cup {new}]
      BY <1>16, <2>1 DEF ExecCreate, NewChannel
    <3>3. cmd[a].row \in Row /\ cmd[a].cid \in Nat
      BY <1>16 DEF ExecCreate, NewChannel, ServerTypeOK, Command, NoCommand
    <3>4. new \in Channel
      BY <3>3 DEF ServerTypeOK, Channel
    <3> HIDE DEF new
    <3>5. local' \in [Attempt -> [Row -> RowRecord]] /\ snap' \in [Attempt -> SUBSET Channel]
      BY <3>1, <3>2, <3>4, LocalWriteType
    <3> QED
      BY <1>16, <2>1, <3>5 DEF ExecCreate, NewChannel, Goto, Pc
  <2>2. CASE ~Awaited(a)
    BY <1>16, <2>2 DEF ExecCreate, NewChannel
  <2> QED
    BY <2>1, <2>2
<1>17. ASSUME NEW a \in Attempt, ClaimResume(a) PROVE MemoryTypeOK'
  BY <1>17, SMTT(30) DEF ClaimResume, Claim, Free, Claimable, Goto, Pc, db, ts,
     memory, history
<1>18. ASSUME NEW a \in Attempt, ClaimUndo(a) PROVE MemoryTypeOK'
  BY <1>18, SMTT(30) DEF ClaimUndo, Claim, Free, Claimable, Goto, Pc, db, ts, memory,
     history
<1>19. ASSUME NEW a \in Attempt, HeartbeatFails(a) PROVE MemoryTypeOK'
  BY <1>19, SMTT(30) DEF HeartbeatFails, Fault, Pc, db, ts, memory, history
<1>20. ASSUME NEW a \in Attempt, CloseStatus(a) PROVE MemoryTypeOK'
  BY <1>20, SMTT(30) DEF CloseStatus, FinalStatus, Pc, db, ts, memory, history
<1>21. ASSUME NEW a \in Attempt, Release(a) PROVE MemoryTypeOK'
  BY <1>21, SMTT(30) DEF Release, Pc, db, ts, memory, history
<1>22. ASSUME NEW a \in Attempt, SkipDeleted(a) PROVE MemoryTypeOK'
  BY <1>22, SMTT(30) DEF SkipDeleted, InRow, NextRow, Goto, Pc, db, ts, memory,
     history
<1>23. ASSUME NEW a \in Attempt, StartRow(a) PROVE MemoryTypeOK'
  BY <1>23, SMTT(30) DEF StartRow, InRow, Renew, Held, Goto, Pc, db, ts, memory,
     history
<1>24. ASSUME NEW a \in Attempt, IdentifyNone(a) PROVE MemoryTypeOK'
  BY <1>24, SMTT(30) DEF IdentifyNone, Goto, Pc, db, ts, memory, history
<1>25. ASSUME NEW a \in Attempt, IdentifyConflict(a) PROVE MemoryTypeOK'
  BY <1>25, SMTT(30) DEF IdentifyConflict, Goto, Pc, db, ts, memory, history
<1>26. ASSUME NEW a \in Attempt, OrderCreate(a) PROVE MemoryTypeOK'
  BY <1>26, SMTT(30) DEF OrderCreate, Renew, Held, Send, Goto, ParentCid, Pc, db, ts,
     memory, history
<1>27. ASSUME NEW a \in Attempt, StoreImage(a) PROVE MemoryTypeOK'
  BY <1>27, SMTT(30) DEF StoreImage, Renew, Goto, Pc, db, ts, memory, history
<1>28. ASSUME NEW a \in Attempt, PointChannel(a) PROVE MemoryTypeOK'
  BY <1>28, SMTT(30) DEF PointChannel, Renew, Send, Goto, Pc, db, ts, memory, history
<1>29. ASSUME NEW a \in Attempt, IntendDelete(a) PROVE MemoryTypeOK'
  BY <1>29, SMTT(30) DEF IntendDelete, Renew, Goto, Pc, db, ts, memory, history
<1>30. ASSUME NEW a \in Attempt, OrderDelete(a) PROVE MemoryTypeOK'
  BY <1>30, SMTT(30) DEF OrderDelete, Renew, Send, Goto, Pc, db, ts, memory, history
<1>31. ASSUME NEW a \in Attempt, RecordCid(a) \/ SaveImage(a)
       PROVE  MemoryTypeOK'
  BY <1>31, SMTT(30) DEF RecordCid, Renew, Created, Goto, Held, SaveImage, Pc, db, ts,
     memory, history
<1>32. ASSUME NEW a \in Attempt, StepRejected(a) PROVE MemoryTypeOK'
  BY <1>32, SMTT(30) DEF StepRejected, Goto, Pc, db, ts, memory, history
<1>33. ASSUME NEW a \in Attempt, ExecDelete(a) PROVE MemoryTypeOK'
  BY <1>33, SMTT(30) DEF ExecDelete, Goto, Awaited, Answered, Subtree, Pc, db, ts,
     memory, history
<1>34. ASSUME NEW a \in Attempt, CreateUnseen(a) \/ ExecEdit(a) \/ Refuse(a) \/
              Vanish(a)
       PROVE  MemoryTypeOK'
  BY <1>34, SMTT(30) DEF CreateUnseen, NewChannel, Goto, Awaited, Answered, Fault,
     ExecEdit, Refuse, Vanish, Pc, db, ts, memory, history
<1>35. ASSUME LeaseExpires \/ LeaseStalls \/ Occupy \/ Vacate \/ Tamper \/ Readdress \/ Remove \/
              DeleteImage
       PROVE  MemoryTypeOK'
  BY <1>35, SMTT(30) DEF LeaseExpires, LeaseStalls, Fault, Occupy, Replace, Vacate,
     Tamper, Readdress, Remove, Subtree, DeleteImage, Pc, db, ts, memory, history
<1>36. ASSUME UNCHANGED vars PROVE MemoryTypeOK'
  BY <1>36 DEF Pc, vars, db, ts, memory, history
<1> QED
  BY <1>1, <1>2, <1>3, <1>4, <1>5, <1>6, <1>7, <1>8, <1>9, <1>10, <1>11, <1>12, <1>13,
     <1>14, <1>15, <1>16, <1>17, <1>18, <1>19, <1>20, <1>21, <1>22, <1>23, <1>24,
     <1>25, <1>26, <1>27, <1>28, <1>29, <1>30, <1>31, <1>32, <1>33, <1>34, <1>35,
     <1>36
  DEF Next, NextAlone, Body, Closer, Server, Failure, Outsiders

LEMMA HistoryTypeOKStep == TypeInv /\ [Next]_vars => HistoryTypeOK'
<1> SUFFICES ASSUME TypeInv, [Next]_vars PROVE HistoryTypeOK'
  OBVIOUS
<1> USE RunAssumption DEF TypeInv, TypeOK, HistoryTypeOK
<1>c. \A ch \in channels : ch.cid \in Cid
  BY ChannelWriteType DEF ServerTypeOK
<1>1. ASSUME NEW a \in Attempt, OrderCreate(a) PROVE HistoryTypeOK'
  BY <1>1 DEF OrderCreate, Positioned
<1>2. ASSUME Tamper \/ Readdress PROVE HistoryTypeOK'
  <2>1. CASE Tamper
    BY <2>1, <1>c DEF Tamper, Fault
  <2>2. CASE Readdress
    BY <2>2 DEF Readdress, Fault
  <2> QED
    BY <1>2, <2>1, <2>2
<1>3. ASSUME Remove PROVE HistoryTypeOK'
  BY <1>3, <1>c DEF Remove, Fault, Subtree
<1>4. ASSUME DeleteImage PROVE HistoryTypeOK'
  <2>1. \A c \in images : c \in Cid
    BY DEF DatabaseTypeOK
  <2> QED
    BY <1>4, <2>1 DEF DeleteImage, Fault
<1>5. ASSUME NEW a \in Attempt, ClaimResume(a) \/ ClaimUndo(a) \/ Heartbeat(a) \/
             HeartbeatFails(a) \/ CloseStatus(a) \/ Release(a) \/ CloserFails(a)
      PROVE  HistoryTypeOK'
  BY <1>5, SMTT(30) DEF ClaimResume, Claim, Free, Claimable, Goto, ClaimUndo,
     Heartbeat, Renew, HeartbeatFails, Fault, CloseStatus, FinalStatus, Release,
     CloserFails, db, ts, memory, history
<1>6. ASSUME NEW a \in Attempt, Load(a) \/ List(a) \/ AllRowsDone(a) \/ SkipDeleted(a)
             \/ StartRow(a) \/ IdentifyFound(a) \/ IdentifyNone(a) \/
             IdentifyConflict(a)
      PROVE  HistoryTypeOK'
  BY <1>6, SMTT(30) DEF Load, Goto, List, AllRowsDone, BodyEnds, InRow, SkipDeleted,
     NextRow, StartRow, Renew, Held, IdentifyFound, Owned, Candidates, IdentifyNone,
     IdentifyConflict, db, ts, memory, history
<1>7. ASSUME NEW a \in Attempt, IntendCreate(a) \/ RecordCid(a) \/ StoreImage(a) \/
             SaveImage(a) \/ PointChannel(a) \/ FinishRow(a) \/ IntendDelete(a) \/
             OrderDelete(a) \/ EraseRow(a)
      PROVE  HistoryTypeOK'
  BY <1>7, SMTT(30) DEF IntendCreate, Goto, RecordCid, Renew, Created, Held,
     StoreImage, SaveImage, PointChannel, Send, FinishRow, NextRow, IntendDelete,
     OrderDelete, EraseRow, db, ts, memory, history
<1>8. ASSUME NEW a \in Attempt, LeaseLost(a) \/ StepRejected(a) \/ StepFails(a) \/
             CatchResume(a) \/ CatchUndo(a) \/ Stop(a) \/ Crash(a)
      PROVE  HistoryTypeOK'
  BY <1>8, SMTT(30) DEF LeaseLost, BodyEnds, Goto, InRow, StepRejected, StepFails,
     Fault, CatchResume, AfterError, CatchUndo, NextRow, Stop, Crash, db, ts, memory,
     history
<1>9. ASSUME NEW a \in Attempt, ExecCreate(a) \/ CreateUnseen(a) \/ ExecEdit(a) \/
             ExecDelete(a) \/ Refuse(a) \/ Vanish(a)
      PROVE  HistoryTypeOK'
  BY <1>9, SMTT(30) DEF ExecCreate, NewChannel, Goto, Awaited, Answered, CreateUnseen,
     Fault, ExecEdit, ExecDelete, Subtree, Refuse, Vanish, db, ts, memory, history
<1>10. ASSUME LeaseExpires \/ LeaseStalls \/ Occupy \/ Vacate
       PROVE  HistoryTypeOK'
  BY <1>10, SMTT(30) DEF LeaseExpires, LeaseStalls, Fault, Occupy, Replace, Vacate,
     db, ts, memory, history
<1>11. ASSUME UNCHANGED vars PROVE HistoryTypeOK'
  BY <1>11 DEF vars, db, ts, memory, history
<1> QED
  BY <1>1, <1>2, <1>3, <1>4, <1>5, <1>6, <1>7, <1>8, <1>9, <1>10, <1>11
  DEF Next, NextAlone, Body, Closer, Server, Failure, Outsiders

LEMMA PositionedStep == TypeInv /\ [Next]_vars => Positioned'
<1> SUFFICES ASSUME TypeInv, [Next]_vars PROVE Positioned'
  OBVIOUS
<1> USE RunAssumption DEF TypeInv, TypeOK, MemoryTypeOK
<1>1. ASSUME NEW a \in Attempt, ClaimResume(a) \/ ClaimUndo(a) \/ Heartbeat(a) \/
             HeartbeatFails(a) \/ CloseStatus(a) \/ Release(a) \/ CloserFails(a)
      PROVE  Positioned'
  BY <1>1, SMTT(30) DEF ClaimResume, Claim, Free, Claimable, Goto, ClaimUndo,
     Heartbeat, Renew, HeartbeatFails, Fault, CloseStatus, FinalStatus, Release,
     CloserFails, Positioned, Pc, db, ts, memory, history
<1>2. ASSUME NEW a \in Attempt, Load(a) \/ List(a) \/ AllRowsDone(a) \/ SkipDeleted(a)
             \/ StartRow(a) \/ IdentifyFound(a) \/ IdentifyNone(a) \/
             IdentifyConflict(a)
      PROVE  Positioned'
  BY <1>2, SMTT(30) DEF Load, Goto, List, AllRowsDone, BodyEnds, InRow, SkipDeleted,
     NextRow, StartRow, Renew, Held, IdentifyFound, Owned, Candidates, IdentifyNone,
     IdentifyConflict, Positioned, Pc, db, ts, memory, history
<1>3. ASSUME NEW a \in Attempt, IntendCreate(a) \/ OrderCreate(a) \/ RecordCid(a) \/
             StoreImage(a) \/ SaveImage(a) \/ PointChannel(a) \/ FinishRow(a) \/
             IntendDelete(a) \/ OrderDelete(a) \/ EraseRow(a)
      PROVE  Positioned'
  BY <1>3, SMTT(30) DEF IntendCreate, Goto, OrderCreate, Renew, Held, Send, ParentCid,
     RecordCid, Created, StoreImage, SaveImage, PointChannel, FinishRow, NextRow,
     IntendDelete, OrderDelete, EraseRow, Positioned, Pc, db, ts, memory, history
<1>4. ASSUME NEW a \in Attempt, LeaseLost(a) \/ StepRejected(a) \/ StepFails(a) \/
             CatchResume(a) \/ CatchUndo(a) \/ Stop(a) \/ Crash(a)
      PROVE  Positioned'
  BY <1>4, SMTT(30) DEF LeaseLost, BodyEnds, Goto, InRow, StepRejected, StepFails,
     Fault, CatchResume, AfterError, CatchUndo, NextRow, Stop, Crash, Positioned, Pc,
     db, ts, memory, history
<1>5. ASSUME NEW a \in Attempt, ExecCreate(a) \/ CreateUnseen(a) \/ ExecEdit(a) \/
             ExecDelete(a) \/ Refuse(a) \/ Vanish(a)
      PROVE  Positioned'
  BY <1>5, SMTT(30) DEF ExecCreate, NewChannel, Goto, Awaited, Answered, CreateUnseen,
     Fault, ExecEdit, ExecDelete, Subtree, Refuse, Vanish, Positioned, Pc, db, ts,
     memory, history
<1>6. ASSUME LeaseExpires \/ LeaseStalls \/ Occupy \/ Vacate \/ Tamper \/ Readdress \/ Remove \/
             DeleteImage
      PROVE  Positioned'
  BY <1>6, SMTT(30) DEF LeaseExpires, LeaseStalls, Fault, Occupy, Replace, Vacate,
     Tamper, Readdress, Remove, Subtree, DeleteImage, Positioned, Pc, db, ts, memory, history
<1>7. ASSUME UNCHANGED vars PROVE Positioned'
  BY <1>7 DEF Positioned, Pc, vars, db, ts, memory, history
<1> QED
  BY <1>1, <1>2, <1>3, <1>4, <1>5, <1>6, <1>7
  DEF Next, NextAlone, Body, Closer, Server, Failure, Outsiders

LEMMA CidInHandStep == TypeInv /\ [Next]_vars => CidInHand'
<1> SUFFICES ASSUME TypeInv, [Next]_vars PROVE CidInHand'
  OBVIOUS
<1> USE RunAssumption DEF TypeInv, TypeOK, MemoryTypeOK
<1>a. \A a \in Attempt : pc[a] \notin {"off", "load", "list", "row"} =>
         /\ at[a] \in Row
         /\ Mine(a) \in RowRecord
         /\ Mine(a).cid \in Nat /\ Mine(a).status \in RowStatus
  BY MineType DEF Positioned
<1>1. ASSUME NEW a \in Attempt, IdentifyFound(a) PROVE CidInHand'
  <2>1. PICK ch \in Owned(a) : /\ local' = [local EXCEPT ![a][at[a]].cid = ch.cid]
                             /\ UNCHANGED <<at, kind, cmd>>
    BY <1>1 DEF IdentifyFound
  <2>2. ch.cid # NoCid
    BY ChannelWriteType DEF Owned, Candidates, Cid, NoCid
  <2>3. at[a] \in Row
    BY <1>1, <1>a DEF IdentifyFound
  <2>4. Mine(a)'.cid # NoCid
    BY <2>1, <2>2, <2>3 DEF Mine, RowRecord
  <2>5. \A b \in Attempt \ {a} : NeedsCid(b)' => NeedsCid(b) /\ Mine(b)' = Mine(b)
    BY <1>1, <2>1 DEF NeedsCid, Mine, IdentifyFound, Goto
  <2> QED
    BY <2>4, <2>5 DEF CidInHand
<1>2. ASSUME NEW a \in Attempt, OrderCreate(a) PROVE CidInHand'
  <2>1. ~NeedsCid(a)'
    BY <1>2 DEF OrderCreate, Send, Goto, NeedsCid, ServerTypeOK
  <2>2. \A b \in Attempt \ {a} : NeedsCid(b)' => NeedsCid(b) /\ Mine(b)' = Mine(b)
    BY <1>2 DEF OrderCreate, Send, Goto, NeedsCid, Mine, ServerTypeOK
  <2> QED
    BY <2>1, <2>2 DEF CidInHand
<1>3. ASSUME NEW a \in Attempt, ExecCreate(a) PROVE CidInHand'
  <2>1. \A b \in Attempt \ {a} : NeedsCid(b)' => NeedsCid(b) /\ Mine(b)' = Mine(b)
    BY <1>3 DEF ExecCreate, NewChannel, Answered, Goto, NeedsCid, Mine, ServerTypeOK
  <2>2. CASE Awaited(a)
    <3>1. at[a] \in Row
      BY <2>2, <1>a DEF Awaited
    <3>2. Mine(a)'.cid = nextCid
      BY <1>3, <2>2, <3>1 DEF ExecCreate, NewChannel, Mine, RowRecord
    <3>3. nextCid # NoCid
      BY DEF ServerTypeOK, Cid, NoCid
    <3> QED
      BY <2>1, <3>2, <3>3 DEF CidInHand
  <2>3. CASE ~Awaited(a)
    BY <1>3, <2>1, <2>3 DEF ExecCreate, NewChannel, CidInHand, NeedsCid, Mine, Awaited
  <2> QED
    BY <2>2, <2>3
<1>4. ASSUME NEW a \in Attempt, ClaimResume(a) \/ ClaimUndo(a) \/ Heartbeat(a) \/
             HeartbeatFails(a) \/ CloseStatus(a) \/ Release(a) \/ CloserFails(a)
      PROVE  CidInHand'
  BY <1>4, SMTT(30) DEF ClaimResume, Claim, Free, Claimable, Goto, ClaimUndo,
     Heartbeat, Renew, HeartbeatFails, Fault, CloseStatus, FinalStatus, Release,
     CloserFails, CidInHand, NeedsCid, Mine, Pc, ServerTypeOK, db, ts, memory, history
<1>5. ASSUME NEW a \in Attempt, Load(a) \/ List(a) \/ AllRowsDone(a) \/ SkipDeleted(a)
             \/ StartRow(a) \/ IdentifyNone(a) \/ IdentifyConflict(a)
      PROVE  CidInHand'
  BY <1>5, SMTT(30) DEF Load, Goto, List, AllRowsDone, BodyEnds, InRow, SkipDeleted,
     NextRow, StartRow, Renew, Held, IdentifyNone, IdentifyConflict, CidInHand,
     NeedsCid, Mine, Pc, ServerTypeOK, db, ts, memory, history
<1>6. ASSUME NEW a \in Attempt, IntendCreate(a) \/ RecordCid(a) \/ StoreImage(a) \/
             SaveImage(a) \/ PointChannel(a) \/ FinishRow(a) \/ IntendDelete(a) \/
             OrderDelete(a) \/ EraseRow(a)
      PROVE  CidInHand'
  BY <1>6, SMTT(30) DEF IntendCreate, Goto, RecordCid, Renew, Created, Held,
     StoreImage, SaveImage, PointChannel, Send, FinishRow, NextRow, IntendDelete,
     OrderDelete, EraseRow, CidInHand, NeedsCid, Mine, Pc, ServerTypeOK, db, ts,
     memory, history
<1>7. ASSUME NEW a \in Attempt, LeaseLost(a) \/ StepRejected(a) \/ StepFails(a) \/
             CatchResume(a) \/ CatchUndo(a) \/ Stop(a) \/ Crash(a)
      PROVE  CidInHand'
  BY <1>7, SMTT(30) DEF LeaseLost, BodyEnds, Goto, InRow, StepRejected, StepFails,
     Fault, CatchResume, AfterError, CatchUndo, NextRow, Stop, Crash, CidInHand,
     NeedsCid, Mine, Pc, ServerTypeOK, db, ts, memory, history
<1>8. ASSUME NEW a \in Attempt, CreateUnseen(a) \/ ExecEdit(a) \/ ExecDelete(a) \/
             Refuse(a) \/ Vanish(a)
      PROVE  CidInHand'
  BY <1>8, SMTT(30) DEF CreateUnseen, NewChannel, Goto, Awaited, Answered, Fault,
     ExecEdit, ExecDelete, Subtree, Refuse, Vanish, CidInHand, NeedsCid, Mine, Pc,
     ServerTypeOK, db, ts, memory, history
<1>9. ASSUME LeaseExpires \/ LeaseStalls \/ Occupy \/ Vacate \/ Tamper \/ Readdress \/ Remove \/
             DeleteImage
      PROVE  CidInHand'
  BY <1>9, SMTT(30) DEF LeaseExpires, LeaseStalls, Fault, Occupy, Replace, Vacate,
     Tamper, Readdress, Remove, Subtree, DeleteImage, CidInHand, NeedsCid, Mine, Pc,
     ServerTypeOK, db, ts, memory, history
<1>10. ASSUME UNCHANGED vars PROVE CidInHand'
  BY <1>10 DEF CidInHand, NeedsCid, Mine, Pc, ServerTypeOK, vars, db, ts, memory,
     history
<1> QED
  BY <1>1, <1>2, <1>3, <1>4, <1>5, <1>6, <1>7, <1>8, <1>9, <1>10
  DEF Next, NextAlone, Body, Closer, Server, Failure, Outsiders

LEMMA TypeInvStep == TypeInv /\ [Next]_vars => TypeInv'
BY DatabaseTypeOKStep, ServerTypeOKStep, MemoryTypeOKStep, HistoryTypeOKStep, PositionedStep,
   CidInHandStep DEF TypeInv, TypeOK

\* Every variable of the run keeps its type.
THEOREM TypeCorrect == Spec => []TypeOK
<1>1. TypeInv => TypeOK
  BY DEF TypeInv
<1> QED
  BY InitTypeInv, TypeInvStep, <1>1, PTL DEF Spec

-----------------------------------------------------------------------------
(* Why a channelcreate is sent at most once per row *)

\* A row as it may look once a channelcreate was sent for it.
Accounted(r) == r.cid # NoCid \/ r.status \in {"creating", "uncertain"}

\* The database never forgets that a channelcreate was sent ...
DbKnows == \A r \in ordered : Accounted(rows[r])

\* ... nor does the memory of the attempt that holds the lease: nobody else can
\* have sent one since it loaded the rows.
ViewFresh ==
  \A a \in Attempt : token = a /\ pc[a] \notin {"off", "load"} =>
    \A r \in ordered : Accounted(local[a][r])

\* About to create, or to erase a row without a channel.
Untouched(a) ==
  \/ pc[a] = "intend" /\ kind[a] = "resume"
  \/ pc[a] = "order"
  \/ pc[a] = "erase" /\ Mine(a).cid = NoCid

NotYetOrdered == \A a \in Attempt : token = a /\ Untouched(a) => at[a] \notin ordered

\* The intent is in the database and in memory before the command is sent.
IntentWritten ==
  \A a \in Attempt : token = a /\ pc[a] = "order" =>
    rows[at[a]].status = "creating" /\ Mine(a).status = "creating"

\* Past RecordCid(a) the cid is in the database.
Recorded ==
  \A a \in Attempt :
    token = a /\ (\/ pc[a] \in {"store", "save", "point", "finish"}
                  \/ pc[a] = "await" /\ cmd[a].op = "edit")
      => rows[at[a]].cid # NoCid

CreateInv == TypeInv /\ DbKnows /\ ViewFresh /\ NotYetOrdered /\ IntentWritten /\ Recorded

LEMMA DbKnowsStep == CreateInv /\ [Next]_vars => DbKnows'
<1> SUFFICES ASSUME CreateInv, [Next]_vars PROVE DbKnows'
  OBVIOUS
<1> USE RunAssumption DEF CreateInv, TypeInv, TypeOK, DatabaseTypeOK, HistoryTypeOK, DbKnows
<1>a. \A a \in Attempt : pc[a] \notin {"off", "load", "list", "row"} =>
         /\ at[a] \in Row
         /\ Mine(a) \in RowRecord
         /\ Mine(a).cid \in Nat /\ Mine(a).status \in RowStatus
  BY MineType DEF Positioned
<1>b. \A a \in Attempt : NeedsCid(a) => Mine(a).cid # NoCid
  BY DEF CidInHand
<1>1. ASSUME NEW a \in Attempt, IntendCreate(a) PROVE DbKnows'
  BY <1>1, <1>a DEF IntendCreate, history, Accounted, RowRecord
<1>2. ASSUME NEW a \in Attempt, OrderCreate(a) PROVE DbKnows'
  BY <1>2, <1>a DEF OrderCreate, Held, IntentWritten, Accounted
<1>3. ASSUME NEW a \in Attempt, RecordCid(a) PROVE DbKnows'
  BY <1>3, <1>a, <1>b DEF RecordCid, history, NeedsCid, Created, Accounted, RowRecord
<1>4. ASSUME NEW a \in Attempt, FinishRow(a) PROVE DbKnows'
  BY <1>4, <1>a DEF FinishRow, history, Recorded, Accounted, RowRecord
<1>5. ASSUME NEW a \in Attempt, IntendDelete(a) PROVE DbKnows'
  BY <1>5, <1>a, <1>b DEF IntendDelete, history, NeedsCid, Accounted, RowRecord
<1>6. ASSUME NEW a \in Attempt, EraseRow(a) PROVE DbKnows'
  BY <1>6, <1>a DEF EraseRow, history, NotYetOrdered, Untouched, Accounted, RowRecord
<1>7. ASSUME NEW a \in Attempt, CatchResume(a) PROVE DbKnows'
  BY <1>7, <1>a DEF CatchResume, history, AfterError, Accounted, RowRecord
<1>8. ASSUME NEW a \in Attempt, ClaimResume(a) \/ ClaimUndo(a) \/ Heartbeat(a) \/
             HeartbeatFails(a) \/ CloseStatus(a) \/ Release(a) \/ CloserFails(a)
      PROVE  DbKnows'
  BY <1>8, SMTT(30) DEF ClaimResume, Claim, Free, Claimable, Goto, ClaimUndo,
     Heartbeat, Renew, HeartbeatFails, Fault, CloseStatus, FinalStatus, Release,
     CloserFails, Accounted, db, ts, memory, history
<1>9. ASSUME NEW a \in Attempt, Load(a) \/ List(a) \/ AllRowsDone(a) \/ SkipDeleted(a)
             \/ StartRow(a) \/ IdentifyFound(a) \/ IdentifyNone(a) \/
             IdentifyConflict(a)
      PROVE  DbKnows'
  BY <1>9, SMTT(30) DEF Load, Goto, List, AllRowsDone, BodyEnds, InRow, SkipDeleted,
     NextRow, StartRow, Renew, Held, IdentifyFound, Owned, Candidates, IdentifyNone,
     IdentifyConflict, Accounted, db, ts, memory, history
<1>10. ASSUME NEW a \in Attempt, StoreImage(a) \/ SaveImage(a) \/ PointChannel(a) \/
              OrderDelete(a)
       PROVE  DbKnows'
  BY <1>10, SMTT(30) DEF StoreImage, Renew, Goto, SaveImage, PointChannel, Send,
     OrderDelete, Accounted, db, ts, memory, history
<1>11. ASSUME NEW a \in Attempt, LeaseLost(a) \/ StepRejected(a) \/ StepFails(a) \/
              CatchUndo(a) \/ Stop(a) \/ Crash(a)
       PROVE  DbKnows'
  BY <1>11, SMTT(30) DEF LeaseLost, BodyEnds, Goto, InRow, StepRejected, StepFails,
     Fault, CatchUndo, NextRow, Stop, Crash, Accounted, db, ts, memory, history
<1>12. ASSUME NEW a \in Attempt, ExecCreate(a) \/ CreateUnseen(a) \/ ExecEdit(a) \/
              ExecDelete(a) \/ Refuse(a) \/ Vanish(a)
       PROVE  DbKnows'
  BY <1>12, SMTT(30) DEF ExecCreate, NewChannel, Goto, Awaited, Answered,
     CreateUnseen, Fault, ExecEdit, ExecDelete, Subtree, Refuse, Vanish, Accounted,
     db, ts, memory, history
<1>13. ASSUME LeaseExpires \/ LeaseStalls \/ Occupy \/ Vacate \/ Tamper \/ Readdress \/ Remove \/
              DeleteImage
       PROVE  DbKnows'
  BY <1>13, SMTT(30) DEF LeaseExpires, LeaseStalls, Fault, Occupy, Replace, Vacate,
     Tamper, Readdress, Remove, Subtree, DeleteImage, Accounted, db, ts, memory, history
<1>14. ASSUME UNCHANGED vars PROVE DbKnows'
  BY <1>14 DEF Accounted, vars, db, ts, memory, history
<1> QED
  BY <1>1, <1>2, <1>3, <1>4, <1>5, <1>6, <1>7, <1>8, <1>9, <1>10, <1>11, <1>12, <1>13,
     <1>14
  DEF Next, NextAlone, Body, Closer, Server, Failure, Outsiders

LEMMA ViewFreshStep == CreateInv /\ [Next]_vars => ViewFresh'
<1> SUFFICES ASSUME CreateInv, [Next]_vars PROVE ViewFresh'
  OBVIOUS
<1> USE RunAssumption DEF CreateInv, TypeInv, TypeOK, MemoryTypeOK, HistoryTypeOK, ViewFresh
<1>a. \A a \in Attempt : pc[a] \notin {"off", "load", "list", "row"} =>
         /\ at[a] \in Row
         /\ Mine(a) \in RowRecord
         /\ Mine(a).cid \in Nat /\ Mine(a).status \in RowStatus
  BY MineType DEF Positioned
<1>b. \A a \in Attempt : NeedsCid(a) => Mine(a).cid # NoCid
  BY DEF CidInHand
<1>1. ASSUME NEW a \in Attempt, Load(a) PROVE ViewFresh'
  BY <1>1 DEF Load, Goto, DatabaseTypeOK, DbKnows, db, history
<1>2. ASSUME NEW a \in Attempt, IdentifyFound(a) PROVE ViewFresh'
  <2>1. PICK ch \in Owned(a) : local' = [local EXCEPT ![a][at[a]].cid = ch.cid]
    BY <1>2 DEF IdentifyFound
  <2>2. ch.cid # NoCid
    BY ChannelWriteType DEF Owned, Candidates, Cid, NoCid
  <2>3. \A r \in Row : Accounted(local[a][r]) => Accounted(local'[a][r])
    BY <1>2, <1>a, <2>1, <2>2 DEF IdentifyFound, Accounted, RowRecord
  <2>4. \A b \in Attempt \ {a} : local'[b] = local[b] /\ pc'[b] = pc[b]
    BY <1>2, <2>1 DEF IdentifyFound, Goto
  <2> QED
    BY <1>2, <2>3, <2>4 DEF IdentifyFound, db, history
<1>3. ASSUME NEW a \in Attempt, IntendCreate(a) PROVE ViewFresh'
  <2>1. \A r \in Row : Accounted(local[a][r]) => Accounted(local'[a][r])
    BY <1>3, <1>a DEF IntendCreate, Accounted, RowRecord
  <2>2. \A b \in Attempt \ {a} : local'[b] = local[b] /\ pc'[b] = pc[b]
    BY <1>3 DEF IntendCreate, Goto
  <2> QED
    BY <1>3, <2>1, <2>2 DEF IntendCreate, history
<1>4. ASSUME NEW a \in Attempt, OrderCreate(a) PROVE ViewFresh'
  <2>1. Accounted(local[a][at[a]])
    BY <1>4 DEF OrderCreate, Held, IntentWritten, Mine, Accounted
  <2> QED
    BY <1>4, <2>1 DEF OrderCreate, Held, Send, Goto
<1>5. ASSUME NEW a \in Attempt, FinishRow(a) PROVE ViewFresh'
  <2>1. \A r \in Row : Accounted(local[a][r]) => Accounted(local'[a][r])
    BY <1>5, <1>a, <1>b DEF FinishRow, NeedsCid, Mine, Accounted, RowRecord
  <2>2. \A b \in Attempt \ {a} : local'[b] = local[b] /\ pc'[b] = pc[b]
    BY <1>5 DEF FinishRow, NextRow, Goto
  <2> QED
    BY <1>5, <2>1, <2>2 DEF FinishRow, history
<1>6. ASSUME NEW a \in Attempt, ExecCreate(a) PROVE ViewFresh'
  <2>1. CASE Awaited(a)
    <3>1. local' = [local EXCEPT ![a][at[a]].cid = nextCid] /\ nextCid # NoCid
      BY <1>6, <2>1 DEF ExecCreate, NewChannel, ServerTypeOK, Cid, NoCid
    <3>2. \A r \in Row : Accounted(local[a][r]) => Accounted(local'[a][r])
      BY <1>a, <2>1, <3>1 DEF Awaited, Accounted, RowRecord
    <3>3. \A b \in Attempt \ {a} : local'[b] = local[b] /\ pc'[b] = pc[b]
      BY <1>6, <2>1, <3>1 DEF ExecCreate, NewChannel, Goto
    <3> QED
      BY <1>6, <2>1, <3>2, <3>3 DEF ExecCreate, NewChannel, Awaited, db, history
  <2>2. CASE ~Awaited(a)
    BY <1>6, <2>2 DEF ExecCreate, NewChannel, db, history
  <2> QED
    BY <2>1, <2>2
<1>7. ASSUME NEW a \in Attempt, ClaimResume(a) \/ ClaimUndo(a) \/ Heartbeat(a) \/
             HeartbeatFails(a) \/ CloseStatus(a) \/ Release(a) \/ CloserFails(a)
      PROVE  ViewFresh'
  BY <1>7, SMTT(30) DEF ClaimResume, Claim, Free, Claimable, Goto, ClaimUndo,
     Heartbeat, Renew, HeartbeatFails, Fault, CloseStatus, FinalStatus, Release,
     CloserFails, Accounted, Mine, db, ts, memory, history
<1>8. ASSUME NEW a \in Attempt, List(a) \/ AllRowsDone(a) \/ SkipDeleted(a) \/
             StartRow(a) \/ IdentifyNone(a) \/ IdentifyConflict(a)
      PROVE  ViewFresh'
  BY <1>8, SMTT(30) DEF List, Goto, AllRowsDone, BodyEnds, InRow, SkipDeleted,
     NextRow, StartRow, Renew, Held, IdentifyNone, IdentifyConflict, Accounted, Mine,
     db, ts, memory, history
<1>9. ASSUME NEW a \in Attempt, RecordCid(a) \/ StoreImage(a) \/ SaveImage(a) \/
             PointChannel(a) \/ IntendDelete(a) \/ OrderDelete(a) \/ EraseRow(a)
      PROVE  ViewFresh'
  BY <1>9, SMTT(30) DEF RecordCid, Renew, Created, Goto, Held, StoreImage, SaveImage,
     PointChannel, Send, IntendDelete, OrderDelete, EraseRow, NextRow, Accounted,
     Mine, db, ts, memory, history
<1>10. ASSUME NEW a \in Attempt, LeaseLost(a) \/ StepRejected(a) \/ StepFails(a) \/
              CatchResume(a) \/ CatchUndo(a) \/ Stop(a) \/ Crash(a)
       PROVE  ViewFresh'
  BY <1>10, SMTT(30) DEF LeaseLost, BodyEnds, Goto, InRow, StepRejected, StepFails,
     Fault, CatchResume, AfterError, CatchUndo, NextRow, Stop, Crash, Accounted, Mine,
     db, ts, memory, history
<1>11. ASSUME NEW a \in Attempt, CreateUnseen(a) \/ ExecEdit(a) \/ ExecDelete(a) \/
              Refuse(a) \/ Vanish(a)
       PROVE  ViewFresh'
  BY <1>11, SMTT(30) DEF CreateUnseen, NewChannel, Goto, Awaited, Answered, Fault,
     ExecEdit, ExecDelete, Subtree, Refuse, Vanish, Accounted, Mine, db, ts, memory,
     history
<1>12. ASSUME LeaseExpires \/ LeaseStalls \/ Occupy \/ Vacate \/ Tamper \/ Readdress \/ Remove \/
              DeleteImage
       PROVE  ViewFresh'
  BY <1>12, SMTT(30) DEF LeaseExpires, LeaseStalls, Fault, Occupy, Replace, Vacate,
     Tamper, Readdress, Remove, Subtree, DeleteImage, Accounted, Mine, db, ts, memory, history
<1>13. ASSUME UNCHANGED vars PROVE ViewFresh'
  BY <1>13 DEF Accounted, Mine, vars, db, ts, memory, history
<1> QED
  BY <1>1, <1>2, <1>3, <1>4, <1>5, <1>6, <1>7, <1>8, <1>9, <1>10, <1>11, <1>12, <1>13
  DEF Next, NextAlone, Body, Closer, Server, Failure, Outsiders

LEMMA NotYetOrderedStep == CreateInv /\ [Next]_vars => NotYetOrdered'
<1> SUFFICES ASSUME CreateInv, [Next]_vars PROVE NotYetOrdered'
  OBVIOUS
<1> USE RunAssumption DEF CreateInv, TypeInv, TypeOK, MemoryTypeOK, HistoryTypeOK,
        NotYetOrdered
<1>a. \A a \in Attempt : pc[a] \notin {"off", "load", "list", "row"} =>
         /\ at[a] \in Row
         /\ Mine(a) \in RowRecord
         /\ Mine(a).cid \in Nat /\ Mine(a).status \in RowStatus
  BY MineType DEF Positioned
<1>1. ASSUME NEW a \in Attempt, IdentifyFound(a) PROVE NotYetOrdered'
  <2>1. \A b \in Attempt \ {a} : Untouched(b)' => Untouched(b) /\ at'[b] = at[b]
    BY <1>1 DEF IdentifyFound, Untouched, Mine, Goto
  <2>2. ~Untouched(a)' \/ kind[a] = "resume"
    BY <1>1 DEF IdentifyFound, Untouched, Goto
  <2> QED
    BY <1>1, <2>1 DEF IdentifyFound, Untouched, Goto, db, history
<1>2. ASSUME NEW a \in Attempt, IdentifyNone(a) PROVE NotYetOrdered'
  <2>1. CASE pc'[a] \in {"intend", "erase"} /\ (kind[a] = "resume" \/ Mine(a).cid = NoCid)
    <3>1. Mine(a).cid = NoCid /\ Mine(a).status \notin {"creating", "uncertain"}
      BY <1>2, <2>1 DEF IdentifyNone, Goto, Unknown
    <3>2. token = a => at[a] \notin ordered
      BY <1>2, <3>1 DEF IdentifyNone, ViewFresh, Accounted, Mine
    <3> QED
      BY <1>2, <3>2 DEF IdentifyNone, Untouched, Mine, Goto, db, history
  <2>2. CASE ~(pc'[a] \in {"intend", "erase"} /\ (kind[a] = "resume" \/ Mine(a).cid = NoCid))
    BY <1>2, <2>2 DEF IdentifyNone, Untouched, Mine, Goto, db, history
  <2> QED
    BY <2>1, <2>2
<1>3. ASSUME NEW a \in Attempt, ExecCreate(a) PROVE NotYetOrdered'
  <2>1. \A b \in Attempt : Untouched(b)' => Untouched(b) /\ at'[b] = at[b]
    BY <1>3 DEF ExecCreate, NewChannel, Untouched, Mine, Awaited, Goto
  <2> QED
    BY <1>3, <2>1 DEF ExecCreate, NewChannel, db, history
<1>4. ASSUME NEW a \in Attempt, ExecDelete(a) PROVE NotYetOrdered'
  <2>1. CASE Awaited(a)
    <3>1. Mine(a).cid # NoCid
      BY <1>4, <2>1 DEF ExecDelete, Awaited, CidInHand, NeedsCid
    <3> QED
      BY <1>4, <2>1, <3>1 DEF ExecDelete, Untouched, Mine, Goto, db, history
  <2>2. CASE ~Awaited(a)
    BY <1>4, <2>2 DEF ExecDelete, Untouched, Mine, db, history
  <2> QED
    BY <2>1, <2>2
<1>5. ASSUME NEW a \in Attempt, ClaimResume(a) \/ ClaimUndo(a) \/ Heartbeat(a) \/
             HeartbeatFails(a) \/ CloseStatus(a) \/ Release(a) \/ CloserFails(a)
      PROVE  NotYetOrdered'
  BY <1>5, SMTT(30) DEF ClaimResume, Claim, Free, Claimable, Goto, ClaimUndo,
     Heartbeat, Renew, HeartbeatFails, Fault, CloseStatus, FinalStatus, Release,
     CloserFails, Untouched, Mine, db, ts, memory, history
<1>6. ASSUME NEW a \in Attempt, Load(a) \/ List(a) \/ AllRowsDone(a) \/ SkipDeleted(a)
             \/ StartRow(a) \/ IdentifyConflict(a)
      PROVE  NotYetOrdered'
  BY <1>6, SMTT(30) DEF Load, Goto, List, AllRowsDone, BodyEnds, InRow, SkipDeleted,
     NextRow, StartRow, Renew, Held, IdentifyConflict, Untouched, Mine, db, ts,
     memory, history
<1>7. ASSUME NEW a \in Attempt, IntendCreate(a) \/ OrderCreate(a) \/ RecordCid(a) \/
             StoreImage(a) \/ SaveImage(a) \/ PointChannel(a) \/ FinishRow(a) \/
             IntendDelete(a) \/ OrderDelete(a) \/ EraseRow(a)
      PROVE  NotYetOrdered'
  BY <1>7, SMTT(30) DEF IntendCreate, Goto, OrderCreate, Renew, Held, Send, ParentCid,
     RecordCid, Created, StoreImage, SaveImage, PointChannel, FinishRow, NextRow,
     IntendDelete, OrderDelete, EraseRow, Untouched, Mine, db, ts, memory, history
<1>8. ASSUME NEW a \in Attempt, LeaseLost(a) \/ StepRejected(a) \/ StepFails(a) \/
             CatchResume(a) \/ CatchUndo(a) \/ Stop(a) \/ Crash(a)
      PROVE  NotYetOrdered'
  BY <1>8, SMTT(30) DEF LeaseLost, BodyEnds, Goto, InRow, StepRejected, StepFails,
     Fault, CatchResume, AfterError, CatchUndo, NextRow, Stop, Crash, Untouched, Mine,
     db, ts, memory, history
<1>9. ASSUME NEW a \in Attempt, CreateUnseen(a) \/ ExecEdit(a) \/ Refuse(a) \/
             Vanish(a)
      PROVE  NotYetOrdered'
  BY <1>9, SMTT(30) DEF CreateUnseen, NewChannel, Goto, Awaited, Answered, Fault,
     ExecEdit, Refuse, Vanish, Untouched, Mine, db, ts, memory, history
<1>10. ASSUME LeaseExpires \/ LeaseStalls \/ Occupy \/ Vacate \/ Tamper \/ Readdress \/ Remove \/
              DeleteImage
       PROVE  NotYetOrdered'
  BY <1>10, SMTT(30) DEF LeaseExpires, LeaseStalls, Fault, Occupy, Replace, Vacate,
     Tamper, Readdress, Remove, Subtree, DeleteImage, Untouched, Mine, db, ts, memory, history
<1>11. ASSUME UNCHANGED vars PROVE NotYetOrdered'
  BY <1>11 DEF Untouched, Mine, vars, db, ts, memory, history
<1> QED
  BY <1>1, <1>2, <1>3, <1>4, <1>5, <1>6, <1>7, <1>8, <1>9, <1>10, <1>11
  DEF Next, NextAlone, Body, Closer, Server, Failure, Outsiders

LEMMA IntentWrittenStep == CreateInv /\ [Next]_vars => IntentWritten'
<1> SUFFICES ASSUME CreateInv, [Next]_vars PROVE IntentWritten'
  OBVIOUS
<1> USE RunAssumption DEF CreateInv, TypeInv, TypeOK, MemoryTypeOK, DatabaseTypeOK,
        IntentWritten
<1>a. \A a \in Attempt : pc[a] \notin {"off", "load", "list", "row"} =>
         /\ at[a] \in Row
         /\ Mine(a) \in RowRecord
         /\ Mine(a).cid \in Nat /\ Mine(a).status \in RowStatus
  BY MineType DEF Positioned
<1>1. ASSUME NEW a \in Attempt, IntendCreate(a) PROVE IntentWritten'
  <2>1. /\ rows' = [rows EXCEPT ![at[a]].status = "creating"]
        /\ local' = [local EXCEPT ![a][at[a]].status = "creating"]
        /\ at[a] \in Row /\ at' = at
    BY <1>1, <1>a DEF IntendCreate
  <2>2. rows'[at[a]].status = "creating"
    BY <2>1 DEF RowRecord
  <2>3. Mine(a)'.status = "creating"
    BY <2>1 DEF Mine, RowRecord
  <2> QED
    BY <1>1, <2>2, <2>3 DEF IntendCreate, Goto, Mine
<1>2. ASSUME NEW a \in Attempt, ClaimResume(a) \/ ClaimUndo(a) \/ Heartbeat(a) \/
             HeartbeatFails(a) \/ CloseStatus(a) \/ Release(a) \/ CloserFails(a)
      PROVE  IntentWritten'
  BY <1>2, SMTT(30) DEF ClaimResume, Claim, Free, Claimable, Goto, ClaimUndo,
     Heartbeat, Renew, HeartbeatFails, Fault, CloseStatus, FinalStatus, Release,
     CloserFails, Mine, db, ts, memory, history
<1>3. ASSUME NEW a \in Attempt, Load(a) \/ List(a) \/ AllRowsDone(a) \/ SkipDeleted(a)
             \/ StartRow(a) \/ IdentifyFound(a) \/ IdentifyNone(a) \/
             IdentifyConflict(a)
      PROVE  IntentWritten'
  BY <1>3, SMTT(30) DEF Load, Goto, List, AllRowsDone, BodyEnds, InRow, SkipDeleted,
     NextRow, StartRow, Renew, Held, IdentifyFound, Owned, Candidates, IdentifyNone,
     IdentifyConflict, Mine, db, ts, memory, history
<1>4. ASSUME NEW a \in Attempt, OrderCreate(a) \/ RecordCid(a) \/ StoreImage(a) \/
             SaveImage(a) \/ PointChannel(a) \/ FinishRow(a) \/ IntendDelete(a) \/
             OrderDelete(a) \/ EraseRow(a)
      PROVE  IntentWritten'
  BY <1>4, SMTT(30) DEF OrderCreate, Renew, Held, Send, Goto, ParentCid, RecordCid,
     Created, StoreImage, SaveImage, PointChannel, FinishRow, NextRow, IntendDelete,
     OrderDelete, EraseRow, Mine, db, ts, memory, history
<1>5. ASSUME NEW a \in Attempt, LeaseLost(a) \/ StepRejected(a) \/ StepFails(a) \/
             CatchResume(a) \/ CatchUndo(a) \/ Stop(a) \/ Crash(a)
      PROVE  IntentWritten'
  BY <1>5, SMTT(30) DEF LeaseLost, BodyEnds, Goto, InRow, StepRejected, StepFails,
     Fault, CatchResume, AfterError, CatchUndo, NextRow, Stop, Crash, Mine, db, ts,
     memory, history
<1>6. ASSUME NEW a \in Attempt, ExecCreate(a) \/ CreateUnseen(a) \/ ExecEdit(a) \/
             ExecDelete(a) \/ Refuse(a) \/ Vanish(a)
      PROVE  IntentWritten'
  BY <1>6, SMTT(30) DEF ExecCreate, NewChannel, Goto, Awaited, Answered, CreateUnseen,
     Fault, ExecEdit, ExecDelete, Subtree, Refuse, Vanish, Mine, db, ts, memory,
     history
<1>7. ASSUME LeaseExpires \/ LeaseStalls \/ Occupy \/ Vacate \/ Tamper \/ Readdress \/ Remove \/
             DeleteImage
      PROVE  IntentWritten'
  BY <1>7, SMTT(30) DEF LeaseExpires, LeaseStalls, Fault, Occupy, Replace, Vacate,
     Tamper, Readdress, Remove, Subtree, DeleteImage, Mine, db, ts, memory, history
<1>8. ASSUME UNCHANGED vars PROVE IntentWritten'
  BY <1>8 DEF Mine, vars, db, ts, memory, history
<1> QED
  BY <1>1, <1>2, <1>3, <1>4, <1>5, <1>6, <1>7, <1>8
  DEF Next, NextAlone, Body, Closer, Server, Failure, Outsiders

LEMMA RecordedStep == CreateInv /\ [Next]_vars => Recorded'
<1> SUFFICES ASSUME CreateInv, [Next]_vars PROVE Recorded'
  OBVIOUS
<1> USE RunAssumption DEF CreateInv, TypeInv, TypeOK, MemoryTypeOK, DatabaseTypeOK,
        ServerTypeOK, Recorded
<1>a. \A a \in Attempt : pc[a] \notin {"off", "load", "list", "row"} =>
         /\ at[a] \in Row
         /\ Mine(a) \in RowRecord
         /\ Mine(a).cid \in Nat /\ Mine(a).status \in RowStatus
  BY MineType DEF Positioned
<1>b. \A a \in Attempt : NeedsCid(a) => Mine(a).cid # NoCid
  BY DEF CidInHand
<1>1. ASSUME NEW a \in Attempt, IntendCreate(a) PROVE Recorded'
  BY <1>1 DEF IntendCreate, Goto
<1>2. ASSUME NEW a \in Attempt, OrderCreate(a) PROVE Recorded'
  BY <1>2 DEF OrderCreate, Held, Send, Goto
<1>3. ASSUME NEW a \in Attempt, RecordCid(a) PROVE Recorded'
  <2>1. /\ Mine(a).cid # NoCid /\ at[a] \in Row
        /\ rows'[at[a]] = Created(rows[at[a]], Mine(a).cid)
    BY <1>3, <1>a, <1>b DEF RecordCid, NeedsCid
  <2>2. rows'[at[a]].cid # NoCid
    BY <2>1 DEF Created, RowRecord
  <2> QED
    BY <1>3, <2>2 DEF RecordCid, Held, Goto
<1>4. ASSUME NEW a \in Attempt, PointChannel(a) PROVE Recorded'
  BY <1>4 DEF PointChannel, Held, Send, Goto
<1>5. ASSUME NEW a \in Attempt, OrderDelete(a) PROVE Recorded'
  BY <1>5 DEF OrderDelete, Held, Send, Goto
<1>6. ASSUME NEW a \in Attempt, FinishRow(a) PROVE Recorded'
  BY <1>6 DEF FinishRow, NextRow, Goto
<1>7. ASSUME NEW a \in Attempt, IntendDelete(a) PROVE Recorded'
  BY <1>7 DEF IntendDelete, Held, Goto
<1>8. ASSUME NEW a \in Attempt, EraseRow(a) PROVE Recorded'
  BY <1>8 DEF EraseRow, NextRow, Goto
<1>9. ASSUME NEW a \in Attempt, ExecCreate(a) PROVE Recorded'
  BY <1>9 DEF ExecCreate, NewChannel, Answered, Awaited, Goto, NoCommand, db
<1>10. ASSUME NEW a \in Attempt, ExecEdit(a) PROVE Recorded'
  BY <1>10 DEF ExecEdit, Answered, Awaited, Goto, NoCommand, db
<1>11. ASSUME NEW a \in Attempt, ExecDelete(a) PROVE Recorded'
  BY <1>11 DEF ExecDelete, Answered, Awaited, Goto, NoCommand, db
<1>12. ASSUME NEW a \in Attempt, Refuse(a) PROVE Recorded'
  BY <1>12 DEF Refuse, Answered, Awaited, Goto, NoCommand, db
<1>13. ASSUME NEW a \in Attempt, Vanish(a) PROVE Recorded'
  BY <1>13 DEF Vanish, Answered, Awaited, NoCommand, db, memory
<1>14. ASSUME NEW a \in Attempt, ClaimResume(a) \/ ClaimUndo(a) \/ Heartbeat(a) \/
              HeartbeatFails(a) \/ CloseStatus(a) \/ Release(a) \/ CloserFails(a)
       PROVE  Recorded'
  BY <1>14, SMTT(30) DEF ClaimResume, Claim, Free, Claimable, Goto, ClaimUndo,
     Heartbeat, Renew, HeartbeatFails, Fault, CloseStatus, FinalStatus, Release,
     CloserFails, Mine, db, ts, memory, history
<1>15. ASSUME NEW a \in Attempt, Load(a) \/ List(a) \/ AllRowsDone(a) \/
              SkipDeleted(a) \/ StartRow(a) \/ IdentifyFound(a) \/ IdentifyNone(a) \/
              IdentifyConflict(a)
       PROVE  Recorded'
  BY <1>15, SMTT(30) DEF Load, Goto, List, AllRowsDone, BodyEnds, InRow, SkipDeleted,
     NextRow, StartRow, Renew, Held, IdentifyFound, Owned, Candidates, IdentifyNone,
     IdentifyConflict, Mine, db, ts, memory, history
<1>16. ASSUME NEW a \in Attempt, StoreImage(a) \/ SaveImage(a)
       PROVE  Recorded'
  BY <1>16, SMTT(30) DEF StoreImage, Renew, Goto, SaveImage, Mine, db, ts, memory,
     history
<1>17. ASSUME NEW a \in Attempt, LeaseLost(a) \/ StepRejected(a) \/ StepFails(a) \/
              CatchResume(a) \/ CatchUndo(a) \/ Stop(a) \/ Crash(a)
       PROVE  Recorded'
  BY <1>17, SMTT(30) DEF LeaseLost, BodyEnds, Goto, InRow, StepRejected, StepFails,
     Fault, CatchResume, AfterError, CatchUndo, NextRow, Stop, Crash, Mine, db, ts,
     memory, history
<1>18. ASSUME NEW a \in Attempt, CreateUnseen(a) PROVE Recorded'
  BY <1>18, SMTT(30) DEF CreateUnseen, NewChannel, Goto, Awaited, Answered, Fault,
     Mine, db, ts, memory, history
<1>19. ASSUME LeaseExpires \/ LeaseStalls \/ Occupy \/ Vacate \/ Tamper \/ Readdress \/ Remove \/
              DeleteImage
       PROVE  Recorded'
  BY <1>19, SMTT(30) DEF LeaseExpires, LeaseStalls, Fault, Occupy, Replace, Vacate,
     Tamper, Readdress, Remove, Subtree, DeleteImage, Mine, db, ts, memory, history
<1>20. ASSUME UNCHANGED vars PROVE Recorded'
  BY <1>20 DEF Mine, vars, db, ts, memory, history
<1> QED
  BY <1>1, <1>2, <1>3, <1>4, <1>5, <1>6, <1>7, <1>8, <1>9, <1>10, <1>11, <1>12, <1>13,
     <1>14, <1>15, <1>16, <1>17, <1>18, <1>19, <1>20
  DEF Next, NextAlone, Body, Closer, Server, Failure, Outsiders

LEMMA CreateInvStep == CreateInv /\ [Next]_vars => CreateInv'
<1>1. CreateInv => TypeInv
  BY DEF CreateInv
<1> QED
  BY <1>1, TypeInvStep, DbKnowsStep, ViewFreshStep, NotYetOrderedStep, IntentWrittenStep,
     RecordedStep DEF CreateInv

LEMMA CreateInvInit == Init => CreateInv
BY InitTypeInv
   DEF Init, CreateInv, DbKnows, ViewFresh, NotYetOrdered, Untouched, IntentWritten, Recorded

LEMMA CreateInvOrders ==
  ASSUME CreateInv, [Next]_vars, NEW c \in Attempt
  PROVE  cmd'[c] # cmd[c] /\ cmd'[c].op = "create" => cmd'[c].row \notin ordered
<1> DEFINE Goal == cmd'[c] # cmd[c] /\ cmd'[c].op = "create" => cmd'[c].row \notin ordered
<1>t. cmd \in [Attempt -> Command] /\ NoCommand.op = "none"
  BY DEF CreateInv, TypeInv, TypeOK, ServerTypeOK, NoCommand
<1>u. ASSUME UNCHANGED cmd PROVE Goal
  BY <1>u
<1>s. ASSUME NEW a \in Attempt, NEW op \in {"edit", "delete"}, NEW cid, Send(a, op, cid)
      PROVE  Goal
  BY <1>s, <1>t DEF Send
<1>w. ASSUME NEW a \in Attempt, Answered(a) PROVE Goal
  BY <1>w, <1>t DEF Answered
<1>1. ASSUME NEW a \in Attempt, OrderCreate(a) PROVE Goal
  BY <1>1, <1>t DEF OrderCreate, Send, Held, CreateInv, NotYetOrdered, Untouched
<1>2. ASSUME NEW a \in Attempt, PointChannel(a) PROVE Goal
  BY <1>2, <1>s DEF PointChannel
<1>3. ASSUME NEW a \in Attempt, OrderDelete(a) PROVE Goal
  BY <1>3, <1>s DEF OrderDelete
<1>4. ASSUME NEW a \in Attempt, ExecCreate(a) PROVE Goal
  BY <1>4, <1>w DEF ExecCreate
<1>5. ASSUME NEW a \in Attempt, CreateUnseen(a) PROVE Goal
  BY <1>5, <1>w DEF CreateUnseen
<1>6. ASSUME NEW a \in Attempt, ExecEdit(a) PROVE Goal
  BY <1>6, <1>w DEF ExecEdit
<1>7. ASSUME NEW a \in Attempt, ExecDelete(a) PROVE Goal
  BY <1>7, <1>w DEF ExecDelete
<1>8. ASSUME NEW a \in Attempt, Refuse(a) PROVE Goal
  BY <1>8, <1>w DEF Refuse
<1>9. ASSUME NEW a \in Attempt, Vanish(a) PROVE Goal
  BY <1>9, <1>w DEF Vanish
<1>10. ASSUME NEW a \in Attempt, ClaimResume(a) \/ ClaimUndo(a) \/ Heartbeat(a) \/
              HeartbeatFails(a) \/ CloseStatus(a) \/ Release(a) \/ CloserFails(a)
       PROVE  Goal
  BY <1>10, <1>u DEF ClaimResume, ClaimUndo, Heartbeat, HeartbeatFails, CloseStatus,
     Release, CloserFails, Claim
<1>11. ASSUME NEW a \in Attempt, Load(a) \/ List(a) \/ AllRowsDone(a) \/
              SkipDeleted(a) \/ StartRow(a) \/ IdentifyFound(a) \/ IdentifyNone(a) \/
              IdentifyConflict(a)
       PROVE  Goal
  BY <1>11, <1>u DEF Load, List, AllRowsDone, SkipDeleted, StartRow, IdentifyFound,
     IdentifyNone, IdentifyConflict, Claim
<1>12. ASSUME NEW a \in Attempt, IntendCreate(a) \/ RecordCid(a) \/ StoreImage(a) \/
              SaveImage(a) \/ FinishRow(a) \/ IntendDelete(a) \/ EraseRow(a)
       PROVE  Goal
  BY <1>12, <1>u DEF IntendCreate, RecordCid, StoreImage, SaveImage, FinishRow,
     IntendDelete, EraseRow, Claim
<1>13. ASSUME NEW a \in Attempt, LeaseLost(a) \/ StepRejected(a) \/ StepFails(a) \/
              CatchResume(a) \/ CatchUndo(a) \/ Stop(a) \/ Crash(a)
       PROVE  Goal
  BY <1>13, <1>u DEF LeaseLost, StepRejected, StepFails, CatchResume, CatchUndo, Stop,
     Crash, Claim
<1>14. ASSUME LeaseExpires \/ LeaseStalls \/ Occupy \/ Vacate \/ Tamper \/ Readdress \/ Remove \/
              DeleteImage
       PROVE  Goal
  BY <1>14, <1>u DEF LeaseExpires, LeaseStalls, Occupy, Vacate, Tamper, Readdress, Remove,
     DeleteImage, Claim
<1>15. ASSUME UNCHANGED vars PROVE Goal
  BY <1>15, <1>u DEF vars, db
<1> QED
  BY <1>1, <1>2, <1>3, <1>4, <1>5, <1>6, <1>7, <1>8, <1>9, <1>10, <1>11, <1>12, <1>13,
     <1>14, <1>15
  DEF Next, NextAlone, Body, Closer, Server, Failure, Outsiders

\* No row of the run is ever ordered twice: not after a crash, a lost reply, a
\* lease that passed to another attempt, or a command executed late.
THEOREM CreateOnce == Spec => CreateAtMostOnce
<1>1. CreateInv /\ [Next]_vars =>
        [\A a \in Attempt : cmd'[a] # cmd[a] /\ cmd'[a].op = "create"
                               => cmd'[a].row \notin ordered]_vars
  BY CreateInvOrders
<1> QED
  BY CreateInvInit, CreateInvStep, <1>1, PTL DEF Spec, CreateAtMostOnce

-----------------------------------------------------------------------------
(* Why an undone run stays undone *)

\* A resume that still holds the lease saw no undo since.
ResumeHolds ==
  \A a \in Attempt : token = a /\ kind[a] = "resume" =>
    status \notin {"undoing", "undo-partial", "undone"}

\* A connection that can still stop has a callback.
Connected == \A a \in Attempt : conn[a] => pc[a] # "off"

\* Only a callback that ended is followed by a success.
CleanClose == \A a \in Attempt : closer[a] = "status" /\ ~failed[a] => pc[a] = "off"

\* The attempt that undid the run has nothing left to write.
Closed ==
  \A a \in Attempt : status = "undone" /\ token = a =>
    pc[a] = "off" /\ closer[a] \in {"off", "release"}

UndoInv == TypeInv /\ ResumeHolds /\ Connected /\ CleanClose /\ Closed

LEMMA ResumeHoldsStep == UndoInv /\ [Next]_vars => ResumeHolds'
<1> SUFFICES ASSUME UndoInv, [Next]_vars PROVE ResumeHolds'
  OBVIOUS
<1> USE RunAssumption DEF UndoInv, TypeInv, TypeOK, DatabaseTypeOK, MemoryTypeOK,
        ResumeHolds
<1>1. ASSUME NEW a \in Attempt, ClaimResume(a) \/ ClaimUndo(a) \/ Heartbeat(a) \/
             HeartbeatFails(a) \/ CloseStatus(a) \/ Release(a) \/ CloserFails(a)
      PROVE  ResumeHolds'
  BY <1>1, SMTT(30) DEF ClaimResume, Claim, Free, Claimable, Goto, ClaimUndo,
     Heartbeat, Renew, HeartbeatFails, Fault, CloseStatus, FinalStatus, Release,
     CloserFails, db, ts, memory, history
<1>2. ASSUME NEW a \in Attempt, Load(a) \/ List(a) \/ AllRowsDone(a) \/ SkipDeleted(a)
             \/ StartRow(a) \/ IdentifyFound(a) \/ IdentifyNone(a) \/
             IdentifyConflict(a)
      PROVE  ResumeHolds'
  BY <1>2, SMTT(30) DEF Load, Goto, List, AllRowsDone, BodyEnds, InRow, SkipDeleted,
     NextRow, StartRow, Renew, Held, IdentifyFound, Owned, Candidates, IdentifyNone,
     IdentifyConflict, db, ts, memory, history
<1>3. ASSUME NEW a \in Attempt, IntendCreate(a) \/ OrderCreate(a) \/ RecordCid(a) \/
             StoreImage(a) \/ SaveImage(a) \/ PointChannel(a) \/ FinishRow(a) \/
             IntendDelete(a) \/ OrderDelete(a) \/ EraseRow(a)
      PROVE  ResumeHolds'
  BY <1>3, SMTT(30) DEF IntendCreate, Goto, OrderCreate, Renew, Held, Send, ParentCid,
     RecordCid, Created, StoreImage, SaveImage, PointChannel, FinishRow, NextRow,
     IntendDelete, OrderDelete, EraseRow, db, ts, memory, history
<1>4. ASSUME NEW a \in Attempt, LeaseLost(a) \/ StepRejected(a) \/ StepFails(a) \/
             CatchResume(a) \/ CatchUndo(a) \/ Stop(a) \/ Crash(a)
      PROVE  ResumeHolds'
  BY <1>4, SMTT(30) DEF LeaseLost, BodyEnds, Goto, InRow, StepRejected, StepFails,
     Fault, CatchResume, AfterError, CatchUndo, NextRow, Stop, Crash, db, ts, memory,
     history
<1>5. ASSUME NEW a \in Attempt, ExecCreate(a) \/ CreateUnseen(a) \/ ExecEdit(a) \/
             ExecDelete(a) \/ Refuse(a) \/ Vanish(a)
      PROVE  ResumeHolds'
  BY <1>5, SMTT(30) DEF ExecCreate, NewChannel, Goto, Awaited, Answered, CreateUnseen,
     Fault, ExecEdit, ExecDelete, Subtree, Refuse, Vanish, db, ts, memory, history
<1>6. ASSUME LeaseExpires \/ LeaseStalls \/ Occupy \/ Vacate \/ Tamper \/ Readdress \/ Remove \/
             DeleteImage
      PROVE  ResumeHolds'
  BY <1>6, SMTT(30) DEF LeaseExpires, LeaseStalls, Fault, Occupy, Replace, Vacate,
     Tamper, Readdress, Remove, Subtree, DeleteImage, db, ts, memory, history
<1>7. ASSUME UNCHANGED vars PROVE ResumeHolds'
  BY <1>7 DEF vars, db, ts, memory, history
<1> QED
  BY <1>1, <1>2, <1>3, <1>4, <1>5, <1>6, <1>7
  DEF Next, NextAlone, Body, Closer, Server, Failure, Outsiders

LEMMA ConnectedStep == UndoInv /\ [Next]_vars => Connected'
<1> SUFFICES ASSUME UndoInv, [Next]_vars PROVE Connected'
  OBVIOUS
<1> USE RunAssumption DEF UndoInv, TypeInv, TypeOK, MemoryTypeOK, Connected
<1>1. ASSUME NEW a \in Attempt, ClaimResume(a) \/ ClaimUndo(a) \/ Heartbeat(a) \/
             HeartbeatFails(a) \/ CloseStatus(a) \/ Release(a) \/ CloserFails(a)
      PROVE  Connected'
  BY <1>1, SMTT(30) DEF ClaimResume, Claim, Free, Claimable, Goto, ClaimUndo,
     Heartbeat, Renew, HeartbeatFails, Fault, CloseStatus, FinalStatus, Release,
     CloserFails, db, ts, memory, history
<1>2. ASSUME NEW a \in Attempt, Load(a) \/ List(a) \/ AllRowsDone(a) \/ SkipDeleted(a)
             \/ StartRow(a) \/ IdentifyFound(a) \/ IdentifyNone(a) \/
             IdentifyConflict(a)
      PROVE  Connected'
  BY <1>2, SMTT(30) DEF Load, Goto, List, AllRowsDone, BodyEnds, InRow, SkipDeleted,
     NextRow, StartRow, Renew, Held, IdentifyFound, Owned, Candidates, IdentifyNone,
     IdentifyConflict, db, ts, memory, history
<1>3. ASSUME NEW a \in Attempt, IntendCreate(a) \/ OrderCreate(a) \/ RecordCid(a) \/
             StoreImage(a) \/ SaveImage(a) \/ PointChannel(a) \/ FinishRow(a) \/
             IntendDelete(a) \/ OrderDelete(a) \/ EraseRow(a)
      PROVE  Connected'
  BY <1>3, SMTT(30) DEF IntendCreate, Goto, OrderCreate, Renew, Held, Send, ParentCid,
     RecordCid, Created, StoreImage, SaveImage, PointChannel, FinishRow, NextRow,
     IntendDelete, OrderDelete, EraseRow, db, ts, memory, history
<1>4. ASSUME NEW a \in Attempt, LeaseLost(a) \/ StepRejected(a) \/ StepFails(a) \/
             CatchResume(a) \/ CatchUndo(a) \/ Stop(a) \/ Crash(a)
      PROVE  Connected'
  BY <1>4, SMTT(30) DEF LeaseLost, BodyEnds, Goto, InRow, StepRejected, StepFails,
     Fault, CatchResume, AfterError, CatchUndo, NextRow, Stop, Crash, db, ts, memory,
     history
<1>5. ASSUME NEW a \in Attempt, ExecCreate(a) \/ CreateUnseen(a) \/ ExecEdit(a) \/
             ExecDelete(a) \/ Refuse(a) \/ Vanish(a)
      PROVE  Connected'
  BY <1>5, SMTT(30) DEF ExecCreate, NewChannel, Goto, Awaited, Answered, CreateUnseen,
     Fault, ExecEdit, ExecDelete, Subtree, Refuse, Vanish, db, ts, memory, history
<1>6. ASSUME LeaseExpires \/ LeaseStalls \/ Occupy \/ Vacate \/ Tamper \/ Readdress \/ Remove \/
             DeleteImage
      PROVE  Connected'
  BY <1>6, SMTT(30) DEF LeaseExpires, LeaseStalls, Fault, Occupy, Replace, Vacate,
     Tamper, Readdress, Remove, Subtree, DeleteImage, db, ts, memory, history
<1>7. ASSUME UNCHANGED vars PROVE Connected'
  BY <1>7 DEF vars, db, ts, memory, history
<1> QED
  BY <1>1, <1>2, <1>3, <1>4, <1>5, <1>6, <1>7
  DEF Next, NextAlone, Body, Closer, Server, Failure, Outsiders

LEMMA CleanCloseStep == UndoInv /\ [Next]_vars => CleanClose'
<1> SUFFICES ASSUME UndoInv, [Next]_vars PROVE CleanClose'
  OBVIOUS
<1> USE RunAssumption DEF UndoInv, TypeInv, TypeOK, MemoryTypeOK, CleanClose
<1>1. ASSUME NEW a \in Attempt, ClaimResume(a) \/ ClaimUndo(a) \/ Heartbeat(a) \/
             HeartbeatFails(a) \/ CloseStatus(a) \/ Release(a) \/ CloserFails(a)
      PROVE  CleanClose'
  BY <1>1, SMTT(30) DEF ClaimResume, Claim, Free, Claimable, Goto, ClaimUndo,
     Heartbeat, Renew, HeartbeatFails, Fault, CloseStatus, FinalStatus, Release,
     CloserFails, db, ts, memory, history
<1>2. ASSUME NEW a \in Attempt, Load(a) \/ List(a) \/ AllRowsDone(a) \/ SkipDeleted(a)
             \/ StartRow(a) \/ IdentifyFound(a) \/ IdentifyNone(a) \/
             IdentifyConflict(a)
      PROVE  CleanClose'
  BY <1>2, SMTT(30) DEF Load, Goto, List, AllRowsDone, BodyEnds, InRow, SkipDeleted,
     NextRow, StartRow, Renew, Held, IdentifyFound, Owned, Candidates, IdentifyNone,
     IdentifyConflict, db, ts, memory, history
<1>3. ASSUME NEW a \in Attempt, IntendCreate(a) \/ OrderCreate(a) \/ RecordCid(a) \/
             StoreImage(a) \/ SaveImage(a) \/ PointChannel(a) \/ FinishRow(a) \/
             IntendDelete(a) \/ OrderDelete(a) \/ EraseRow(a)
      PROVE  CleanClose'
  BY <1>3, SMTT(30) DEF IntendCreate, Goto, OrderCreate, Renew, Held, Send, ParentCid,
     RecordCid, Created, StoreImage, SaveImage, PointChannel, FinishRow, NextRow,
     IntendDelete, OrderDelete, EraseRow, db, ts, memory, history
<1>4. ASSUME NEW a \in Attempt, LeaseLost(a) \/ StepRejected(a) \/ StepFails(a) \/
             CatchResume(a) \/ CatchUndo(a) \/ Stop(a) \/ Crash(a)
      PROVE  CleanClose'
  BY <1>4, SMTT(30) DEF LeaseLost, BodyEnds, Goto, InRow, StepRejected, StepFails,
     Fault, CatchResume, AfterError, CatchUndo, NextRow, Stop, Crash, db, ts, memory,
     history
<1>5. ASSUME NEW a \in Attempt, ExecCreate(a) \/ CreateUnseen(a) \/ ExecEdit(a) \/
             ExecDelete(a) \/ Refuse(a) \/ Vanish(a)
      PROVE  CleanClose'
  BY <1>5, SMTT(30) DEF ExecCreate, NewChannel, Goto, Awaited, Answered, CreateUnseen,
     Fault, ExecEdit, ExecDelete, Subtree, Refuse, Vanish, db, ts, memory, history
<1>6. ASSUME LeaseExpires \/ LeaseStalls \/ Occupy \/ Vacate \/ Tamper \/ Readdress \/ Remove \/
             DeleteImage
      PROVE  CleanClose'
  BY <1>6, SMTT(30) DEF LeaseExpires, LeaseStalls, Fault, Occupy, Replace, Vacate,
     Tamper, Readdress, Remove, Subtree, DeleteImage, db, ts, memory, history
<1>7. ASSUME UNCHANGED vars PROVE CleanClose'
  BY <1>7 DEF vars, db, ts, memory, history
<1> QED
  BY <1>1, <1>2, <1>3, <1>4, <1>5, <1>6, <1>7
  DEF Next, NextAlone, Body, Closer, Server, Failure, Outsiders

LEMMA ClosedStep == UndoInv /\ [Next]_vars => Closed'
<1> SUFFICES ASSUME UndoInv, [Next]_vars PROVE Closed'
  OBVIOUS
<1> USE RunAssumption DEF UndoInv, TypeInv, TypeOK, DatabaseTypeOK, MemoryTypeOK, Closed,
        CleanClose, Connected
<1>1. ASSUME NEW a \in Attempt, ClaimResume(a) \/ ClaimUndo(a) \/ Heartbeat(a) \/
             HeartbeatFails(a) \/ CloseStatus(a) \/ Release(a) \/ CloserFails(a)
      PROVE  Closed'
  BY <1>1, SMTT(30) DEF ClaimResume, Claim, Free, Claimable, Goto, ClaimUndo,
     Heartbeat, Renew, HeartbeatFails, Fault, CloseStatus, FinalStatus, Release,
     CloserFails, db, ts, memory, history
<1>2. ASSUME NEW a \in Attempt, Load(a) \/ List(a) \/ AllRowsDone(a) \/ SkipDeleted(a)
             \/ StartRow(a) \/ IdentifyFound(a) \/ IdentifyNone(a) \/
             IdentifyConflict(a)
      PROVE  Closed'
  BY <1>2, SMTT(30) DEF Load, Goto, List, AllRowsDone, BodyEnds, InRow, SkipDeleted,
     NextRow, StartRow, Renew, Held, IdentifyFound, Owned, Candidates, IdentifyNone,
     IdentifyConflict, FinalStatus, db, ts, memory, history
<1>3. ASSUME NEW a \in Attempt, IntendCreate(a) \/ OrderCreate(a) \/ RecordCid(a) \/
             StoreImage(a) \/ SaveImage(a) \/ PointChannel(a) \/ FinishRow(a) \/
             IntendDelete(a) \/ OrderDelete(a) \/ EraseRow(a)
      PROVE  Closed'
  BY <1>3, SMTT(30) DEF IntendCreate, Goto, OrderCreate, Renew, Held, Send, ParentCid,
     RecordCid, Created, StoreImage, SaveImage, PointChannel, FinishRow, NextRow,
     IntendDelete, OrderDelete, EraseRow, FinalStatus, db, ts, memory, history
<1>4. ASSUME NEW a \in Attempt, LeaseLost(a) \/ StepRejected(a) \/ StepFails(a) \/
             CatchResume(a) \/ CatchUndo(a) \/ Stop(a) \/ Crash(a)
      PROVE  Closed'
  BY <1>4, SMTT(30) DEF LeaseLost, BodyEnds, Goto, InRow, StepRejected, StepFails,
     Fault, CatchResume, AfterError, CatchUndo, NextRow, Stop, Crash, FinalStatus, db,
     ts, memory, history
<1>5. ASSUME NEW a \in Attempt, ExecCreate(a) \/ CreateUnseen(a) \/ ExecEdit(a) \/
             ExecDelete(a) \/ Refuse(a) \/ Vanish(a)
      PROVE  Closed'
  BY <1>5, SMTT(30) DEF ExecCreate, NewChannel, Goto, Awaited, Answered, CreateUnseen,
     Fault, ExecEdit, ExecDelete, Subtree, Refuse, Vanish, FinalStatus, db, ts,
     memory, history
<1>6. ASSUME LeaseExpires \/ LeaseStalls \/ Occupy \/ Vacate \/ Tamper \/ Readdress \/ Remove \/
             DeleteImage
      PROVE  Closed'
  BY <1>6, SMTT(30) DEF LeaseExpires, LeaseStalls, Fault, Occupy, Replace, Vacate,
     Tamper, Readdress, Remove, Subtree, DeleteImage, FinalStatus, db, ts, memory, history
<1>7. ASSUME UNCHANGED vars PROVE Closed'
  BY <1>7 DEF FinalStatus, vars, db, ts, memory, history
<1> QED
  BY <1>1, <1>2, <1>3, <1>4, <1>5, <1>6, <1>7
  DEF Next, NextAlone, Body, Closer, Server, Failure, Outsiders

LEMMA UndoInvStep == UndoInv /\ [Next]_vars => UndoInv'
<1>1. UndoInv => TypeInv
  BY DEF UndoInv
<1> QED
  BY <1>1, TypeInvStep, ResumeHoldsStep, ConnectedStep, CleanCloseStep, ClosedStep DEF UndoInv

LEMMA UndoInvInit == Init => UndoInv
BY InitTypeInv, RunAssumption DEF Init, UndoInv, ResumeHolds, Connected, CleanClose, Closed

LEMMA UndoStays ==
  ASSUME UndoInv, [Next]_vars
  PROVE  /\ status \in {"undoing", "undo-partial", "undone"}
              => status' \in {"undoing", "undo-partial", "undone"}
         /\ status = "undone" => status' = "undone" /\ rows' = rows
<1> DEFINE Goal == /\ status \in {"undoing", "undo-partial", "undone"}
                       => status' \in {"undoing", "undo-partial", "undone"}
                   /\ status = "undone" => status' = "undone" /\ rows' = rows
<1>u. ASSUME UNCHANGED <<status, rows>> PROVE Goal
  BY <1>u
<1>1. ASSUME NEW a \in Attempt, ClaimResume(a) PROVE Goal
  BY <1>1 DEF ClaimResume, Claim, UndoInv
<1>2. ASSUME NEW a \in Attempt, ClaimUndo(a) PROVE Goal
  BY <1>2 DEF ClaimUndo, Claim, UndoInv
<1>3. ASSUME NEW a \in Attempt, CloseStatus(a) PROVE Goal
  BY <1>3 DEF CloseStatus, ResumeHolds, Closed, FinalStatus, UndoInv
<1>4. ASSUME NEW a \in Attempt, IntendCreate(a) PROVE Goal
  BY <1>4 DEF IntendCreate, Closed, UndoInv
<1>5. ASSUME NEW a \in Attempt, RecordCid(a) PROVE Goal
  BY <1>5 DEF RecordCid, Held, Closed, UndoInv
<1>6. ASSUME NEW a \in Attempt, FinishRow(a) PROVE Goal
  BY <1>6 DEF FinishRow, Closed, UndoInv
<1>7. ASSUME NEW a \in Attempt, IntendDelete(a) PROVE Goal
  BY <1>7 DEF IntendDelete, Held, Closed, UndoInv
<1>8. ASSUME NEW a \in Attempt, EraseRow(a) PROVE Goal
  BY <1>8 DEF EraseRow, Closed, UndoInv
<1>9. ASSUME NEW a \in Attempt, CatchResume(a) PROVE Goal
  BY <1>9 DEF CatchResume, Closed, UndoInv
<1>10. ASSUME NEW a \in Attempt, Heartbeat(a) \/ HeartbeatFails(a) \/ Release(a) \/
              CloserFails(a)
       PROVE  Goal
  BY <1>10, <1>u DEF Heartbeat, HeartbeatFails, Release, CloserFails, db
<1>11. ASSUME NEW a \in Attempt, Load(a) \/ List(a) \/ AllRowsDone(a) \/
              SkipDeleted(a) \/ StartRow(a) \/ IdentifyFound(a) \/ IdentifyNone(a) \/
              IdentifyConflict(a)
       PROVE  Goal
  BY <1>11, <1>u DEF Load, List, AllRowsDone, SkipDeleted, StartRow, IdentifyFound,
     IdentifyNone, IdentifyConflict, db
<1>12. ASSUME NEW a \in Attempt, OrderCreate(a) \/ StoreImage(a) \/ SaveImage(a) \/
              PointChannel(a) \/ OrderDelete(a)
       PROVE  Goal
  BY <1>12, <1>u DEF OrderCreate, StoreImage, SaveImage, PointChannel, OrderDelete, db
<1>13. ASSUME NEW a \in Attempt, LeaseLost(a) \/ StepRejected(a) \/ StepFails(a) \/
              CatchUndo(a) \/ Stop(a) \/ Crash(a)
       PROVE  Goal
  BY <1>13, <1>u DEF LeaseLost, StepRejected, StepFails, CatchUndo, Stop, Crash, db
<1>14. ASSUME NEW a \in Attempt, ExecCreate(a) \/ CreateUnseen(a) \/ ExecEdit(a) \/
              ExecDelete(a) \/ Refuse(a) \/ Vanish(a)
       PROVE  Goal
  BY <1>14, <1>u DEF ExecCreate, CreateUnseen, ExecEdit, ExecDelete, Refuse, Vanish,
     db
<1>15. ASSUME LeaseExpires \/ LeaseStalls \/ Occupy \/ Vacate \/ Tamper \/ Readdress \/ Remove \/
              DeleteImage
       PROVE  Goal
  BY <1>15, <1>u DEF LeaseExpires, LeaseStalls, Occupy, Vacate, Tamper, Readdress, Remove,
     DeleteImage, db
<1>16. ASSUME UNCHANGED vars PROVE Goal
  BY <1>16, <1>u DEF vars, db
<1> QED
  BY <1>1, <1>2, <1>3, <1>4, <1>5, <1>6, <1>7, <1>8, <1>9, <1>10, <1>11, <1>12, <1>13,
     <1>14, <1>15, <1>16
  DEF Next, NextAlone, Body, Closer, Server, Failure, Outsiders

\* No attempt, however late or revived, brings a run back from its undo.
THEOREM UndoFinal == Spec => UndoIsFinal
<1>1. UndoInv /\ [Next]_vars =>
        [/\ status \in {"undoing", "undo-partial", "undone"}
            => status' \in {"undoing", "undo-partial", "undone"}
         /\ status = "undone" => status' = "undone" /\ rows' = rows]_vars
  BY UndoStays
<1> QED
  BY UndoInvInit, UndoInvStep, <1>1, PTL DEF Spec, UndoIsFinal

-----------------------------------------------------------------------------
(* Who writes what: every other action leaves the variable alone *)

\* The server creates the channel that an attempt ordered.
Born(a) == ExecCreate(a) \/ CreateUnseen(a)

\* Only the attempts write the rows.
LEMMA RowFrame ==
  ASSUME [Next]_vars
  PROVE  \/ rows' = rows
         \/ \E a \in Attempt : \/ IntendCreate(a) \/ RecordCid(a) \/ FinishRow(a)
                               \/ IntendDelete(a) \/ EraseRow(a) \/ CatchResume(a)
<1>1. ASSUME NEW a \in Attempt, ClaimResume(a) \/ ClaimUndo(a) \/ Heartbeat(a) \/
             HeartbeatFails(a) \/ CloseStatus(a) \/ Release(a) \/ CloserFails(a)
      PROVE  UNCHANGED rows
  BY <1>1 DEF ClaimResume, ClaimUndo, Heartbeat, HeartbeatFails, CloseStatus, Release,
     CloserFails, Claim, db, ts, memory, history
<1>2. ASSUME NEW a \in Attempt, Load(a) \/ List(a) \/ AllRowsDone(a) \/ SkipDeleted(a)
             \/ StartRow(a) \/ IdentifyFound(a) \/ IdentifyNone(a) \/
             IdentifyConflict(a)
      PROVE  UNCHANGED rows
  BY <1>2 DEF Load, List, AllRowsDone, SkipDeleted, StartRow, IdentifyFound,
     IdentifyNone, IdentifyConflict, db, ts, memory, history
<1>3. ASSUME NEW a \in Attempt, OrderCreate(a) \/ StoreImage(a) \/ SaveImage(a) \/
             PointChannel(a) \/ OrderDelete(a)
      PROVE  UNCHANGED rows
  BY <1>3 DEF OrderCreate, StoreImage, SaveImage, PointChannel, OrderDelete, db, ts,
     memory, history
<1>4. ASSUME NEW a \in Attempt, LeaseLost(a) \/ StepRejected(a) \/ StepFails(a) \/
             CatchUndo(a) \/ Stop(a) \/ Crash(a)
      PROVE  UNCHANGED rows
  BY <1>4 DEF LeaseLost, StepRejected, StepFails, CatchUndo, Stop, Crash, db, ts,
     memory, history
<1>5. ASSUME NEW a \in Attempt, ExecCreate(a) \/ CreateUnseen(a) \/ ExecEdit(a) \/
             ExecDelete(a) \/ Refuse(a) \/ Vanish(a)
      PROVE  UNCHANGED rows
  BY <1>5 DEF ExecCreate, CreateUnseen, ExecEdit, ExecDelete, Refuse, Vanish, db, ts,
     memory, history
<1>6. ASSUME LeaseExpires \/ LeaseStalls \/ Occupy \/ Vacate \/ Tamper \/ Readdress \/ Remove \/
             DeleteImage
      PROVE  UNCHANGED rows
  BY <1>6 DEF LeaseExpires, LeaseStalls, Occupy, Vacate, Tamper, Readdress, Remove, DeleteImage,
     db, ts, memory, history
<1> QED
  BY <1>1, <1>2, <1>3, <1>4, <1>5, <1>6 DEF vars, db, ts, memory, history,
     Next, NextAlone, Body, Closer, Server, Failure, Outsiders

\* The status of the run is written by a claim and by the end of an attempt.
LEMMA StatusFrame ==
  ASSUME [Next]_vars
  PROVE  \/ status' = status
         \/ \E a \in Attempt : ClaimResume(a) \/ ClaimUndo(a) \/ CloseStatus(a)
<1>1. ASSUME NEW a \in Attempt, Heartbeat(a) \/ HeartbeatFails(a) \/ Release(a) \/
             CloserFails(a)
      PROVE  UNCHANGED status
  BY <1>1 DEF Heartbeat, HeartbeatFails, Release, CloserFails, db, ts, memory, history
<1>2. ASSUME NEW a \in Attempt, Load(a) \/ List(a) \/ AllRowsDone(a) \/ SkipDeleted(a)
             \/ StartRow(a) \/ IdentifyFound(a) \/ IdentifyNone(a) \/
             IdentifyConflict(a)
      PROVE  UNCHANGED status
  BY <1>2 DEF Load, List, AllRowsDone, SkipDeleted, StartRow, IdentifyFound,
     IdentifyNone, IdentifyConflict, db, ts, memory, history
<1>3. ASSUME NEW a \in Attempt, IntendCreate(a) \/ OrderCreate(a) \/ RecordCid(a) \/
             StoreImage(a) \/ SaveImage(a) \/ PointChannel(a) \/ FinishRow(a) \/
             IntendDelete(a) \/ OrderDelete(a) \/ EraseRow(a)
      PROVE  UNCHANGED status
  BY <1>3 DEF IntendCreate, OrderCreate, RecordCid, StoreImage, SaveImage,
     PointChannel, FinishRow, IntendDelete, OrderDelete, EraseRow, db, ts, memory,
     history
<1>4. ASSUME NEW a \in Attempt, LeaseLost(a) \/ StepRejected(a) \/ StepFails(a) \/
             CatchResume(a) \/ CatchUndo(a) \/ Stop(a) \/ Crash(a)
      PROVE  UNCHANGED status
  BY <1>4 DEF LeaseLost, StepRejected, StepFails, CatchResume, CatchUndo, Stop, Crash,
     db, ts, memory, history
<1>5. ASSUME NEW a \in Attempt, ExecCreate(a) \/ CreateUnseen(a) \/ ExecEdit(a) \/
             ExecDelete(a) \/ Refuse(a) \/ Vanish(a)
      PROVE  UNCHANGED status
  BY <1>5 DEF ExecCreate, CreateUnseen, ExecEdit, ExecDelete, Refuse, Vanish, db, ts,
     memory, history
<1>6. ASSUME LeaseExpires \/ LeaseStalls \/ Occupy \/ Vacate \/ Tamper \/ Readdress \/ Remove \/
             DeleteImage
      PROVE  UNCHANGED status
  BY <1>6 DEF LeaseExpires, LeaseStalls, Occupy, Vacate, Tamper, Readdress, Remove, DeleteImage,
     db, ts, memory, history
<1> QED
  BY <1>1, <1>2, <1>3, <1>4, <1>5, <1>6 DEF vars, db, ts, memory, history,
     Next, NextAlone, Body, Closer, Server, Failure, Outsiders

\* The token is written by a claim and by its release alone.
LEMMA TokenFrame ==
  ASSUME [Next]_vars
  PROVE  \/ token' = token
         \/ \E a \in Attempt : ClaimResume(a) \/ ClaimUndo(a) \/ Release(a)
<1>1. ASSUME NEW a \in Attempt, Heartbeat(a) \/ HeartbeatFails(a) \/ CloseStatus(a) \/
             CloserFails(a)
      PROVE  UNCHANGED token
  BY <1>1 DEF Heartbeat, HeartbeatFails, CloseStatus, CloserFails, db, ts, memory,
     history
<1>2. ASSUME NEW a \in Attempt, Load(a) \/ List(a) \/ AllRowsDone(a) \/ SkipDeleted(a)
             \/ StartRow(a) \/ IdentifyFound(a) \/ IdentifyNone(a) \/
             IdentifyConflict(a)
      PROVE  UNCHANGED token
  BY <1>2 DEF Load, List, AllRowsDone, SkipDeleted, StartRow, IdentifyFound,
     IdentifyNone, IdentifyConflict, db, ts, memory, history
<1>3. ASSUME NEW a \in Attempt, IntendCreate(a) \/ OrderCreate(a) \/ RecordCid(a) \/
             StoreImage(a) \/ SaveImage(a) \/ PointChannel(a) \/ FinishRow(a) \/
             IntendDelete(a) \/ OrderDelete(a) \/ EraseRow(a)
      PROVE  UNCHANGED token
  BY <1>3 DEF IntendCreate, OrderCreate, RecordCid, StoreImage, SaveImage,
     PointChannel, FinishRow, IntendDelete, OrderDelete, EraseRow, db, ts, memory,
     history
<1>4. ASSUME NEW a \in Attempt, LeaseLost(a) \/ StepRejected(a) \/ StepFails(a) \/
             CatchResume(a) \/ CatchUndo(a) \/ Stop(a) \/ Crash(a)
      PROVE  UNCHANGED token
  BY <1>4 DEF LeaseLost, StepRejected, StepFails, CatchResume, CatchUndo, Stop, Crash,
     db, ts, memory, history
<1>5. ASSUME NEW a \in Attempt, ExecCreate(a) \/ CreateUnseen(a) \/ ExecEdit(a) \/
             ExecDelete(a) \/ Refuse(a) \/ Vanish(a)
      PROVE  UNCHANGED token
  BY <1>5 DEF ExecCreate, CreateUnseen, ExecEdit, ExecDelete, Refuse, Vanish, db, ts,
     memory, history
<1>6. ASSUME LeaseExpires \/ LeaseStalls \/ Occupy \/ Vacate \/ Tamper \/ Readdress \/ Remove \/
             DeleteImage
      PROVE  UNCHANGED token
  BY <1>6 DEF LeaseExpires, LeaseStalls, Occupy, Vacate, Tamper, Readdress, Remove, DeleteImage,
     db, ts, memory, history
<1> QED
  BY <1>1, <1>2, <1>3, <1>4, <1>5, <1>6 DEF vars, db, ts, memory, history,
     Next, NextAlone, Body, Closer, Server, Failure, Outsiders

\* An image is stored by an attempt, and taken by an undo or an outsider.
LEMMA ImageFrame ==
  ASSUME [Next]_vars
  PROVE  \/ images' = images
         \/ \E a \in Attempt : SaveImage(a) \/ EraseRow(a)
         \/ DeleteImage
<1>1. ASSUME NEW a \in Attempt, ClaimResume(a) \/ ClaimUndo(a) \/ Heartbeat(a) \/
             HeartbeatFails(a) \/ CloseStatus(a) \/ Release(a) \/ CloserFails(a)
      PROVE  UNCHANGED images
  BY <1>1 DEF ClaimResume, ClaimUndo, Heartbeat, HeartbeatFails, CloseStatus, Release,
     CloserFails, Claim, db, ts, memory, history
<1>2. ASSUME NEW a \in Attempt, Load(a) \/ List(a) \/ AllRowsDone(a) \/ SkipDeleted(a)
             \/ StartRow(a) \/ IdentifyFound(a) \/ IdentifyNone(a) \/
             IdentifyConflict(a)
      PROVE  UNCHANGED images
  BY <1>2 DEF Load, List, AllRowsDone, SkipDeleted, StartRow, IdentifyFound,
     IdentifyNone, IdentifyConflict, db, ts, memory, history
<1>3. ASSUME NEW a \in Attempt, IntendCreate(a) \/ OrderCreate(a) \/ RecordCid(a) \/
             StoreImage(a) \/ PointChannel(a) \/ FinishRow(a) \/ IntendDelete(a) \/
             OrderDelete(a)
      PROVE  UNCHANGED images
  BY <1>3 DEF IntendCreate, OrderCreate, RecordCid, StoreImage, PointChannel,
     FinishRow, IntendDelete, OrderDelete, db, ts, memory, history
<1>4. ASSUME NEW a \in Attempt, LeaseLost(a) \/ StepRejected(a) \/ StepFails(a) \/
             CatchResume(a) \/ CatchUndo(a) \/ Stop(a) \/ Crash(a)
      PROVE  UNCHANGED images
  BY <1>4 DEF LeaseLost, StepRejected, StepFails, CatchResume, CatchUndo, Stop, Crash,
     db, ts, memory, history
<1>5. ASSUME NEW a \in Attempt, ExecCreate(a) \/ CreateUnseen(a) \/ ExecEdit(a) \/
             ExecDelete(a) \/ Refuse(a) \/ Vanish(a)
      PROVE  UNCHANGED images
  BY <1>5 DEF ExecCreate, CreateUnseen, ExecEdit, ExecDelete, Refuse, Vanish, db, ts,
     memory, history
<1>6. ASSUME LeaseExpires \/ LeaseStalls \/ Occupy \/ Vacate \/ Tamper \/ Readdress \/ Remove
      PROVE  UNCHANGED images
  BY <1>6 DEF LeaseExpires, LeaseStalls, Occupy, Vacate, Tamper, Readdress, Remove, db, ts,
     memory, history
<1> QED
  BY <1>1, <1>2, <1>3, <1>4, <1>5, <1>6 DEF vars, db, ts, memory, history,
     Next, NextAlone, Body, Closer, Server, Failure, Outsiders

\* The channels are the server's; an attempt never changes them itself.
LEMMA ChannelFrame ==
  ASSUME [Next]_vars
  PROVE  \/ UNCHANGED <<channels, nextCid>>
         \/ \E a \in Attempt : Born(a) \/ ExecEdit(a) \/ ExecDelete(a)
         \/ Occupy \/ Vacate \/ Tamper \/ Readdress \/ Remove
<1>1. ASSUME NEW a \in Attempt, ClaimResume(a) \/ ClaimUndo(a) \/ Heartbeat(a) \/
             HeartbeatFails(a) \/ CloseStatus(a) \/ Release(a) \/ CloserFails(a)
      PROVE  UNCHANGED <<channels, nextCid>>
  BY <1>1 DEF ClaimResume, ClaimUndo, Heartbeat, HeartbeatFails, CloseStatus, Release,
     CloserFails, Claim, db, ts, memory, history
<1>2. ASSUME NEW a \in Attempt, Load(a) \/ List(a) \/ AllRowsDone(a) \/ SkipDeleted(a)
             \/ StartRow(a) \/ IdentifyFound(a) \/ IdentifyNone(a) \/
             IdentifyConflict(a)
      PROVE  UNCHANGED <<channels, nextCid>>
  BY <1>2 DEF Load, List, AllRowsDone, SkipDeleted, StartRow, IdentifyFound,
     IdentifyNone, IdentifyConflict, db, ts, memory, history
<1>3. ASSUME NEW a \in Attempt, IntendCreate(a) \/ OrderCreate(a) \/ RecordCid(a) \/
             StoreImage(a) \/ SaveImage(a) \/ PointChannel(a) \/ FinishRow(a) \/
             IntendDelete(a) \/ OrderDelete(a) \/ EraseRow(a)
      PROVE  UNCHANGED <<channels, nextCid>>
  BY <1>3 DEF IntendCreate, OrderCreate, RecordCid, StoreImage, SaveImage,
     PointChannel, FinishRow, IntendDelete, OrderDelete, EraseRow, db, ts, memory,
     history
<1>4. ASSUME NEW a \in Attempt, LeaseLost(a) \/ StepRejected(a) \/ StepFails(a) \/
             CatchResume(a) \/ CatchUndo(a) \/ Stop(a) \/ Crash(a)
      PROVE  UNCHANGED <<channels, nextCid>>
  BY <1>4 DEF LeaseLost, StepRejected, StepFails, CatchResume, CatchUndo, Stop, Crash,
     db, ts, memory, history
<1>5. ASSUME NEW a \in Attempt, Refuse(a) \/ Vanish(a)
      PROVE  UNCHANGED <<channels, nextCid>>
  BY <1>5 DEF Refuse, Vanish, db, ts, memory, history
<1>6. ASSUME LeaseExpires \/ LeaseStalls \/ DeleteImage
      PROVE  UNCHANGED <<channels, nextCid>>
  BY <1>6 DEF LeaseExpires, LeaseStalls, DeleteImage, db, ts, memory, history
<1> QED
  BY <1>1, <1>2, <1>3, <1>4, <1>5, <1>6 DEF Born, vars, db, ts, memory, history,
     Next, NextAlone, Body, Closer, Server, Failure, Outsiders

\* A row is ordered by a channelcreate.
LEMMA OrderedFrame ==
  ASSUME [Next]_vars
  PROVE  \/ ordered' = ordered
         \/ \E a \in Attempt : OrderCreate(a)
<1>1. ASSUME NEW a \in Attempt, ClaimResume(a) \/ ClaimUndo(a) \/ Heartbeat(a) \/
             HeartbeatFails(a) \/ CloseStatus(a) \/ Release(a) \/ CloserFails(a)
      PROVE  UNCHANGED ordered
  BY <1>1 DEF ClaimResume, ClaimUndo, Heartbeat, HeartbeatFails, CloseStatus, Release,
     CloserFails, Claim, db, ts, memory, history
<1>2. ASSUME NEW a \in Attempt, Load(a) \/ List(a) \/ AllRowsDone(a) \/ SkipDeleted(a)
             \/ StartRow(a) \/ IdentifyFound(a) \/ IdentifyNone(a) \/
             IdentifyConflict(a)
      PROVE  UNCHANGED ordered
  BY <1>2 DEF Load, List, AllRowsDone, SkipDeleted, StartRow, IdentifyFound,
     IdentifyNone, IdentifyConflict, db, ts, memory, history
<1>3. ASSUME NEW a \in Attempt, IntendCreate(a) \/ RecordCid(a) \/ StoreImage(a) \/
             SaveImage(a) \/ PointChannel(a) \/ FinishRow(a) \/ IntendDelete(a) \/
             OrderDelete(a) \/ EraseRow(a)
      PROVE  UNCHANGED ordered
  BY <1>3 DEF IntendCreate, RecordCid, StoreImage, SaveImage, PointChannel, FinishRow,
     IntendDelete, OrderDelete, EraseRow, db, ts, memory, history
<1>4. ASSUME NEW a \in Attempt, LeaseLost(a) \/ StepRejected(a) \/ StepFails(a) \/
             CatchResume(a) \/ CatchUndo(a) \/ Stop(a) \/ Crash(a)
      PROVE  UNCHANGED ordered
  BY <1>4 DEF LeaseLost, StepRejected, StepFails, CatchResume, CatchUndo, Stop, Crash,
     db, ts, memory, history
<1>5. ASSUME NEW a \in Attempt, ExecCreate(a) \/ CreateUnseen(a) \/ ExecEdit(a) \/
             ExecDelete(a) \/ Refuse(a) \/ Vanish(a)
      PROVE  UNCHANGED ordered
  BY <1>5 DEF ExecCreate, CreateUnseen, ExecEdit, ExecDelete, Refuse, Vanish, db, ts,
     memory, history
<1>6. ASSUME LeaseExpires \/ LeaseStalls \/ Occupy \/ Vacate \/ Tamper \/ Readdress \/ Remove \/
             DeleteImage
      PROVE  UNCHANGED ordered
  BY <1>6 DEF LeaseExpires, LeaseStalls, Occupy, Vacate, Tamper, Readdress, Remove, DeleteImage,
     db, ts, memory, history
<1> QED
  BY <1>1, <1>2, <1>3, <1>4, <1>5, <1>6 DEF vars, db, ts, memory, history,
     Next, NextAlone, Body, Closer, Server, Failure, Outsiders

\* What outsiders touch.
LEMMA MeddledFrame ==
  ASSUME [Next]_vars
  PROVE  \/ meddled' = meddled
         \/ Tamper \/ Readdress \/ Remove \/ DeleteImage
<1>1. ASSUME NEW a \in Attempt, ClaimResume(a) \/ ClaimUndo(a) \/ Heartbeat(a) \/
             HeartbeatFails(a) \/ CloseStatus(a) \/ Release(a) \/ CloserFails(a)
      PROVE  UNCHANGED meddled
  BY <1>1 DEF ClaimResume, ClaimUndo, Heartbeat, HeartbeatFails, CloseStatus, Release,
     CloserFails, Claim, db, ts, memory, history
<1>2. ASSUME NEW a \in Attempt, Load(a) \/ List(a) \/ AllRowsDone(a) \/ SkipDeleted(a)
             \/ StartRow(a) \/ IdentifyFound(a) \/ IdentifyNone(a) \/
             IdentifyConflict(a)
      PROVE  UNCHANGED meddled
  BY <1>2 DEF Load, List, AllRowsDone, SkipDeleted, StartRow, IdentifyFound,
     IdentifyNone, IdentifyConflict, db, ts, memory, history
<1>3. ASSUME NEW a \in Attempt, IntendCreate(a) \/ OrderCreate(a) \/ RecordCid(a) \/
             StoreImage(a) \/ SaveImage(a) \/ PointChannel(a) \/ FinishRow(a) \/
             IntendDelete(a) \/ OrderDelete(a) \/ EraseRow(a)
      PROVE  UNCHANGED meddled
  BY <1>3 DEF IntendCreate, OrderCreate, RecordCid, StoreImage, SaveImage,
     PointChannel, FinishRow, IntendDelete, OrderDelete, EraseRow, db, ts, memory,
     history
<1>4. ASSUME NEW a \in Attempt, LeaseLost(a) \/ StepRejected(a) \/ StepFails(a) \/
             CatchResume(a) \/ CatchUndo(a) \/ Stop(a) \/ Crash(a)
      PROVE  UNCHANGED meddled
  BY <1>4 DEF LeaseLost, StepRejected, StepFails, CatchResume, CatchUndo, Stop, Crash,
     db, ts, memory, history
<1>5. ASSUME NEW a \in Attempt, ExecCreate(a) \/ CreateUnseen(a) \/ ExecEdit(a) \/
             ExecDelete(a) \/ Refuse(a) \/ Vanish(a)
      PROVE  UNCHANGED meddled
  BY <1>5 DEF ExecCreate, CreateUnseen, ExecEdit, ExecDelete, Refuse, Vanish, db, ts,
     memory, history
<1>6. ASSUME LeaseExpires \/ LeaseStalls \/ Occupy \/ Vacate
      PROVE  UNCHANGED meddled
  BY <1>6 DEF LeaseExpires, LeaseStalls, Occupy, Vacate, db, ts, memory, history
<1> QED
  BY <1>1, <1>2, <1>3, <1>4, <1>5, <1>6 DEF vars, db, ts, memory, history,
     Next, NextAlone, Body, Closer, Server, Failure, Outsiders

\* An attempt sends three commands; all the rest answers them.
LEMMA CommandFrame ==
  ASSUME TypeInv, [Next]_vars, NEW b \in Attempt
  PROVE  \/ cmd'[b] \in {cmd[b], NoCommand}
         \/ OrderCreate(b) \/ PointChannel(b) \/ OrderDelete(b)
<1> USE DEF TypeInv, TypeOK, ServerTypeOK
<1> DEFINE Goal == \/ cmd'[b] \in {cmd[b], NoCommand}
                   \/ OrderCreate(b) \/ PointChannel(b) \/ OrderDelete(b)
<1>1. ASSUME NEW a \in Attempt, ClaimResume(a) \/ ClaimUndo(a) \/ Heartbeat(a) \/
             HeartbeatFails(a) \/ CloseStatus(a) \/ Release(a) \/ CloserFails(a)
      PROVE  Goal
  BY <1>1 DEF ClaimResume, ClaimUndo, Heartbeat, HeartbeatFails, CloseStatus, Release,
     CloserFails, Claim, Answered, OrderCreate, PointChannel, OrderDelete, Send, db,
     ts, memory, history
<1>2. ASSUME NEW a \in Attempt, Load(a) \/ List(a) \/ AllRowsDone(a) \/ SkipDeleted(a)
             \/ StartRow(a) \/ IdentifyFound(a) \/ IdentifyNone(a) \/
             IdentifyConflict(a)
      PROVE  Goal
  BY <1>2 DEF Load, List, AllRowsDone, SkipDeleted, StartRow, IdentifyFound,
     IdentifyNone, IdentifyConflict, Answered, OrderCreate, PointChannel, OrderDelete,
     Send, db, ts, memory, history
<1>3. ASSUME NEW a \in Attempt, IntendCreate(a) \/ OrderCreate(a) \/ RecordCid(a) \/
             StoreImage(a) \/ SaveImage(a) \/ PointChannel(a) \/ FinishRow(a) \/
             IntendDelete(a) \/ OrderDelete(a) \/ EraseRow(a)
      PROVE  Goal
  BY <1>3 DEF IntendCreate, OrderCreate, RecordCid, StoreImage, SaveImage,
     PointChannel, FinishRow, IntendDelete, OrderDelete, EraseRow, Answered,
     OrderCreate, PointChannel, OrderDelete, Send, db, ts, memory, history
<1>4. ASSUME NEW a \in Attempt, LeaseLost(a) \/ StepRejected(a) \/ StepFails(a) \/
             CatchResume(a) \/ CatchUndo(a) \/ Stop(a) \/ Crash(a)
      PROVE  Goal
  BY <1>4 DEF LeaseLost, StepRejected, StepFails, CatchResume, CatchUndo, Stop, Crash,
     Answered, OrderCreate, PointChannel, OrderDelete, Send, db, ts, memory, history
<1>5. ASSUME NEW a \in Attempt, ExecCreate(a) \/ CreateUnseen(a) \/ ExecEdit(a) \/
             ExecDelete(a) \/ Refuse(a) \/ Vanish(a)
      PROVE  Goal
  BY <1>5 DEF ExecCreate, CreateUnseen, ExecEdit, ExecDelete, Refuse, Vanish,
     Answered, OrderCreate, PointChannel, OrderDelete, Send, db, ts, memory, history
<1>6. ASSUME LeaseExpires \/ LeaseStalls \/ Occupy \/ Vacate \/ Tamper \/ Readdress \/ Remove \/
             DeleteImage
      PROVE  Goal
  BY <1>6 DEF LeaseExpires, LeaseStalls, Occupy, Vacate, Tamper, Readdress, Remove, DeleteImage,
     Answered, OrderCreate, PointChannel, OrderDelete, Send, db, ts, memory, history
<1>7. ASSUME UNCHANGED vars PROVE Goal
  BY <1>7 DEF vars, db, ts, memory, history
<1> QED
  BY <1>1, <1>2, <1>3, <1>4, <1>5, <1>6, <1>7 DEF Next, NextAlone, Body, Closer,
     Server, Failure, Outsiders

\* The rows in memory are loaded, found, written or created.
LEMMA LocalFrame ==
  ASSUME TypeInv, [Next]_vars, NEW b \in Attempt
  PROVE  \/ local'[b] \in {local[b], NoRows}
         \/ Load(b) \/ IdentifyFound(b) \/ IntendCreate(b) \/ FinishRow(b) \/ ExecCreate(b)
<1> USE DEF TypeInv, TypeOK, MemoryTypeOK
<1> DEFINE Goal == \/ local'[b] \in {local[b], NoRows}
                   \/ Load(b) \/ IdentifyFound(b) \/ IntendCreate(b) \/ FinishRow(b) \/ ExecCreate(b)
<1>1. ASSUME NEW a \in Attempt, ClaimResume(a) \/ ClaimUndo(a) \/ Heartbeat(a) \/
             HeartbeatFails(a) \/ CloseStatus(a) \/ Release(a) \/ CloserFails(a)
      PROVE  Goal
  BY <1>1 DEF ClaimResume, ClaimUndo, Heartbeat, HeartbeatFails, CloseStatus, Release,
     CloserFails, Claim, BodyEnds, db, ts, memory, history
<1>2. ASSUME NEW a \in Attempt, Load(a) \/ List(a) \/ AllRowsDone(a) \/ SkipDeleted(a)
             \/ StartRow(a) \/ IdentifyFound(a) \/ IdentifyNone(a) \/
             IdentifyConflict(a)
      PROVE  Goal
  BY <1>2 DEF Load, List, AllRowsDone, SkipDeleted, StartRow, IdentifyFound,
     IdentifyNone, IdentifyConflict, BodyEnds, db, ts, memory, history
<1>3. ASSUME NEW a \in Attempt, IntendCreate(a) \/ OrderCreate(a) \/ RecordCid(a) \/
             StoreImage(a) \/ SaveImage(a) \/ PointChannel(a) \/ FinishRow(a) \/
             IntendDelete(a) \/ OrderDelete(a) \/ EraseRow(a)
      PROVE  Goal
  BY <1>3 DEF IntendCreate, OrderCreate, RecordCid, StoreImage, SaveImage,
     PointChannel, FinishRow, IntendDelete, OrderDelete, EraseRow, BodyEnds, db, ts,
     memory, history
<1>4. ASSUME NEW a \in Attempt, LeaseLost(a) \/ StepRejected(a) \/ StepFails(a) \/
             CatchResume(a) \/ CatchUndo(a) \/ Stop(a) \/ Crash(a)
      PROVE  Goal
  BY <1>4 DEF LeaseLost, StepRejected, StepFails, CatchResume, CatchUndo, Stop, Crash,
     BodyEnds, db, ts, memory, history
<1>5. ASSUME NEW a \in Attempt, ExecCreate(a) \/ CreateUnseen(a) \/ ExecEdit(a) \/
             ExecDelete(a) \/ Refuse(a) \/ Vanish(a)
      PROVE  Goal
  BY <1>5 DEF ExecCreate, CreateUnseen, ExecEdit, ExecDelete, Refuse, Vanish,
     BodyEnds, db, ts, memory, history
<1>6. ASSUME LeaseExpires \/ LeaseStalls \/ Occupy \/ Vacate \/ Tamper \/ Readdress \/ Remove \/
             DeleteImage
      PROVE  Goal
  BY <1>6 DEF LeaseExpires, LeaseStalls, Occupy, Vacate, Tamper, Readdress, Remove, DeleteImage,
     BodyEnds, db, ts, memory, history
<1>7. ASSUME UNCHANGED vars PROVE Goal
  BY <1>7 DEF vars, db, ts, memory, history
<1> QED
  BY <1>1, <1>2, <1>3, <1>4, <1>5, <1>6, <1>7 DEF Next, NextAlone, Body, Closer,
     Server, Failure, Outsiders

\* The list in memory is read once; creations are added, deletions taken out.
LEMMA SnapFrame ==
  ASSUME TypeInv, [Next]_vars, NEW b \in Attempt
  PROVE  \/ snap'[b] \subseteq snap[b]
         \/ List(b) \/ ExecCreate(b)
<1> USE DEF TypeInv, TypeOK, MemoryTypeOK
<1> DEFINE Goal == \/ snap'[b] \subseteq snap[b]
                   \/ List(b) \/ ExecCreate(b)
<1>1. ASSUME NEW a \in Attempt, ClaimResume(a) \/ ClaimUndo(a) \/ Heartbeat(a) \/
             HeartbeatFails(a) \/ CloseStatus(a) \/ Release(a) \/ CloserFails(a)
      PROVE  Goal
  BY <1>1 DEF ClaimResume, ClaimUndo, Heartbeat, HeartbeatFails, CloseStatus, Release,
     CloserFails, Claim, BodyEnds, db, ts, memory, history
<1>2. ASSUME NEW a \in Attempt, Load(a) \/ List(a) \/ AllRowsDone(a) \/ SkipDeleted(a)
             \/ StartRow(a) \/ IdentifyFound(a) \/ IdentifyNone(a) \/
             IdentifyConflict(a)
      PROVE  Goal
  BY <1>2 DEF Load, List, AllRowsDone, SkipDeleted, StartRow, IdentifyFound,
     IdentifyNone, IdentifyConflict, BodyEnds, db, ts, memory, history
<1>3. ASSUME NEW a \in Attempt, IntendCreate(a) \/ OrderCreate(a) \/ RecordCid(a) \/
             StoreImage(a) \/ SaveImage(a) \/ PointChannel(a) \/ FinishRow(a) \/
             IntendDelete(a) \/ OrderDelete(a) \/ EraseRow(a)
      PROVE  Goal
  BY <1>3 DEF IntendCreate, OrderCreate, RecordCid, StoreImage, SaveImage,
     PointChannel, FinishRow, IntendDelete, OrderDelete, EraseRow, BodyEnds, db, ts,
     memory, history
<1>4. ASSUME NEW a \in Attempt, LeaseLost(a) \/ StepRejected(a) \/ StepFails(a) \/
             CatchResume(a) \/ CatchUndo(a) \/ Stop(a) \/ Crash(a)
      PROVE  Goal
  BY <1>4 DEF LeaseLost, StepRejected, StepFails, CatchResume, CatchUndo, Stop, Crash,
     BodyEnds, db, ts, memory, history
<1>5. ASSUME NEW a \in Attempt, ExecCreate(a) \/ CreateUnseen(a) \/ ExecEdit(a) \/
             ExecDelete(a) \/ Refuse(a) \/ Vanish(a)
      PROVE  Goal
  BY <1>5 DEF ExecCreate, CreateUnseen, ExecEdit, ExecDelete, Refuse, Vanish,
     BodyEnds, db, ts, memory, history
<1>6. ASSUME LeaseExpires \/ LeaseStalls \/ Occupy \/ Vacate \/ Tamper \/ Readdress \/ Remove \/
             DeleteImage
      PROVE  Goal
  BY <1>6 DEF LeaseExpires, LeaseStalls, Occupy, Vacate, Tamper, Readdress, Remove, DeleteImage,
     BodyEnds, db, ts, memory, history
<1>7. ASSUME UNCHANGED vars PROVE Goal
  BY <1>7 DEF vars, db, ts, memory, history
<1> QED
  BY <1>1, <1>2, <1>3, <1>4, <1>5, <1>6, <1>7 DEF Next, NextAlone, Body, Closer,
     Server, Failure, Outsiders

-----------------------------------------------------------------------------
(* Why every channel of the run can be found again *)

\* The command an attempt waits for is about the row in hand.
Commanded ==
  \A a \in Attempt : pc[a] = "await" =>
    /\ cmd[a].op \in {"create", "edit", "delete"}
    /\ cmd[a].row = at[a]
    /\ cmd[a].op \in {"edit", "delete"} => cmd[a].cid = Mine(a).cid

\* Somebody takes c for the channel of row r: the server, the database, or the
\* memory or the list of an attempt, however old.
Claimed(r, c) ==
  \/ \E ch \in channels : ch.row = r /\ ch.cid = c
  \/ rows[r].cid = c
  \/ \E a \in Attempt : local[a][r].cid = c
  \/ \E a \in Attempt : \E ch \in snap[a] : ch.row = r /\ ch.cid = c

\* All of them agree: a row has one channel in its whole life, and a channel one
\* row.
OneCid ==
  \A r \in Row, c \in Cid : Claimed(r, c) =>
    /\ c < nextCid
    /\ r \in ordered
    /\ \A s \in Row, d \in Cid : Claimed(s, d) => (r = s <=> c = d)

\* A channelcreate on its way is the only one for its row, which has no channel.
Unanswered ==
  \A a \in Attempt : cmd[a].op = "create" =>
    /\ cmd[a].row \in ordered
    /\ \A c \in Cid : ~Claimed(cmd[a].row, c)
    /\ \A b \in Attempt : cmd[b].op = "create" /\ cmd[b].row = cmd[a].row => b = a

\* Only a channel on record is pointed at its image.
EditsRecorded ==
  \A a \in Attempt : cmd[a].op = "edit" =>
    cmd[a].cid # NoCid /\ rows[cmd[a].row].cid = cmd[a].cid
UrlRecorded ==
  \A ch \in channels : ch.url # "run" /\ ~ch.rewritten => rows[ch.row].cid = ch.cid

TraceInv ==
  CreateInv /\ Commanded /\ OneCid /\ Unanswered /\ EditsRecorded /\ UrlRecorded

\* A step that sends no command leaves the set of channels alone, but for
\* creations and deletions: no channel changes its cid or its row, and its URL
\* is changed by the run's edits and by outsiders only.
LEMMA ChannelsKept ==
  ASSUME TypeInv, [Next]_vars, NEW ch \in channels'
  PROVE  \/ \E old \in channels :
              /\ old.row = ch.row /\ old.cid = ch.cid
              /\ \/ old.url = ch.url /\ old.rewritten = ch.rewritten
                 \/ ch.rewritten
                 \/ \E a \in Attempt : ExecEdit(a) /\ cmd[a].cid = ch.cid
         \/ \E a \in Attempt : /\ Born(a)
                               /\ ch.row = cmd[a].row /\ ch.cid = nextCid /\ ch.url = "run"
<1> DEFINE Old == \E old \in channels :
                    /\ old.row = ch.row /\ old.cid = ch.cid
                    /\ \/ old.url = ch.url /\ old.rewritten = ch.rewritten
                       \/ ch.rewritten
                       \/ \E a \in Attempt : ExecEdit(a) /\ cmd[a].cid = ch.cid
           New(a) == ch.row = cmd[a].row /\ ch.cid = nextCid /\ ch.url = "run"
<1>t. \A old \in channels : old \in Channel
  BY DEF TypeInv, TypeOK, ServerTypeOK
<1>1. ASSUME NEW a \in Attempt, Born(a) PROVE Old \/ New(a)
  <2>1. channels' = channels \cup {NewChannel(a)}
    BY <1>1 DEF Born, ExecCreate, CreateUnseen
  <2>2. CASE ch \in channels
    BY <2>2
  <2>3. CASE ch = NewChannel(a)
    BY <2>3 DEF NewChannel
  <2> QED
    BY <2>1, <2>2, <2>3
<1>2. ASSUME NEW a \in Attempt, ExecEdit(a) PROVE Old
  <2>1. PICK old \in channels : ch = IF old.cid = cmd[a].cid THEN [old EXCEPT !.url = "id"] ELSE old
    BY <1>2 DEF ExecEdit
  <2>2. /\ old.row = ch.row /\ old.cid = ch.cid
        /\ \/ old.url = ch.url /\ old.rewritten = ch.rewritten
           \/ cmd[a].cid = ch.cid
    BY <1>t, <2>1 DEF Channel
  <2> QED
    BY <1>2, <2>2
<1>3. ASSUME NEW a \in Attempt, ExecDelete(a) PROVE Old
  BY <1>3 DEF ExecDelete
<1>4. ASSUME NEW old \in channels, NEW new, Replace(old, new),
             new.row = old.row, new.cid = old.cid,
             (new.url = old.url /\ new.rewritten = old.rewritten) \/ new.rewritten
      PROVE  Old
  BY <1>4 DEF Replace
<1>5. ASSUME Occupy PROVE Old
  <2>1. PICK old \in channels : Replace(old, [old EXCEPT !.busy = TRUE])
    BY <1>5 DEF Occupy
  <2> QED
    BY <1>t, <1>4, <2>1 DEF Channel
<1>6. ASSUME Vacate PROVE Old
  <2>1. PICK old \in channels : Replace(old, [old EXCEPT !.busy = FALSE])
    BY <1>6 DEF Vacate
  <2> QED
    BY <1>t, <1>4, <2>1 DEF Channel
<1>7. ASSUME Tamper PROVE Old
  <2>1. PICK old \in channels, how \in {"changed", "unmarked", "child"} :
          Replace(old, [old EXCEPT !.edit = how])
    BY <1>7 DEF Tamper
  <2> QED
    BY <1>t, <1>4, <2>1 DEF Channel
<1>8. ASSUME Readdress PROVE Old
  <2>1. PICK old \in channels, url \in {"id", "other"} :
          Replace(old, Rewritten(old, url))
    BY <1>8 DEF Readdress
  <2>2. LET new == Rewritten(old, url) IN
        new.row = old.row /\ new.cid = old.cid /\ new.rewritten
    BY <1>t, <2>1 DEF Rewritten, Channel
  <2> QED
    BY <1>4, <2>1, <2>2
<1>9. ASSUME Remove PROVE Old
  BY <1>9 DEF Remove
<1>10. ASSUME UNCHANGED channels PROVE Old
  BY <1>10
<1> QED
  BY ChannelFrame, <1>1, <1>2, <1>3, <1>5, <1>6, <1>7, <1>8, <1>9, <1>10

\* A cid written to a row is the one its attempt has in hand, and none only when
\* no channel was ever ordered for the row.
LEMMA RowsKept ==
  ASSUME CreateInv, [Next]_vars, NEW r \in Row
  PROVE  \/ rows'[r].cid = rows[r].cid
         \/ \E a \in Attempt : /\ token = a /\ r = at[a]
                               /\ rows'[r].cid = Mine(a).cid
                               /\ Mine(a).cid # NoCid \/ r \notin ordered
<1> USE DEF CreateInv, TypeInv, TypeOK, DatabaseTypeOK
<1>a. \A a \in Attempt : pc[a] \notin {"off", "load", "list", "row"} =>
         at[a] \in Row /\ Mine(a) \in RowRecord
  BY MineType DEF Positioned
<1>b. \A a \in Attempt : NeedsCid(a) => Mine(a).cid # NoCid
  BY DEF CidInHand
<1> DEFINE Goal == \/ rows'[r].cid = rows[r].cid
                   \/ \E a \in Attempt : /\ token = a /\ r = at[a]
                                         /\ rows'[r].cid = Mine(a).cid
                                         /\ Mine(a).cid # NoCid \/ r \notin ordered
<1>1. ASSUME NEW a \in Attempt, IntendCreate(a) PROVE Goal
  BY <1>1, <1>a DEF IntendCreate, RowRecord
<1>2. ASSUME NEW a \in Attempt, RecordCid(a) PROVE Goal
  <2>1. /\ at[a] \in Row /\ token = a /\ Mine(a).cid # NoCid
        /\ rows' = [rows EXCEPT ![at[a]] = Created(rows[at[a]], Mine(a).cid)]
    BY <1>2, <1>a, <1>b DEF RecordCid, Held, NeedsCid
  <2>2. Created(rows[at[a]], Mine(a).cid).cid = Mine(a).cid
    BY <2>1 DEF Created, RowRecord
  <2> QED
    BY <2>1, <2>2
<1>3. ASSUME NEW a \in Attempt, FinishRow(a) PROVE Goal
  BY <1>3, <1>a DEF FinishRow, RowRecord
<1>4. ASSUME NEW a \in Attempt, IntendDelete(a) PROVE Goal
  <2>1. /\ at[a] \in Row /\ token = a /\ Mine(a).cid # NoCid
        /\ rows' = [rows EXCEPT ![at[a]].cid = Mine(a).cid, ![at[a]].status = "deleting"]
    BY <1>4, <1>a, <1>b DEF IntendDelete, Held, NeedsCid
  <2>2. rows'[at[a]].cid = Mine(a).cid
    BY <2>1 DEF RowRecord
  <2> QED
    BY <2>1, <2>2
<1>5. ASSUME NEW a \in Attempt, EraseRow(a) PROVE Goal
  <2>1. /\ at[a] \in Row /\ token = a
        /\ rows' = [rows EXCEPT ![at[a]] =
                     [status |-> "deleted", cid |-> Mine(a).cid, prepared |-> FALSE]]
    BY <1>5, <1>a DEF EraseRow
  <2>2. Mine(a).cid = NoCid => at[a] \notin ordered
    BY <1>5, <2>1 DEF EraseRow, NotYetOrdered, Untouched
  <2> QED
    BY <2>1, <2>2
<1>6. ASSUME NEW a \in Attempt, CatchResume(a) PROVE Goal
  BY <1>6, <1>a DEF CatchResume, RowRecord
<1> QED
  BY RowFrame, <1>1, <1>2, <1>3, <1>4, <1>5, <1>6

\* A cid in memory was loaded from the row, found in the list, or is the answer
\* to a channelcreate.
LEMMA LocalKept ==
  ASSUME TypeInv, [Next]_vars, NEW b \in Attempt, NEW r \in Row
  PROVE  \/ local'[b][r].cid \in {local[b][r].cid, NoCid}
         \/ pc[b] = "load" /\ local'[b][r].cid = rows[r].cid
         \/ \E ch \in snap[b] : ch.row = r /\ ch.cid = local'[b][r].cid
         \/ ExecCreate(b) /\ Awaited(b) /\ r = at[b] /\ local'[b][r].cid = nextCid
<1> USE DEF TypeInv, TypeOK, MemoryTypeOK
<1>a. \A a \in Attempt : pc[a] \notin {"off", "load", "list", "row"} => at[a] \in Row
  BY DEF Positioned
<1>1. CASE Load(b)
  BY <1>1 DEF Load
<1>2. CASE IdentifyFound(b)
  <2>1. PICK ch \in Owned(b) : local' = [local EXCEPT ![b][at[b]].cid = ch.cid]
    BY <1>2 DEF IdentifyFound
  <2>2. at[b] \in Row
    BY <1>2, <1>a DEF IdentifyFound
  <2>3. local'[b][r].cid = IF r = at[b] THEN ch.cid ELSE local[b][r].cid
    BY <2>1, <2>2 DEF RowRecord
  <2>4. ch \in snap[b] /\ (ch.row = at[b] \/ ch.cid = local[b][at[b]].cid)
    BY DEF Owned, Candidates, Mine
  <2> QED
    BY <2>3, <2>4
<1>3. CASE IntendCreate(b)
  BY <1>3, <1>a DEF IntendCreate, RowRecord
<1>4. CASE FinishRow(b)
  BY <1>4, <1>a DEF FinishRow, RowRecord
<1>5. CASE ExecCreate(b)
  <2>1. CASE Awaited(b)
    <3>1. at[b] \in Row /\ local' = [local EXCEPT ![b][at[b]].cid = nextCid]
      BY <1>5, <1>a, <2>1 DEF ExecCreate, Awaited
    <3>2. local'[b][r].cid = IF r = at[b] THEN nextCid ELSE local[b][r].cid
      BY <3>1 DEF RowRecord
    <3> QED
      BY <1>5, <2>1, <3>2
  <2>2. CASE ~Awaited(b)
    BY <1>5, <2>2 DEF ExecCreate
  <2> QED
    BY <2>1, <2>2
<1>6. CASE local'[b] \in {local[b], NoRows}
  BY <1>6 DEF NoRows, FreshRow
<1> QED
  BY LocalFrame, <1>1, <1>2, <1>3, <1>4, <1>5, <1>6

LEMMA SnapKept ==
  ASSUME TypeInv, [Next]_vars, NEW b \in Attempt, NEW ch \in snap'[b]
  PROVE  \/ ch \in snap[b] \/ ch \in channels
         \/ ExecCreate(b) /\ ch = NewChannel(b)
<1> USE DEF TypeInv, TypeOK, MemoryTypeOK
<1>1. CASE List(b)
  BY <1>1 DEF List
<1>2. CASE ExecCreate(b)
  BY <1>2 DEF ExecCreate
<1> QED
  BY SnapFrame, <1>1, <1>2

\* Nothing but a creation brings a new cid into the world.
LEMMA ClaimStep ==
  ASSUME TraceInv, [Next]_vars, NEW r \in Row, NEW c \in Cid, Claimed(r, c)'
  PROVE  Claimed(r, c) \/ \E a \in Attempt : Born(a) /\ r = cmd[a].row /\ c = nextCid
<1> DEFINE Goal == Claimed(r, c) \/ \E a \in Attempt : Born(a) /\ r = cmd[a].row /\ c = nextCid
<1>t. TypeInv /\ CreateInv /\ c # NoCid
  BY DEF TraceInv, CreateInv, Cid, NoCid
<1>1. ASSUME NEW ch \in channels', ch.row = r, ch.cid = c PROVE Goal
  BY <1>1, <1>t, ChannelsKept DEF Claimed
<1>2. ASSUME rows'[r].cid = c PROVE Goal
  BY <1>2, <1>t, RowsKept DEF Claimed, Mine
<1>3. ASSUME NEW a \in Attempt, local'[a][r].cid = c PROVE Goal
  <2>1. CASE local'[a][r].cid = local[a][r].cid \/ local'[a][r].cid = rows[r].cid
    BY <1>3, <2>1 DEF Claimed
  <2>2. CASE \E ch \in snap[a] : ch.row = r /\ ch.cid = local'[a][r].cid
    BY <1>3, <2>2 DEF Claimed
  <2>3. CASE ExecCreate(a) /\ Awaited(a) /\ r = at[a] /\ local'[a][r].cid = nextCid
    BY <1>3, <2>3 DEF Born, Awaited, TraceInv, Commanded
  <2> QED
    BY <1>3, <1>t, <2>1, <2>2, <2>3, LocalKept
<1>4. ASSUME NEW a \in Attempt, NEW ch \in snap'[a], ch.row = r, ch.cid = c PROVE Goal
  <2>1. CASE ch \in snap[a] \/ ch \in channels
    BY <1>4, <2>1 DEF Claimed
  <2>2. CASE ExecCreate(a) /\ ch = NewChannel(a)
    BY <1>4, <2>2 DEF Born, NewChannel
  <2> QED
    BY <1>4, <1>t, <2>1, <2>2, SnapKept
<1> QED
  BY <1>1, <1>2, <1>3, <1>4 DEF Claimed

LEMMA CommandedStep == TraceInv /\ [Next]_vars => Commanded'
<1> SUFFICES ASSUME TraceInv, [Next]_vars PROVE Commanded'
  OBVIOUS
<1> USE RunAssumption DEF TraceInv, CreateInv, TypeInv, TypeOK, MemoryTypeOK,
        ServerTypeOK, Commanded
<1>p. \A a \in Attempt : pc[a] \notin {"off", "load", "list", "row"} =>
         at[a] \in Row /\ Mine(a) \in RowRecord
  BY MineType DEF Positioned
<1>1. ASSUME NEW a \in Attempt, OrderCreate(a) PROVE Commanded'
  BY <1>1, <1>p DEF OrderCreate, Send, Goto, Mine
<1>2. ASSUME NEW a \in Attempt, PointChannel(a) PROVE Commanded'
  BY <1>2, <1>p DEF PointChannel, Send, Goto, Mine
<1>3. ASSUME NEW a \in Attempt, OrderDelete(a) PROVE Commanded'
  BY <1>3, <1>p DEF OrderDelete, Send, Goto, Mine
<1>4. ASSUME NEW a \in Attempt, IdentifyFound(a) PROVE Commanded'
  BY <1>4 DEF IdentifyFound, Goto, Mine
<1>5. ASSUME NEW a \in Attempt, ClaimResume(a) \/ ClaimUndo(a) \/ Heartbeat(a) \/
             HeartbeatFails(a) \/ CloseStatus(a) \/ Release(a) \/ CloserFails(a)
      PROVE  Commanded'
  BY <1>5, SMTT(30) DEF ClaimResume, Claim, Free, Claimable, Goto, ClaimUndo,
     Heartbeat, Renew, HeartbeatFails, Fault, CloseStatus, FinalStatus, Release,
     CloserFails, Mine, NoCommand, db, ts, memory, history
<1>6. ASSUME NEW a \in Attempt, Load(a) \/ List(a) \/ AllRowsDone(a) \/ SkipDeleted(a)
             \/ StartRow(a) \/ IdentifyNone(a) \/ IdentifyConflict(a)
      PROVE  Commanded'
  BY <1>6, SMTT(30) DEF Load, Goto, List, AllRowsDone, BodyEnds, InRow, SkipDeleted,
     NextRow, StartRow, Renew, Held, IdentifyNone, IdentifyConflict, Mine, NoCommand,
     db, ts, memory, history
<1>7. ASSUME NEW a \in Attempt, IntendCreate(a) \/ RecordCid(a) \/ StoreImage(a) \/
             SaveImage(a) \/ FinishRow(a) \/ IntendDelete(a) \/ EraseRow(a)
      PROVE  Commanded'
  BY <1>7, SMTT(30) DEF IntendCreate, Goto, RecordCid, Renew, Created, Held,
     StoreImage, SaveImage, FinishRow, NextRow, IntendDelete, EraseRow, Mine,
     NoCommand, db, ts, memory, history
<1>8. ASSUME NEW a \in Attempt, LeaseLost(a) \/ StepRejected(a) \/ StepFails(a) \/
             CatchResume(a) \/ CatchUndo(a) \/ Stop(a) \/ Crash(a)
      PROVE  Commanded'
  BY <1>8, SMTT(30) DEF LeaseLost, BodyEnds, Goto, InRow, StepRejected, StepFails,
     Fault, CatchResume, AfterError, CatchUndo, NextRow, Stop, Crash, Mine, NoCommand,
     db, ts, memory, history
<1>9. ASSUME NEW a \in Attempt, ExecCreate(a) PROVE Commanded'
  BY <1>9, SMTT(30) DEF ExecCreate, NewChannel, Goto, Awaited, Answered, Mine,
     NoCommand, db, ts, memory, history
<1>10. ASSUME NEW a \in Attempt, ExecEdit(a) PROVE Commanded'
  BY <1>10, SMTT(30) DEF ExecEdit, Goto, Awaited, Answered, Mine, NoCommand, db, ts,
     memory, history
<1>11. ASSUME NEW a \in Attempt, ExecDelete(a) PROVE Commanded'
  BY <1>11, SMTT(30) DEF ExecDelete, Goto, Awaited, Answered, Subtree, Mine,
     NoCommand, db, ts, memory, history
<1>12. ASSUME NEW a \in Attempt, CreateUnseen(a) \/ Refuse(a) \/ Vanish(a)
       PROVE  Commanded'
  BY <1>12, SMTT(30) DEF CreateUnseen, NewChannel, Goto, Awaited, Answered, Fault,
     Refuse, Vanish, Mine, NoCommand, db, ts, memory, history
<1>13. ASSUME LeaseExpires \/ LeaseStalls \/ Occupy \/ Vacate \/ Tamper \/ Readdress \/ Remove \/
              DeleteImage
       PROVE  Commanded'
  BY <1>13, SMTT(30) DEF LeaseExpires, LeaseStalls, Fault, Occupy, Replace, Vacate,
     Tamper, Readdress, Remove, Subtree, DeleteImage, Mine, NoCommand, db, ts, memory, history
<1>14. ASSUME UNCHANGED vars PROVE Commanded'
  BY <1>14 DEF Mine, NoCommand, vars, db, ts, memory, history
<1> QED
  BY <1>1, <1>2, <1>3, <1>4, <1>5, <1>6, <1>7, <1>8, <1>9, <1>10, <1>11, <1>12, <1>13,
     <1>14
  DEF Next, NextAlone, Body, Closer, Server, Failure, Outsiders

\* A row keeps the cid it has once it has one.
LEMMA RecordStays ==
  ASSUME TraceInv, [Next]_vars, NEW r \in Row, rows[r].cid # NoCid
  PROVE  rows'[r].cid = rows[r].cid
<1> USE DEF TraceInv, CreateInv, TypeInv, TypeOK
<1>1. rows[r].cid \in Cid /\ Claimed(r, rows[r].cid)
  BY DEF DatabaseTypeOK, RowRecord, Claimed, Cid, NoCid
<1>2. r \in ordered
  BY <1>1 DEF OneCid
<1>3. ASSUME NEW a \in Attempt, r = at[a], Mine(a).cid # NoCid
      PROVE  Mine(a).cid = rows[r].cid
  <2>1. Mine(a).cid \in Cid /\ Claimed(r, Mine(a).cid)
    BY <1>3, MineType DEF Claimed, Mine, Cid, NoCid
  <2> QED
    BY <1>1, <2>1 DEF OneCid
<1> QED
  BY <1>2, <1>3, RowsKept

\* At most one creation happens in a step.
LEMMA BornAlone ==
  ASSUME TypeInv, NEW a \in Attempt, Born(a)
  PROVE  /\ nextCid' = nextCid + 1 /\ ordered' = ordered
         /\ cmd[a].op = "create" /\ cmd'[a] = NoCommand
         /\ \A b \in Attempt : Born(b) => b = a
<1>1. /\ nextCid' = nextCid + 1 /\ ordered' = ordered
      /\ cmd[a].op = "create" /\ Answered(a)
  BY DEF Born, ExecCreate, CreateUnseen, history
<1>2. ASSUME NEW b \in Attempt, Born(b), b # a PROVE FALSE
  <2>1. cmd[b].op = "create" /\ Answered(b)
    BY <1>2 DEF Born, ExecCreate, CreateUnseen
  <2> QED
    BY <1>1, <1>2, <2>1 DEF Answered, NoCommand, TypeInv, TypeOK, ServerTypeOK
<1> QED
  BY <1>1, <1>2 DEF Answered, TypeInv, TypeOK, ServerTypeOK

LEMMA OneCidStep == TraceInv /\ [Next]_vars => OneCid'
<1> SUFFICES ASSUME TraceInv, [Next]_vars PROVE OneCid'
  OBVIOUS
<1>t. TypeInv /\ nextCid \in Nat /\ \A c \in Cid : c \in Nat
  BY DEF TraceInv, CreateInv, TypeInv, TypeOK, ServerTypeOK, Cid
<1>o. ordered \subseteq ordered'
  BY OrderedFrame DEF OrderCreate
<1>1. CASE \E a \in Attempt : Born(a)
  <2>1. PICK a \in Attempt : Born(a)
    BY <1>1
  <2>2. /\ nextCid' = nextCid + 1 /\ cmd[a].row \in ordered
        /\ \A c \in Cid : ~Claimed(cmd[a].row, c)
    BY <1>t, <2>1, BornAlone DEF TraceInv, Unanswered
  <2>3. \A r \in Row, c \in Cid : Claimed(r, c)' => Claimed(r, c) \/ (r = cmd[a].row /\ c = nextCid)
    BY <1>t, <2>1, BornAlone, ClaimStep
  <2>4. \A r \in Row, c \in Cid : Claimed(r, c)' => c < nextCid' /\ r \in ordered'
    BY <1>t, <1>o, <2>2, <2>3 DEF TraceInv, OneCid
  <2>5. ASSUME NEW r \in Row, NEW c \in Cid, NEW s \in Row, NEW d \in Cid,
               Claimed(r, c)', Claimed(s, d)'
        PROVE  r = s <=> c = d
    <3>1. \A p \in Row, e \in Cid : Claimed(p, e) => p # cmd[a].row /\ e # nextCid
      BY <1>t, <2>2 DEF TraceInv, OneCid
    <3>2. Claimed(r, c) \/ (r = cmd[a].row /\ c = nextCid)
      BY <2>3, <2>5
    <3>3. Claimed(s, d) \/ (s = cmd[a].row /\ d = nextCid)
      BY <2>3, <2>5
    <3> QED
      BY <3>1, <3>2, <3>3 DEF TraceInv, OneCid
  <2> QED
    BY <2>4, <2>5 DEF OneCid
<1>2. CASE ~\E a \in Attempt : Born(a)
  <2>1. nextCid' = nextCid
    BY <1>2, ChannelFrame DEF ExecEdit, ExecDelete, Occupy, Vacate, Tamper, Readdress, Remove
  <2>2. \A r \in Row, c \in Cid : Claimed(r, c)' => Claimed(r, c)
    BY <1>2, ClaimStep
  <2> QED
    BY <1>o, <2>1, <2>2 DEF TraceInv, OneCid
<1> QED
  BY <1>1, <1>2

LEMMA UnansweredStep == TraceInv /\ [Next]_vars => Unanswered'
<1> SUFFICES ASSUME TraceInv, [Next]_vars PROVE Unanswered'
  OBVIOUS
<1>t. TypeInv /\ cmd \in [Attempt -> Command] /\ NoCommand.op = "none"
  BY DEF TraceInv, CreateInv, TypeInv, TypeOK, ServerTypeOK, NoCommand
<1>o. ordered \subseteq ordered'
  BY OrderedFrame DEF OrderCreate
<1>c. \A b \in Attempt : cmd[b].op = "create" => cmd[b].row \in Row
  BY <1>t DEF Command, NoCommand
<1>1. ASSUME NEW b \in Attempt, OrderCreate(b)
      PROVE  /\ cmd'[b].op = "create" /\ cmd'[b].row = at[b] /\ at[b] \in Row
             /\ token = b /\ at[b] \notin ordered /\ at[b] \in ordered' /\ UNCHANGED ts
    BY <1>1, <1>t DEF OrderCreate, Held, Send, TraceInv, CreateInv, TypeInv, NotYetOrdered,
       Untouched, Positioned
<1>2. \A b \in Attempt : cmd'[b].op = "create" => cmd'[b] = cmd[b] \/ OrderCreate(b)
  BY <1>t, CommandFrame DEF PointChannel, OrderDelete, Send
<1>3. ASSUME NEW b \in Attempt, cmd'[b].op = "create" PROVE cmd'[b].row \in ordered'
  BY <1>1, <1>2, <1>3, <1>o DEF TraceInv, Unanswered
<1>4. ASSUME NEW b \in Attempt, cmd'[b].op = "create", NEW r \in Row, cmd'[b].row = r,
             NEW c \in Cid, Claimed(r, c)'
      PROVE  FALSE
  <2>1. CASE OrderCreate(b)
    <3>1. r = at[b] /\ (Claimed(r, c) \/ \E a \in Attempt : Born(a))
      BY <1>1, <1>4, <2>1, ClaimStep
    <3>2. ~\E a \in Attempt : Born(a)
      BY <1>1, <1>t, <2>1, BornAlone DEF ts, TypeInv, TypeOK, ServerTypeOK, Cid
    <3> QED
      BY <1>1, <2>1, <3>1, <3>2 DEF TraceInv, OneCid
  <2>2. CASE cmd'[b] = cmd[b]
    <3>1. Claimed(r, c) \/ \E a \in Attempt : Born(a) /\ r = cmd[a].row
      BY <1>4, ClaimStep
    <3>2. \A a \in Attempt : Born(a) /\ cmd[b].row = cmd[a].row => a = b
      BY <1>t, <1>4, <2>2, BornAlone DEF TraceInv, Unanswered
    <3>3. ~Born(b)
      BY <1>t, <1>4, BornAlone
    <3> QED
      BY <1>4, <2>2, <3>1, <3>2, <3>3 DEF TraceInv, Unanswered
  <2> QED
    BY <1>2, <1>4, <2>1, <2>2
<1>5. ASSUME NEW a \in Attempt, cmd'[a].op = "create", NEW b \in Attempt,
             cmd'[b].op = "create", cmd'[b].row = cmd'[a].row
      PROVE  b = a
  BY <1>1, <1>2, <1>5 DEF TraceInv, Unanswered
<1>6. \A b \in Attempt : cmd'[b].op = "create" => cmd'[b].row \in Row
  BY <1>1, <1>2, <1>c
<1> QED
  BY <1>3, <1>4, <1>5, <1>6 DEF Unanswered

LEMMA EditsRecordedStep == TraceInv /\ [Next]_vars => EditsRecorded'
<1> SUFFICES ASSUME TraceInv, [Next]_vars, NEW b \in Attempt, cmd'[b].op = "edit"
             PROVE  cmd'[b].cid # NoCid /\ rows'[cmd'[b].row].cid = cmd'[b].cid
  BY DEF EditsRecorded
<1> USE DEF TraceInv, CreateInv, TypeInv, TypeOK
<1>t. cmd \in [Attempt -> Command] /\ NoCommand.op = "none"
  BY DEF ServerTypeOK, NoCommand
<1>1. CASE cmd'[b] = cmd[b]
  <2>1. cmd[b].row \in Row
    BY <1>t, <1>1 DEF Command, NoCommand
  <2> QED
    BY <1>1, <2>1, RecordStays DEF EditsRecorded
<1>2. CASE PointChannel(b)
  <2>1. /\ token = b /\ pc[b] = "point" /\ rows' = rows
        /\ cmd'[b].row = at[b] /\ cmd'[b].cid = Mine(b).cid
    BY <1>t, <1>2 DEF PointChannel, Held, Send
  <2>2. at[b] \in Row /\ Mine(b).cid \in Nat /\ Mine(b).cid # NoCid /\ rows[at[b]].cid # NoCid
    BY <2>1, MineType DEF Positioned, CidInHand, NeedsCid, Recorded
  <2>3. Claimed(at[b], Mine(b).cid) /\ Claimed(at[b], rows[at[b]].cid)
    BY DEF Claimed, Mine
  <2>4. Mine(b).cid \in Cid /\ rows[at[b]].cid \in Cid
    BY <2>2 DEF Cid, NoCid, DatabaseTypeOK, RowRecord
  <2>5. rows[at[b]].cid = Mine(b).cid
    BY <2>2, <2>3, <2>4 DEF OneCid
  <2> QED
    BY <2>1, <2>2, <2>5
<1> QED
  BY <1>t, <1>1, <1>2, CommandFrame DEF OrderCreate, OrderDelete, Send

LEMMA UrlRecordedStep == TraceInv /\ [Next]_vars => UrlRecorded'
<1> SUFFICES ASSUME TraceInv, [Next]_vars, NEW ch \in channels',
                    ch.url # "run", ~ch.rewritten
             PROVE  rows'[ch.row].cid = ch.cid
  BY DEF UrlRecorded
<1> USE DEF TraceInv, CreateInv, TypeInv, TypeOK
<1>1. PICK old \in channels :
        /\ old.row = ch.row /\ old.cid = ch.cid
        /\ \/ old.url = ch.url /\ old.rewritten = ch.rewritten
           \/ \E a \in Attempt : ExecEdit(a) /\ cmd[a].cid = ch.cid
  BY ChannelsKept
<1>2. old.row \in Row /\ old.cid \in Cid /\ old.cid # NoCid
  BY DEF ServerTypeOK, Channel, Cid, NoCid
<1>3. rows[old.row].cid = old.cid
  <2>1. ASSUME NEW a \in Attempt, ExecEdit(a), cmd[a].cid = ch.cid
        PROVE  rows[old.row].cid = old.cid
    <3>1. cmd[a].row \in Row /\ rows[cmd[a].row].cid = cmd[a].cid
      BY <2>1 DEF ExecEdit, EditsRecorded, ServerTypeOK, Command, NoCommand
    <3>2. Claimed(cmd[a].row, old.cid) /\ Claimed(old.row, old.cid)
      BY <1>1, <2>1, <3>1 DEF Claimed
    <3>3. cmd[a].row = old.row
      BY <1>2, <3>1, <3>2 DEF OneCid
    <3> QED
      BY <1>1, <2>1, <3>1, <3>3
  <2> QED
    BY <1>1, <2>1 DEF UrlRecorded
<1> QED
  BY <1>1, <1>2, <1>3, RecordStays

LEMMA TraceInvInit == Init => TraceInv
BY CreateInvInit, RunAssumption
   DEF Init, TraceInv, Commanded, OneCid, Claimed, Unanswered, EditsRecorded, UrlRecorded,
       NoCommand, NoCid, NoRows, FreshRow, Cid

LEMMA TraceInvStep == TraceInv /\ [Next]_vars => TraceInv'
<1>1. TraceInv => CreateInv
  BY DEF TraceInv
<1> QED
  BY <1>1, CreateInvStep, CommandedStep, OneCidStep, UnansweredStep, EditsRecordedStep,
     UrlRecordedStep DEF TraceInv

LEMMA TraceInvImplies == TraceInv => Traceable
<1> SUFFICES ASSUME TraceInv, NEW ch \in channels
             PROVE  \/ rows[ch.row].cid = ch.cid
                    \/ Unknown(rows[ch.row]) /\ (ch.url = "run" \/ ch.rewritten)
  BY DEF Traceable
<1> USE DEF TraceInv, CreateInv, TypeInv, TypeOK
<1>1. ch.row \in Row /\ ch.cid \in Cid /\ ch.cid # NoCid
  BY DEF ServerTypeOK, Channel, Cid, NoCid
<1>2. Claimed(ch.row, ch.cid) /\ Claimed(ch.row, rows[ch.row].cid)
  BY DEF Claimed
<1>3. ch.row \in ordered
  BY <1>1, <1>2 DEF OneCid
<1>4. CASE rows[ch.row].cid = NoCid
  BY <1>1, <1>3, <1>4 DEF DbKnows, Accounted, Unknown, UrlRecorded
<1>5. CASE rows[ch.row].cid # NoCid
  <2>1. rows[ch.row].cid \in Cid
    BY <1>1, <1>5 DEF DatabaseTypeOK, RowRecord, Cid, NoCid
  <2> QED
    BY <1>1, <1>2, <2>1 DEF OneCid
<1> QED
  BY <1>4, <1>5

\* No row forgets a creation, wherever the attempts were interrupted, and the run
\* never takes the provisional URL from a channel whose cid is not on record.
THEOREM NoChannelIsLost == Spec => []Traceable
BY TraceInvInit, TraceInvStep, TraceInvImplies, PTL DEF Spec

-----------------------------------------------------------------------------
(* Why an image is stored before its prepared bytes are dropped *)

Undoing == {"undoing", "undo-partial", "undone"}

\* What kind of attempt may be at a statement.
Kinds ==
  \A a \in Attempt :
    /\ pc[a] # "off" \/ closer[a] # "off" => kind[a] # "none"
    /\ pc[a] \in {"order", "record", "store", "save", "point", "finish"} => kind[a] = "resume"
    /\ pc[a] \in {"delete", "erase"} => kind[a] = "undo"
    /\ pc[a] = "await" => kind[a] = IF cmd[a].op = "delete" THEN "undo" ELSE "resume"

\* Rows and channels are only deleted in a run that is being undone.
UndoHolds == \A a \in Attempt : token = a /\ kind[a] = "undo" => status \in Undoing
ErasedInUndo == \A r \in Row : rows[r].status \in {"deleting", "deleted"} => status \in Undoing
DeletesInUndo == \A a \in Attempt : cmd[a].op = "delete" => status \in Undoing

PhaseInv == TraceInv /\ UndoInv /\ Kinds /\ UndoHolds /\ ErasedInUndo /\ DeletesInUndo

\* Before the channel is pointed at its image the image is stored, or somebody
\* took it away.
Pointing(a) == pc[a] \in {"point", "finish"} \/ (pc[a] = "await" /\ cmd[a].op = "edit")
Imaged == \A a \in Attempt : token = a /\ Pointing(a) => Mine(a).cid \in images \cup meddled

PreparedInv == PhaseInv /\ Imaged /\ PreparedUntilStored

LEMMA KindsStep == PhaseInv /\ [Next]_vars => Kinds'
<1> SUFFICES ASSUME PhaseInv, [Next]_vars PROVE Kinds'
  OBVIOUS
<1> USE RunAssumption DEF PhaseInv, UndoInv, TypeInv, TypeOK, MemoryTypeOK, ServerTypeOK,
        Kinds
<1>1. ASSUME NEW a \in Attempt, Stop(a) PROVE Kinds'
  BY <1>1 DEF Stop, Goto, Connected
<1>2. ASSUME NEW a \in Attempt, ClaimResume(a) \/ ClaimUndo(a) \/ Heartbeat(a) \/
             HeartbeatFails(a) \/ CloseStatus(a) \/ Release(a) \/ CloserFails(a)
      PROVE  Kinds'
  BY <1>2, SMTT(30) DEF ClaimResume, Claim, Free, Claimable, Goto, ClaimUndo,
     Heartbeat, Renew, HeartbeatFails, Fault, CloseStatus, FinalStatus, Release,
     CloserFails, NoCommand, Pc, db, ts, memory, history
<1>3. ASSUME NEW a \in Attempt, Load(a) \/ List(a) \/ AllRowsDone(a) \/ SkipDeleted(a)
             \/ StartRow(a) \/ IdentifyFound(a) \/ IdentifyNone(a) \/
             IdentifyConflict(a)
      PROVE  Kinds'
  BY <1>3, SMTT(30) DEF Load, Goto, List, AllRowsDone, BodyEnds, InRow, SkipDeleted,
     NextRow, StartRow, Renew, Held, IdentifyFound, Owned, Candidates, IdentifyNone,
     IdentifyConflict, NoCommand, Pc, db, ts, memory, history
<1>4. ASSUME NEW a \in Attempt, IntendCreate(a) \/ OrderCreate(a) \/ RecordCid(a) \/
             StoreImage(a) \/ SaveImage(a) \/ PointChannel(a) \/ FinishRow(a) \/
             IntendDelete(a) \/ OrderDelete(a) \/ EraseRow(a)
      PROVE  Kinds'
  BY <1>4, SMTT(30) DEF IntendCreate, Goto, OrderCreate, Renew, Held, Send, ParentCid,
     RecordCid, Created, StoreImage, SaveImage, PointChannel, FinishRow, NextRow,
     IntendDelete, OrderDelete, EraseRow, NoCommand, Pc, db, ts, memory, history
<1>5. ASSUME NEW a \in Attempt, LeaseLost(a) PROVE Kinds'
  BY <1>5, SMTT(30) DEF LeaseLost, BodyEnds, Goto, InRow, NoCommand, Pc, db, ts,
     memory, history
<1>6. ASSUME NEW a \in Attempt, StepRejected(a) PROVE Kinds'
  BY <1>6, SMTT(30) DEF StepRejected, Goto, NoCommand, Pc, db, ts, memory, history
<1>7. ASSUME NEW a \in Attempt, StepFails(a) PROVE Kinds'
  BY <1>7, SMTT(30) DEF StepFails, BodyEnds, Goto, InRow, Fault, NoCommand, Pc, db,
     ts, memory, history
<1>8. ASSUME NEW a \in Attempt, CatchResume(a) PROVE Kinds'
  BY <1>8, SMTT(30) DEF CatchResume, BodyEnds, Goto, AfterError, NoCommand, Pc, db,
     ts, memory, history
<1>9. ASSUME NEW a \in Attempt, CatchUndo(a) PROVE Kinds'
  BY <1>9, SMTT(30) DEF CatchUndo, BodyEnds, Goto, NextRow, NoCommand, Pc, db, ts,
     memory, history
<1>10. ASSUME NEW a \in Attempt, Crash(a) PROVE Kinds'
  BY <1>10, SMTT(30) DEF Crash, Fault, Goto, NoCommand, Pc, db, ts, memory, history
<1>11. ASSUME NEW a \in Attempt, ExecCreate(a) PROVE Kinds'
  BY <1>11, SMTT(30) DEF ExecCreate, NewChannel, Goto, Awaited, Answered, NoCommand,
     Pc, db, ts, memory, history
<1>12. ASSUME NEW a \in Attempt, ExecEdit(a) PROVE Kinds'
  BY <1>12, SMTT(30) DEF ExecEdit, Goto, Awaited, Answered, NoCommand, Pc, db, ts,
     memory, history
<1>13. ASSUME NEW a \in Attempt, ExecDelete(a) PROVE Kinds'
  BY <1>13, SMTT(30) DEF ExecDelete, Goto, Awaited, Answered, Subtree, NoCommand, Pc,
     db, ts, memory, history
<1>14. ASSUME NEW a \in Attempt, Refuse(a) PROVE Kinds'
  BY <1>14, SMTT(30) DEF Refuse, Goto, Awaited, Answered, Fault, NoCommand, Pc, db,
     ts, memory, history
<1>15. ASSUME NEW a \in Attempt, CreateUnseen(a) \/ Vanish(a)
       PROVE  Kinds'
  BY <1>15, SMTT(30) DEF CreateUnseen, NewChannel, Goto, Awaited, Answered, Fault,
     Vanish, NoCommand, Pc, db, ts, memory, history
<1>16. ASSUME LeaseExpires \/ LeaseStalls \/ Occupy \/ Vacate \/ Tamper \/ Readdress \/ Remove \/
              DeleteImage
       PROVE  Kinds'
  BY <1>16, SMTT(30) DEF LeaseExpires, LeaseStalls, Fault, Occupy, Replace, Vacate,
     Tamper, Readdress, Remove, Subtree, DeleteImage, NoCommand, Pc, db, ts, memory, history
<1>17. ASSUME UNCHANGED vars PROVE Kinds'
  BY <1>17 DEF NoCommand, Pc, vars, db, ts, memory, history
<1> QED
  BY <1>1, <1>2, <1>3, <1>4, <1>5, <1>6, <1>7, <1>8, <1>9, <1>10, <1>11, <1>12, <1>13,
     <1>14, <1>15, <1>16, <1>17
  DEF Next, NextAlone, Body, Closer, Server, Failure, Outsiders

LEMMA UndoHoldsStep == PhaseInv /\ [Next]_vars => UndoHolds'
<1> SUFFICES ASSUME PhaseInv, [Next]_vars PROVE UndoHolds'
  OBVIOUS
<1> USE RunAssumption DEF PhaseInv, UndoInv, TypeInv, TypeOK, DatabaseTypeOK,
        MemoryTypeOK, UndoHolds, Undoing
<1>1. ASSUME NEW a \in Attempt, ClaimResume(a) \/ ClaimUndo(a) \/ Heartbeat(a) \/
             HeartbeatFails(a) \/ CloseStatus(a) \/ Release(a) \/ CloserFails(a)
      PROVE  UndoHolds'
  BY <1>1, SMTT(30) DEF ClaimResume, Claim, Free, Claimable, Goto, ClaimUndo,
     Heartbeat, Renew, HeartbeatFails, Fault, CloseStatus, FinalStatus, Release,
     CloserFails, db, ts, memory, history
<1>2. ASSUME NEW a \in Attempt, Load(a) \/ List(a) \/ AllRowsDone(a) \/ SkipDeleted(a)
             \/ StartRow(a) \/ IdentifyFound(a) \/ IdentifyNone(a) \/
             IdentifyConflict(a)
      PROVE  UndoHolds'
  BY <1>2, SMTT(30) DEF Load, Goto, List, AllRowsDone, BodyEnds, InRow, SkipDeleted,
     NextRow, StartRow, Renew, Held, IdentifyFound, Owned, Candidates, IdentifyNone,
     IdentifyConflict, db, ts, memory, history
<1>3. ASSUME NEW a \in Attempt, IntendCreate(a) \/ OrderCreate(a) \/ RecordCid(a) \/
             StoreImage(a) \/ SaveImage(a) \/ PointChannel(a) \/ FinishRow(a) \/
             IntendDelete(a) \/ OrderDelete(a) \/ EraseRow(a)
      PROVE  UndoHolds'
  BY <1>3, SMTT(30) DEF IntendCreate, Goto, OrderCreate, Renew, Held, Send, ParentCid,
     RecordCid, Created, StoreImage, SaveImage, PointChannel, FinishRow, NextRow,
     IntendDelete, OrderDelete, EraseRow, db, ts, memory, history
<1>4. ASSUME NEW a \in Attempt, LeaseLost(a) \/ StepRejected(a) \/ StepFails(a) \/
             CatchResume(a) \/ CatchUndo(a) \/ Stop(a) \/ Crash(a)
      PROVE  UndoHolds'
  BY <1>4, SMTT(30) DEF LeaseLost, BodyEnds, Goto, InRow, StepRejected, StepFails,
     Fault, CatchResume, AfterError, CatchUndo, NextRow, Stop, Crash, db, ts, memory,
     history
<1>5. ASSUME NEW a \in Attempt, ExecCreate(a) \/ CreateUnseen(a) \/ ExecEdit(a) \/
             ExecDelete(a) \/ Refuse(a) \/ Vanish(a)
      PROVE  UndoHolds'
  BY <1>5, SMTT(30) DEF ExecCreate, NewChannel, Goto, Awaited, Answered, CreateUnseen,
     Fault, ExecEdit, ExecDelete, Subtree, Refuse, Vanish, db, ts, memory, history
<1>6. ASSUME LeaseExpires \/ LeaseStalls \/ Occupy \/ Vacate \/ Tamper \/ Readdress \/ Remove \/
             DeleteImage
      PROVE  UndoHolds'
  BY <1>6, SMTT(30) DEF LeaseExpires, LeaseStalls, Fault, Occupy, Replace, Vacate,
     Tamper, Readdress, Remove, Subtree, DeleteImage, db, ts, memory, history
<1>7. ASSUME UNCHANGED vars PROVE UndoHolds'
  BY <1>7 DEF vars, db, ts, memory, history
<1> QED
  BY <1>1, <1>2, <1>3, <1>4, <1>5, <1>6, <1>7
  DEF Next, NextAlone, Body, Closer, Server, Failure, Outsiders

LEMMA ErasedInUndoStep == PhaseInv /\ [Next]_vars => ErasedInUndo'
<1> SUFFICES ASSUME PhaseInv, [Next]_vars, NEW r \in Row,
                    rows'[r].status \in {"deleting", "deleted"}
             PROVE  status' \in Undoing
  BY DEF ErasedInUndo
<1> USE DEF PhaseInv, UndoInv, TypeInv, TypeOK, DatabaseTypeOK
<1>p. \A a \in Attempt : pc[a] \notin {"off", "load", "list", "row"} => at[a] \in Row
  BY DEF Positioned
<1>1. ASSUME NEW a \in Attempt, IntendDelete(a) PROVE status \in Undoing
  BY <1>1 DEF IntendDelete, Held, UndoHolds
<1>2. ASSUME NEW a \in Attempt, EraseRow(a) PROVE status \in Undoing
  BY <1>2 DEF EraseRow, Kinds, UndoHolds
<1>3. ASSUME NEW a \in Attempt, IntendCreate(a) PROVE rows[r].status \in {"deleting", "deleted"}
  BY <1>3, <1>p DEF IntendCreate, RowRecord
<1>4. ASSUME NEW a \in Attempt, FinishRow(a) PROVE rows[r].status \in {"deleting", "deleted"}
  BY <1>4, <1>p DEF FinishRow, RowRecord
<1>5. ASSUME NEW a \in Attempt, RecordCid(a) PROVE rows[r].status \in {"deleting", "deleted"}
  <2>1. at[a] \in Row /\ rows' = [rows EXCEPT ![at[a]] = Created(rows[at[a]], Mine(a).cid)]
    BY <1>5, <1>p DEF RecordCid
  <2>2. Created(rows[at[a]], Mine(a).cid).status = "created"
    BY <2>1 DEF Created, RowRecord
  <2> QED
    BY <2>1, <2>2
<1>6. ASSUME NEW a \in Attempt, CatchResume(a) PROVE rows[r].status \in {"deleting", "deleted"}
  BY <1>6, <1>p DEF CatchResume, AfterError, RowRecord
<1>7. status \in Undoing
  BY RowFrame, <1>1, <1>2, <1>3, <1>4, <1>5, <1>6 DEF ErasedInUndo
<1> QED
  BY <1>7, UndoStays DEF Undoing

LEMMA DeletesInUndoStep == PhaseInv /\ [Next]_vars => DeletesInUndo'
<1> SUFFICES ASSUME PhaseInv, [Next]_vars, NEW b \in Attempt, cmd'[b].op = "delete"
             PROVE  status' \in Undoing
  BY DEF DeletesInUndo
<1> USE DEF PhaseInv, UndoInv, TypeInv, TypeOK, ServerTypeOK
<1>1. ASSUME OrderDelete(b) PROVE status \in Undoing
  BY <1>1 DEF OrderDelete, Held, Kinds, UndoHolds
<1>2. cmd'[b] = cmd[b] \/ OrderDelete(b)
  BY CommandFrame DEF OrderCreate, PointChannel, Send, NoCommand
<1> QED
  BY <1>1, <1>2, UndoStays DEF DeletesInUndo, Undoing

LEMMA PhaseInvInit == Init => PhaseInv
BY TraceInvInit, UndoInvInit, RunAssumption
   DEF Init, PhaseInv, Kinds, UndoHolds, ErasedInUndo, DeletesInUndo, NoRows, FreshRow,
          NoCommand

LEMMA PhaseInvStep == PhaseInv /\ [Next]_vars => PhaseInv'
<1>1. PhaseInv => TraceInv /\ UndoInv
  BY DEF PhaseInv
<1> QED
  BY <1>1, TraceInvStep, UndoInvStep, KindsStep, UndoHoldsStep, ErasedInUndoStep,
     DeletesInUndoStep
     DEF PhaseInv

\* The cid in the memory of an attempt and the one on record are the same.
LEMMA SameCid ==
  ASSUME TraceInv, NEW a \in Attempt, NEW r \in Row,
         local[a][r].cid # NoCid, rows[r].cid # NoCid
  PROVE  local[a][r].cid = rows[r].cid
<1>1. Claimed(r, local[a][r].cid) /\ Claimed(r, rows[r].cid)
  BY DEF Claimed
<1>2. local[a][r].cid \in Cid /\ rows[r].cid \in Cid
  BY DEF TraceInv, CreateInv, TypeInv, TypeOK, DatabaseTypeOK, MemoryTypeOK, RowRecord,
         Cid, NoCid
<1> QED
  BY <1>1, <1>2 DEF TraceInv, OneCid

\* The holder of the lease that resumes has no deleted row before it.
LEMMA ResumeSees ==
  ASSUME PhaseInv, NEW a \in Attempt, token = a, kind[a] = "resume", NEW r \in Row
  PROVE  rows[r].status \notin {"deleting", "deleted"}
BY DEF PhaseInv, UndoInv, ResumeHolds, ErasedInUndo, Undoing

\* An image stays unless an outsider or an undo takes it.
LEMMA ImagesKept ==
  ASSUME [Next]_vars, NEW c \in images \cup meddled
  PROVE  \/ c \in images' \cup meddled'
         \/ \E a \in Attempt : EraseRow(a) /\ c = Mine(a).cid
<1>1. meddled \subseteq meddled'
  BY MeddledFrame DEF Tamper, Readdress, Remove, DeleteImage
<1>2. ASSUME NEW a \in Attempt, SaveImage(a) PROVE c \in images' \cup meddled'
  BY <1>1, <1>2 DEF SaveImage
<1>3. ASSUME NEW a \in Attempt, EraseRow(a), c # Mine(a).cid PROVE c \in images' \cup meddled'
  BY <1>1, <1>3 DEF EraseRow
<1>4. ASSUME DeleteImage PROVE c \in images' \cup meddled'
  BY <1>4 DEF DeleteImage
<1> QED
  BY ImageFrame, <1>1, <1>2, <1>3, <1>4

LEMMA ImagedStep == PreparedInv /\ [Next]_vars => Imaged'
<1> SUFFICES ASSUME PreparedInv, [Next]_vars PROVE Imaged'
  OBVIOUS
<1> USE RunAssumption DEF PreparedInv, PhaseInv, UndoInv, TypeInv, TypeOK, MemoryTypeOK,
        ServerTypeOK, Imaged
<1>p. \A a \in Attempt : pc[a] \notin {"off", "load", "list", "row"} =>
         at[a] \in Row /\ Mine(a) \in RowRecord
  BY MineType DEF Positioned
<1>1. ASSUME NEW a \in Attempt, EraseRow(a) PROVE Imaged'
  BY <1>1 DEF EraseRow, NextRow, Goto, Pointing, Mine
<1>2. ASSUME NEW a \in Attempt, ClaimResume(a) \/ ClaimUndo(a) \/ Heartbeat(a) \/
             HeartbeatFails(a) \/ CloseStatus(a) \/ Release(a) \/ CloserFails(a)
      PROVE  Imaged'
  BY <1>2, SMTT(30) DEF ClaimResume, Claim, Free, Claimable, Goto, ClaimUndo,
     Heartbeat, Renew, HeartbeatFails, Fault, CloseStatus, FinalStatus, Release,
     CloserFails, Pointing, Mine, NoCommand, db, ts, memory, history
<1>3. ASSUME NEW a \in Attempt, IdentifyFound(a) PROVE Imaged'
  BY <1>3, SMTT(30) DEF IdentifyFound, Owned, Candidates, Goto, Pointing, Mine,
     NoCommand, db, ts, memory, history
<1>4. ASSUME NEW a \in Attempt, Load(a) \/ List(a) \/ AllRowsDone(a) \/ SkipDeleted(a)
             \/ StartRow(a) \/ IdentifyNone(a) \/ IdentifyConflict(a)
      PROVE  Imaged'
  BY <1>4, SMTT(30) DEF Load, Goto, List, AllRowsDone, BodyEnds, InRow, SkipDeleted,
     NextRow, StartRow, Renew, Held, IdentifyNone, IdentifyConflict, Pointing, Mine,
     NoCommand, db, ts, memory, history
<1>5. ASSUME NEW a \in Attempt, OrderCreate(a) PROVE Imaged'
  BY <1>5, SMTT(30) DEF OrderCreate, Renew, Held, Send, Goto, ParentCid, Pointing,
     Mine, NoCommand, db, ts, memory, history
<1>6. ASSUME NEW a \in Attempt, StoreImage(a) PROVE Imaged'
  BY <1>6, SMTT(30) DEF StoreImage, Renew, Goto, Pointing, Mine, NoCommand, db, ts,
     memory, history
<1>7. ASSUME NEW a \in Attempt, SaveImage(a) PROVE Imaged'
  BY <1>7, SMTT(30) DEF SaveImage, Goto, Pointing, Mine, NoCommand, db, ts, memory,
     history
<1>8. ASSUME NEW a \in Attempt, PointChannel(a) PROVE Imaged'
  BY <1>8, SMTT(30) DEF PointChannel, Renew, Send, Goto, Pointing, Mine, NoCommand,
     db, ts, memory, history
<1>9. ASSUME NEW a \in Attempt, OrderDelete(a) PROVE Imaged'
  BY <1>9, SMTT(30) DEF OrderDelete, Renew, Send, Goto, Pointing, Mine, NoCommand, db,
     ts, memory, history
<1>10. ASSUME NEW a \in Attempt, IntendCreate(a) \/ RecordCid(a) \/ FinishRow(a) \/
              IntendDelete(a)
       PROVE  Imaged'
  BY <1>10, SMTT(30) DEF IntendCreate, Goto, RecordCid, Renew, Created, Held,
     FinishRow, NextRow, IntendDelete, Pointing, Mine, NoCommand, db, ts, memory,
     history
<1>11. ASSUME NEW a \in Attempt, LeaseLost(a) \/ StepRejected(a) \/ StepFails(a) \/
              CatchResume(a) \/ CatchUndo(a) \/ Stop(a) \/ Crash(a)
       PROVE  Imaged'
  BY <1>11, SMTT(30) DEF LeaseLost, BodyEnds, Goto, InRow, StepRejected, StepFails,
     Fault, CatchResume, AfterError, CatchUndo, NextRow, Stop, Crash, Pointing, Mine,
     NoCommand, db, ts, memory, history
<1>12. ASSUME NEW a \in Attempt, ExecCreate(a) PROVE Imaged'
  BY <1>12, SMTT(30) DEF ExecCreate, NewChannel, Goto, Awaited, Answered, Pointing,
     Mine, NoCommand, db, ts, memory, history
<1>13. ASSUME NEW a \in Attempt, ExecEdit(a) PROVE Imaged'
  BY <1>13, SMTT(30) DEF ExecEdit, Goto, Awaited, Answered, Pointing, Mine, NoCommand,
     db, ts, memory, history
<1>14. ASSUME NEW a \in Attempt, ExecDelete(a) PROVE Imaged'
  BY <1>14, SMTT(30) DEF ExecDelete, Goto, Awaited, Answered, Subtree, Pointing, Mine,
     NoCommand, db, ts, memory, history
<1>15. ASSUME NEW a \in Attempt, Refuse(a) PROVE Imaged'
  BY <1>15, SMTT(30) DEF Refuse, Goto, Awaited, Answered, Fault, Pointing, Mine,
     NoCommand, db, ts, memory, history
<1>16. ASSUME NEW a \in Attempt, Vanish(a) PROVE Imaged'
  BY <1>16, SMTT(30) DEF Vanish, Awaited, Answered, Pointing, Mine, NoCommand, db, ts,
     memory, history
<1>17. ASSUME NEW a \in Attempt, CreateUnseen(a) PROVE Imaged'
  BY <1>17, SMTT(30) DEF CreateUnseen, NewChannel, Goto, Awaited, Answered, Fault,
     Pointing, Mine, NoCommand, db, ts, memory, history
<1>18. ASSUME DeleteImage PROVE Imaged'
  BY <1>18, SMTT(30) DEF DeleteImage, Fault, Pointing, Mine, NoCommand, db, ts,
     memory, history
<1>19. ASSUME LeaseExpires \/ LeaseStalls \/ Occupy \/ Vacate \/ Tamper \/ Readdress \/ Remove
       PROVE  Imaged'
  BY <1>19, SMTT(30) DEF LeaseExpires, LeaseStalls, Fault, Occupy, Replace, Vacate,
     Tamper, Readdress, Remove, Subtree, Pointing, Mine, NoCommand, db, ts, memory, history
<1>20. ASSUME UNCHANGED vars PROVE Imaged'
  BY <1>20 DEF Pointing, Mine, NoCommand, vars, db, ts, memory, history
<1> QED
  BY <1>1, <1>2, <1>3, <1>4, <1>5, <1>6, <1>7, <1>8, <1>9, <1>10, <1>11, <1>12, <1>13,
     <1>14, <1>15, <1>16, <1>17, <1>18, <1>19, <1>20
  DEF Next, NextAlone, Body, Closer, Server, Failure, Outsiders

LEMMA PreparedUntilStoredStep == PreparedInv /\ [Next]_vars => PreparedUntilStored'
<1> SUFFICES ASSUME PreparedInv, [Next]_vars, NEW r \in Row,
                    ~rows'[r].prepared, rows'[r].status \notin {"deleting", "deleted"}
             PROVE  rows'[r].cid \in images' \cup meddled'
  BY DEF PreparedUntilStored
<1> USE DEF PreparedInv, PhaseInv, UndoInv, TypeInv, TypeOK, DatabaseTypeOK
<1>p. \A a \in Attempt : pc[a] \notin {"off", "load", "list", "row"} => at[a] \in Row
  BY DEF Positioned
<1>c. images \cup meddled \subseteq Cid /\ NoCid \notin Cid
  BY DEF HistoryTypeOK, Cid, NoCid
<1>e. ASSUME NEW a \in Attempt, EraseRow(a) PROVE r # at[a] /\ rows'[r] = rows[r]
  BY <1>e, <1>p DEF EraseRow
\* What was stored for the row stays.
<1>k. ASSUME rows[r].cid \in images \cup meddled, rows'[r].cid = rows[r].cid
      PROVE  rows'[r].cid \in images' \cup meddled'
  <2>1. ASSUME NEW a \in Attempt, EraseRow(a), rows[r].cid = Mine(a).cid PROVE FALSE
    <3>1. at[a] \in Row /\ at[a] # r
      BY <2>1, <1>p, <1>e DEF EraseRow
    <3>2. rows[r].cid \in Cid /\ Claimed(r, rows[r].cid) /\ Claimed(at[a], rows[r].cid)
      BY <1>k, <1>c, <2>1 DEF Claimed, Mine
    <3> QED
      BY <3>1, <3>2 DEF TraceInv, OneCid
  <2> QED
    BY <1>k, <2>1, ImagesKept
\* A row that had no prepared bytes before.
<1>b. ASSUME ~rows[r].prepared, rows[r].status \notin {"deleting", "deleted"}
      PROVE  rows'[r].cid \in images' \cup meddled'
  BY <1>b, <1>c, <1>k, RecordStays DEF PreparedUntilStored
<1>1. ASSUME NEW a \in Attempt, IntendCreate(a) PROVE rows'[r].cid \in images' \cup meddled'
  <2>1. rows'[r].prepared = rows[r].prepared
    BY <1>1, <1>p DEF IntendCreate, RowRecord
  <2> QED
    BY <1>1, <1>b, <2>1, ResumeSees DEF IntendCreate
<1>2. ASSUME NEW a \in Attempt, RecordCid(a) PROVE rows'[r].cid \in images' \cup meddled'
  <2>1. at[a] \in Row /\ rows' = [rows EXCEPT ![at[a]] = Created(rows[at[a]], Mine(a).cid)]
    BY <1>2, <1>p DEF RecordCid
  <2>2. Created(rows[at[a]], Mine(a).cid).prepared = rows[at[a]].prepared
    BY <2>1 DEF Created, RowRecord
  <2>3. rows'[r].prepared = rows[r].prepared
    BY <2>1, <2>2
  <2> QED
    BY <1>2, <1>b, <2>3, ResumeSees DEF RecordCid, Held, Kinds
<1>3. ASSUME NEW a \in Attempt, FinishRow(a) PROVE rows'[r].cid \in images' \cup meddled'
  <2>1. at[a] \in Row /\ token = a /\ pc[a] = "finish"
    BY <1>3, <1>p DEF FinishRow
  <2>2. CASE r = at[a]
    <3>1. rows[r].cid # NoCid /\ Mine(a).cid # NoCid
      BY <2>1, <2>2 DEF TraceInv, CreateInv, Recorded, CidInHand, NeedsCid
    <3>2. rows[r].cid = Mine(a).cid
      BY <2>2, <3>1, SameCid DEF Mine
    <3>3. rows[r].cid \in images \cup meddled
      BY <2>1, <3>2 DEF Imaged, Pointing
    <3>4. rows'[r].cid = rows[r].cid
      BY <3>1, RecordStays
    <3> QED
      BY <1>k, <3>3, <3>4
  <2>3. CASE r # at[a]
    BY <1>3, <1>b, <2>1, <2>3 DEF FinishRow
  <2> QED
    BY <2>2, <2>3
<1>4. ASSUME NEW a \in Attempt, IntendDelete(a) PROVE rows'[r].cid \in images' \cup meddled'
  <2>1. at[a] \in Row /\ rows'[at[a]].status = "deleting"
    BY <1>4, <1>p DEF IntendDelete, RowRecord
  <2>2. r # at[a] /\ rows'[r] = rows[r]
    BY <1>4, <2>1 DEF IntendDelete
  <2> QED
    BY <1>b, <2>2
<1>5. ASSUME NEW a \in Attempt, EraseRow(a) PROVE rows'[r].cid \in images' \cup meddled'
  BY <1>5, <1>e, <1>b
<1>6. ASSUME NEW a \in Attempt, CatchResume(a) PROVE rows'[r].cid \in images' \cup meddled'
  <2>1. rows'[r].prepared = rows[r].prepared /\ (token # a => rows' = rows)
    BY <1>6, <1>p DEF CatchResume, RowRecord
  <2> QED
    BY <1>6, <1>b, <2>1, ResumeSees DEF CatchResume
<1>7. ASSUME rows' = rows PROVE rows'[r].cid \in images' \cup meddled'
  BY <1>7, <1>b
<1> QED
  BY RowFrame, <1>1, <1>2, <1>3, <1>4, <1>5, <1>6, <1>7

LEMMA PreparedInvInit == Init => PreparedInv
BY PhaseInvInit, RunAssumption
   DEF Init, PreparedInv, Imaged, Pointing, PreparedUntilStored, NoRows, FreshRow

LEMMA PreparedInvStep == PreparedInv /\ [Next]_vars => PreparedInv'
<1>1. PreparedInv => PhaseInv
  BY DEF PreparedInv
<1> QED
  BY <1>1, PhaseInvStep, ImagedStep, PreparedUntilStoredStep DEF PreparedInv

\* The prepared bytes of a row are never dropped before its image is stored.
THEOREM NoSliceIsLost == Spec => []PreparedUntilStored
<1>1. PreparedInv => PreparedUntilStored
  BY DEF PreparedInv
<1> QED
  BY PreparedInvInit, PreparedInvStep, <1>1, PTL DEF Spec

-----------------------------------------------------------------------------
(* Why a completed run is whole *)

AtRow(a) == pc[a] \notin {"off", "load", "list"}

HasUrl(r, c) ==
  \E ch \in channels : ch.cid = c /\ ch.row = r /\ (ch.url = "id" \/ ch.rewritten)

\* The loop of resume starts at the first row, that of undo at the last.
Span ==
  \A a \in Attempt : AtRow(a) => IF kind[a] = "resume" THEN at[a] >= 1 ELSE at[a] <= RowCount

\* Once channeledit was answered the channel in hand has its by-id URL.
Pointed ==
  \A a \in Attempt : token = a /\ pc[a] = "finish" =>
    Mine(a).cid \in meddled \/ HasUrl(at[a], Mine(a).cid)

\* Until the run is undone a saved row keeps its channel and its image.
Whole ==
  status \notin Undoing =>
    \A r \in Row : rows[r].status = "saved" /\ rows[r].cid \notin meddled =>
      rows[r].cid \in images /\ HasUrl(r, rows[r].cid)

\* As long as nothing failed, the rows that resume has left behind are saved.
SavedSoFar ==
  \A a \in Attempt :
    token = a /\ kind[a] = "resume" /\ ~failed[a] /\ closer[a] = "await" /\ AtRow(a) =>
      \A r \in Row : r < at[a] => rows[r].status = "saved"
SavedAll ==
  \A a \in Attempt :
    token = a /\ kind[a] = "resume" /\ ~failed[a] /\ closer[a] = "status" =>
      \A r \in Row : rows[r].status = "saved"

CompletedRows == status = "completed" => \A r \in Row : rows[r].status = "saved"
\* The attempt that completed the run has nothing left to write.
CompletedClosed ==
  status = "completed" =>
    \A a \in Attempt : token = a => pc[a] = "off" /\ closer[a] \in {"off", "release"}

WholeInv ==
  /\ PreparedInv /\ Span /\ Pointed /\ Whole
  /\ SavedSoFar /\ SavedAll /\ CompletedRows /\ CompletedClosed

LEMMA SpanStep == PhaseInv /\ Span /\ [Next]_vars => Span'
<1> SUFFICES ASSUME PhaseInv /\ Span, [Next]_vars PROVE Span'
  OBVIOUS
<1> USE RunAssumption DEF PhaseInv, UndoInv, TypeInv, TypeOK, MemoryTypeOK, Span, AtRow
<1>1. ASSUME NEW a \in Attempt, FinishRow(a) PROVE Span'
  BY <1>1 DEF FinishRow, NextRow, Goto, Kinds, Positioned, Row
<1>2. ASSUME NEW a \in Attempt, EraseRow(a) PROVE Span'
  BY <1>2 DEF EraseRow, NextRow, Goto, Kinds, Positioned, Row
<1>3. ASSUME NEW a \in Attempt, CatchUndo(a) PROVE Span'
  <2>1. at[a] \in 1..RowCount /\ kind[a] = "undo"
    BY <1>3 DEF CatchUndo, Positioned, Row
  <2>2. CASE token = a
    BY <1>3, <2>1, <2>2 DEF CatchUndo, NextRow, Goto
  <2>3. CASE token # a
    BY <1>3, <2>3 DEF CatchUndo, BodyEnds, Goto
  <2> QED
    BY <2>2, <2>3
<1>4. ASSUME NEW a \in Attempt, SkipDeleted(a) PROVE Span'
  BY <1>4 DEF SkipDeleted, InRow, NextRow, Goto, Row
<1>5. ASSUME NEW a \in Attempt, ClaimResume(a) \/ ClaimUndo(a) \/ Heartbeat(a) \/
             HeartbeatFails(a) \/ CloseStatus(a) \/ Release(a) \/ CloserFails(a)
      PROVE  Span'
  BY <1>5, SMTT(30) DEF ClaimResume, Claim, Free, Claimable, Goto, ClaimUndo,
     Heartbeat, Renew, HeartbeatFails, Fault, CloseStatus, FinalStatus, Release,
     CloserFails, Pc, db, ts, memory, history
<1>6. ASSUME NEW a \in Attempt, Load(a) \/ List(a) \/ AllRowsDone(a) \/ StartRow(a) \/
             IdentifyFound(a) \/ IdentifyNone(a) \/ IdentifyConflict(a)
      PROVE  Span'
  BY <1>6, SMTT(30) DEF Load, Goto, List, AllRowsDone, BodyEnds, InRow, StartRow,
     Renew, Held, IdentifyFound, Owned, Candidates, IdentifyNone, IdentifyConflict,
     Pc, db, ts, memory, history
<1>7. ASSUME NEW a \in Attempt, IntendCreate(a) \/ OrderCreate(a) \/ RecordCid(a) \/
             StoreImage(a) \/ SaveImage(a) \/ PointChannel(a) \/ IntendDelete(a) \/
             OrderDelete(a)
      PROVE  Span'
  BY <1>7, SMTT(30) DEF IntendCreate, Goto, OrderCreate, Renew, Held, Send, ParentCid,
     RecordCid, Created, StoreImage, SaveImage, PointChannel, IntendDelete,
     OrderDelete, Pc, db, ts, memory, history
<1>8. ASSUME NEW a \in Attempt, LeaseLost(a) \/ StepRejected(a) \/ StepFails(a) \/
             CatchResume(a) \/ Stop(a) \/ Crash(a)
      PROVE  Span'
  BY <1>8, SMTT(30) DEF LeaseLost, BodyEnds, Goto, InRow, StepRejected, StepFails,
     Fault, CatchResume, AfterError, Stop, Crash, Pc, db, ts, memory, history
<1>9. ASSUME NEW a \in Attempt, ExecCreate(a) PROVE Span'
  BY <1>9, SMTT(30) DEF ExecCreate, NewChannel, Goto, Awaited, Answered, Pc, db, ts,
     memory, history
<1>10. ASSUME NEW a \in Attempt, CreateUnseen(a) PROVE Span'
  BY <1>10, SMTT(30) DEF CreateUnseen, NewChannel, Goto, Awaited, Answered, Fault, Pc,
     db, ts, memory, history
<1>11. ASSUME NEW a \in Attempt, ExecEdit(a) PROVE Span'
  BY <1>11, SMTT(30) DEF ExecEdit, Goto, Awaited, Answered, Pc, db, ts, memory,
     history
<1>12. ASSUME NEW a \in Attempt, ExecDelete(a) PROVE Span'
  BY <1>12, SMTT(30) DEF ExecDelete, Goto, Awaited, Answered, Subtree, Pc, db, ts,
     memory, history
<1>13. ASSUME NEW a \in Attempt, Refuse(a) PROVE Span'
  BY <1>13, SMTT(30) DEF Refuse, Goto, Awaited, Answered, Fault, Pc, db, ts, memory,
     history
<1>14. ASSUME NEW a \in Attempt, Vanish(a) PROVE Span'
  BY <1>14, SMTT(30) DEF Vanish, Awaited, Answered, Pc, db, ts, memory, history
<1>15. ASSUME LeaseExpires \/ LeaseStalls \/ Occupy \/ Vacate \/ Tamper \/ Readdress \/ Remove \/
              DeleteImage
       PROVE  Span'
  BY <1>15, SMTT(30) DEF LeaseExpires, LeaseStalls, Fault, Occupy, Replace, Vacate,
     Tamper, Readdress, Remove, Subtree, DeleteImage, Pc, db, ts, memory, history
<1>16. ASSUME UNCHANGED vars PROVE Span'
  BY <1>16 DEF Pc, vars, db, ts, memory, history
<1> QED
  BY <1>1, <1>2, <1>3, <1>4, <1>5, <1>6, <1>7, <1>8, <1>9, <1>10, <1>11, <1>12, <1>13,
     <1>14, <1>15, <1>16
  DEF Next, NextAlone, Body, Closer, Server, Failure, Outsiders

\* Only the answer to channeledit leads to the last step of a row.
LEMMA FinishEntered ==
  ASSUME PhaseInv, [Next]_vars, NEW b \in Attempt, token' = b, pc'[b] = "finish"
  PROVE  \/ /\ pc[b] = "finish" /\ token = b
            /\ at'[b] = at[b] /\ Mine(b)' = Mine(b)
         \/ ExecEdit(b) /\ Awaited(b) /\ UNCHANGED <<token, at, local>>
<1> USE RunAssumption DEF PhaseInv, UndoInv, TypeInv, TypeOK, MemoryTypeOK, ServerTypeOK
<1> DEFINE Goal == \/ /\ pc[b] = "finish" /\ token = b
                      /\ at'[b] = at[b] /\ Mine(b)' = Mine(b)
                   \/ ExecEdit(b) /\ Awaited(b) /\ UNCHANGED <<token, at, local>>
<1>1. ASSUME NEW a \in Attempt, ExecEdit(a) PROVE Goal
  <2>1. UNCHANGED <<token, at, local>> /\ (a # b \/ ~Awaited(a) => pc'[b] = pc[b])
    BY <1>1 DEF ExecEdit, Goto, db
  <2> QED
    BY <1>1, <2>1 DEF Mine
<1>2. ASSUME NEW a \in Attempt, ClaimResume(a) \/ ClaimUndo(a) \/ Heartbeat(a) \/
             HeartbeatFails(a) \/ CloseStatus(a) \/ Release(a) \/ CloserFails(a)
      PROVE  Goal
  BY <1>2, SMTT(30) DEF ClaimResume, Claim, Free, Claimable, Goto, ClaimUndo,
     Heartbeat, Renew, HeartbeatFails, Fault, CloseStatus, FinalStatus, Release,
     CloserFails, Mine, Kinds, Positioned, CleanClose, db, ts, memory, history
<1>3. ASSUME NEW a \in Attempt, Load(a) \/ List(a) \/ AllRowsDone(a) \/ SkipDeleted(a)
             \/ StartRow(a) \/ IdentifyFound(a) \/ IdentifyNone(a) \/
             IdentifyConflict(a)
      PROVE  Goal
  BY <1>3, SMTT(30) DEF Load, Goto, List, AllRowsDone, BodyEnds, InRow, SkipDeleted,
     NextRow, StartRow, Renew, Held, IdentifyFound, Owned, Candidates, IdentifyNone,
     IdentifyConflict, Mine, Kinds, Positioned, CleanClose, db, ts, memory, history
<1>4. ASSUME NEW a \in Attempt, IntendCreate(a) \/ OrderCreate(a) \/ RecordCid(a) \/
             StoreImage(a) \/ SaveImage(a) \/ PointChannel(a) \/ FinishRow(a) \/
             IntendDelete(a) \/ OrderDelete(a) \/ EraseRow(a)
      PROVE  Goal
  BY <1>4, SMTT(30) DEF IntendCreate, Goto, OrderCreate, Renew, Held, Send, ParentCid,
     RecordCid, Created, StoreImage, SaveImage, PointChannel, FinishRow, NextRow,
     IntendDelete, OrderDelete, EraseRow, Mine, Kinds, Positioned, CleanClose, db, ts,
     memory, history
<1>5. ASSUME NEW a \in Attempt, LeaseLost(a) \/ StepRejected(a) \/ StepFails(a) \/
             CatchResume(a) \/ CatchUndo(a) \/ Stop(a) \/ Crash(a)
      PROVE  Goal
  BY <1>5, SMTT(30) DEF LeaseLost, BodyEnds, Goto, InRow, StepRejected, StepFails,
     Fault, CatchResume, AfterError, CatchUndo, NextRow, Stop, Crash, Mine, Kinds,
     Positioned, CleanClose, db, ts, memory, history
<1>6. ASSUME NEW a \in Attempt, ExecCreate(a) PROVE Goal
  BY <1>6, SMTT(30) DEF ExecCreate, NewChannel, Goto, Awaited, Answered, Mine, Kinds,
     Positioned, CleanClose, db, ts, memory, history
<1>7. ASSUME NEW a \in Attempt, CreateUnseen(a) PROVE Goal
  BY <1>7, SMTT(30) DEF CreateUnseen, NewChannel, Goto, Awaited, Answered, Fault,
     Mine, Kinds, Positioned, CleanClose, db, ts, memory, history
<1>8. ASSUME NEW a \in Attempt, ExecDelete(a) PROVE Goal
  BY <1>8, SMTT(30) DEF ExecDelete, Goto, Awaited, Answered, Subtree, Mine, Kinds,
     Positioned, CleanClose, db, ts, memory, history
<1>9. ASSUME NEW a \in Attempt, Refuse(a) \/ Vanish(a)
      PROVE  Goal
  BY <1>9, SMTT(30) DEF Refuse, Goto, Awaited, Answered, Fault, Vanish, Mine, Kinds,
     Positioned, CleanClose, db, ts, memory, history
<1>10. ASSUME LeaseExpires \/ LeaseStalls \/ Occupy \/ Vacate \/ Tamper \/ Readdress \/ Remove \/
              DeleteImage
       PROVE  Goal
  BY <1>10, SMTT(30) DEF LeaseExpires, LeaseStalls, Fault, Occupy, Replace, Vacate,
     Tamper, Readdress, Remove, Subtree, DeleteImage, Mine, Kinds, Positioned, CleanClose, db,
     ts, memory, history
<1>11. ASSUME UNCHANGED vars PROVE Goal
  BY <1>11 DEF Mine, Kinds, Positioned, CleanClose, vars, db, ts, memory, history
<1> QED
  BY <1>1, <1>2, <1>3, <1>4, <1>5, <1>6, <1>7, <1>8, <1>9, <1>10, <1>11
  DEF Next, NextAlone, Body, Closer, Server, Failure, Outsiders

\* A channel keeps its by-id URL unless an outsider writes another one or an
\* outsider or an undo deletes the channel.
LEMMA UrlKept ==
  ASSUME TypeInv, [Next]_vars, NEW r, NEW c, HasUrl(r, c)
  PROVE  HasUrl(r, c)' \/ c \in meddled' \/ \E a \in Attempt : ExecDelete(a)
<1> DEFINE Goal == HasUrl(r, c)' \/ c \in meddled' \/ \E a \in Attempt : ExecDelete(a)
<1>1. PICK ch \in channels :
        ch.cid = c /\ ch.row = r /\ (ch.url = "id" \/ ch.rewritten)
  BY DEF HasUrl
<1>t. \A old \in channels : old \in Channel
  BY DEF TypeInv, TypeOK, ServerTypeOK
<1>2. ASSUME NEW a \in Attempt, Born(a) PROVE Goal
  BY <1>1, <1>2 DEF Born, ExecCreate, CreateUnseen, HasUrl
<1>3. ASSUME NEW a \in Attempt, ExecEdit(a) PROVE Goal
  <2> DEFINE new == IF ch.cid = cmd[a].cid THEN [ch EXCEPT !.url = "id"] ELSE ch
  <2>1. /\ new \in channels' /\ new.cid = c /\ new.row = r
        /\ new.url = "id" \/ new.rewritten
    BY <1>1, <1>3, <1>t DEF ExecEdit, Channel
  <2> QED
    BY <2>1 DEF HasUrl
<1>4. ASSUME NEW old \in channels, NEW new, Replace(old, new),
             new.row = old.row, new.cid = old.cid,
             (new.url = old.url /\ new.rewritten = old.rewritten) \/ new.rewritten
      PROVE  Goal
  BY <1>1, <1>4 DEF Replace, HasUrl
<1>5. ASSUME Occupy PROVE Goal
  <2>1. PICK old \in channels : Replace(old, [old EXCEPT !.busy = TRUE])
    BY <1>5 DEF Occupy
  <2> QED
    BY <1>t, <1>4, <2>1 DEF Channel
<1>6. ASSUME Vacate PROVE Goal
  <2>1. PICK old \in channels : Replace(old, [old EXCEPT !.busy = FALSE])
    BY <1>6 DEF Vacate
  <2> QED
    BY <1>t, <1>4, <2>1 DEF Channel
<1>7. ASSUME Tamper PROVE Goal
  <2>1. PICK old \in channels, how \in {"changed", "unmarked", "child"} :
          Replace(old, [old EXCEPT !.edit = how])
    BY <1>7 DEF Tamper
  <2> QED
    BY <1>t, <1>4, <2>1 DEF Channel
<1>8. ASSUME Readdress PROVE Goal
  <2>1. PICK old \in channels, url \in {"id", "other"} :
          Replace(old, Rewritten(old, url))
    BY <1>8 DEF Readdress
  <2>2. LET new == Rewritten(old, url) IN
        new.row = old.row /\ new.cid = old.cid /\ new.rewritten
    BY <1>t, <2>1 DEF Rewritten, Channel
  <2> QED
    BY <1>4, <2>1, <2>2
<1>9. ASSUME Remove PROVE Goal
  <2>1. PICK gone \in channels :
          /\ channels' = channels \ Subtree(gone.cid)
          /\ meddled' = meddled \cup {lost_ch.cid : lost_ch \in Subtree(gone.cid)}
    BY <1>9 DEF Remove
  <2>2. CASE ch \in Subtree(gone.cid)
    BY <1>1, <2>1, <2>2
  <2>3. CASE ch \notin Subtree(gone.cid)
    BY <1>1, <2>1, <2>3 DEF HasUrl
  <2> QED
    BY <2>2, <2>3
<1>10. ASSUME UNCHANGED channels PROVE Goal
  BY <1>1, <1>10 DEF HasUrl
<1> QED
  BY ChannelFrame, <1>2, <1>3, <1>5, <1>6, <1>7, <1>8, <1>9, <1>10

LEMMA NoDeletes ==
  ASSUME PhaseInv, status \notin Undoing, NEW a \in Attempt
  PROVE  ~ExecDelete(a) /\ ~EraseRow(a)
<1>1. ~ExecDelete(a)
  BY DEF PhaseInv, DeletesInUndo, ExecDelete
<1> QED
  BY <1>1 DEF PhaseInv, Kinds, UndoHolds, EraseRow

LEMMA PointedStep == WholeInv /\ [Next]_vars => Pointed'
<1> SUFFICES ASSUME WholeInv, [Next]_vars, NEW a \in Attempt, token' = a, pc'[a] = "finish"
             PROVE  Mine(a)'.cid \in meddled' \/ HasUrl(at[a], Mine(a).cid)'
  BY DEF Pointed
<1> USE DEF WholeInv, PreparedInv, PhaseInv, UndoInv, TypeInv, TypeOK
<1>m. meddled \subseteq meddled'
  BY MeddledFrame DEF Tamper, Readdress, Remove, DeleteImage
<1>1. CASE /\ pc[a] = "finish" /\ token = a
           /\ at'[a] = at[a] /\ Mine(a)' = Mine(a)
  <2>1. Mine(a).cid \in meddled \/ HasUrl(at[a], Mine(a).cid)
    BY <1>1 DEF Pointed
  <2>2. status \notin Undoing
    BY <1>1 DEF Kinds, ResumeHolds, Undoing
  <2>3. ASSUME NEW r, NEW c, r = at[a], c = Mine(a).cid, HasUrl(r, c)
        PROVE  Mine(a)'.cid \in meddled' \/ HasUrl(at[a], Mine(a).cid)'
    <3>1. HasUrl(r, c)' \/ c \in meddled'
      BY <2>2, <2>3, UrlKept, NoDeletes
    <3> QED
      BY <1>1, <2>3, <3>1 DEF HasUrl
  <2> QED
    BY <1>1, <1>m, <2>1, <2>3
<1>2. CASE ExecEdit(a) /\ Awaited(a) /\ UNCHANGED <<token, at, local>>
  <2>1. /\ cmd[a].cid = Mine(a).cid /\ at[a] \in Row /\ Mine(a).cid # NoCid /\ Mine(a).cid \in Nat
    BY <1>2, MineType
       DEF ExecEdit, Awaited, TraceInv, Commanded, Positioned, CidInHand, NeedsCid
  <2>2. PICK ch \in channels : ch.cid = Mine(a).cid
    BY <1>2, <2>1 DEF ExecEdit, Live
  <2>3. ch \in Channel /\ ch.row \in Row /\ ch.cid \in Cid
    BY DEF ServerTypeOK, Channel
  <2>4. ch.row = at[a]
    <3>1. Claimed(ch.row, ch.cid) /\ Claimed(at[a], ch.cid)
      BY <2>2 DEF Claimed, Mine
    <3> QED
      BY <2>1, <2>3, <3>1 DEF TraceInv, OneCid
  <2> DEFINE new == [ch EXCEPT !.url = "id"]
  <2>5. new \in channels' /\ new.cid = Mine(a).cid /\ new.row = at[a] /\ new.url = "id"
    BY <1>2, <2>1, <2>2, <2>3, <2>4 DEF ExecEdit, Channel
  <2>6. at'[a] = at[a] /\ Mine(a)' = Mine(a)
    BY <1>2 DEF Mine
  <2> HIDE DEF new
  <2> QED
    BY <2>5, <2>6 DEF HasUrl
<1> QED
  BY <1>1, <1>2, FinishEntered

LEMMA WholeStep == WholeInv /\ [Next]_vars => Whole'
<1> SUFFICES ASSUME WholeInv, [Next]_vars, status' \notin Undoing, NEW r \in Row, NEW c,
                    rows'[r].status = "saved", rows'[r].cid = c, c \notin meddled'
             PROVE  c \in images' /\ HasUrl(r, c)'
  BY DEF Whole, HasUrl
<1> USE DEF WholeInv, PreparedInv, PhaseInv, UndoInv, TypeInv, TypeOK, DatabaseTypeOK
<1>p. \A a \in Attempt : pc[a] \notin {"off", "load", "list", "row"} => at[a] \in Row
  BY DEF Positioned
<1>u. status \notin Undoing
  BY UndoStays DEF Undoing
<1>m. meddled \subseteq meddled'
  BY MeddledFrame DEF Tamper, Readdress, Remove, DeleteImage
<1>k. ASSUME c \in images, HasUrl(r, c) PROVE c \in images' /\ HasUrl(r, c)'
  BY <1>k, <1>u, NoDeletes, ImagesKept, UrlKept
<1>b. ASSUME rows[r].status = "saved", rows[r].cid = c PROVE c \in images' /\ HasUrl(r, c)'
  BY <1>b, <1>k, <1>u, <1>m DEF Whole
<1>1. ASSUME NEW a \in Attempt, IntendCreate(a)
      PROVE  rows[r].status = "saved" /\ rows[r].cid = c
  BY <1>1, <1>p DEF IntendCreate, RowRecord
<1>2. ASSUME NEW a \in Attempt, RecordCid(a) PROVE rows[r].status = "saved" /\ rows[r].cid = c
  <2>1. at[a] \in Row /\ rows' = [rows EXCEPT ![at[a]] = Created(rows[at[a]], Mine(a).cid)]
    BY <1>2, <1>p DEF RecordCid
  <2>2. Created(rows[at[a]], Mine(a).cid).status = "created"
    BY <2>1 DEF Created, RowRecord
  <2> QED
    BY <2>1, <2>2
<1>3. ASSUME NEW a \in Attempt, FinishRow(a) PROVE c \in images' /\ HasUrl(r, c)'
  <2>1. at[a] \in Row /\ token = a /\ pc[a] = "finish"
    BY <1>3, <1>p DEF FinishRow
  <2>2. CASE r = at[a]
    <3>1. rows[r].cid # NoCid /\ Mine(a).cid # NoCid
      BY <2>1, <2>2 DEF TraceInv, CreateInv, Recorded, CidInHand, NeedsCid
    <3>2. rows[r].cid = Mine(a).cid
      BY <2>2, <3>1, SameCid DEF Mine
    <3>3. rows[r].cid = c
      BY <3>1, RecordStays
    <3>4. c \in images /\ HasUrl(r, c)
      BY <1>m, <2>1, <2>2, <3>2, <3>3 DEF Imaged, Pointing, Pointed
    <3> QED
      BY <1>k, <3>4
  <2>3. CASE r # at[a]
    BY <1>3, <1>b, <2>1, <2>3 DEF FinishRow
  <2> QED
    BY <2>2, <2>3
<1>4. ASSUME NEW a \in Attempt, IntendDelete(a)
      PROVE  rows[r].status = "saved" /\ rows[r].cid = c
  BY <1>4, <1>u DEF IntendDelete, Held, UndoHolds
<1>5. ASSUME NEW a \in Attempt, EraseRow(a) PROVE rows[r].status = "saved" /\ rows[r].cid = c
  BY <1>5, <1>u, NoDeletes
<1>6. ASSUME NEW a \in Attempt, CatchResume(a) PROVE rows[r].status = "saved" /\ rows[r].cid = c
  BY <1>6, <1>p DEF CatchResume, AfterError, RowRecord
<1> QED
  BY RowFrame, <1>b, <1>1, <1>2, <1>3, <1>4, <1>5, <1>6

LEMMA SavedSoFarStep == WholeInv /\ [Next]_vars => SavedSoFar'
<1> SUFFICES ASSUME WholeInv, [Next]_vars PROVE SavedSoFar'
  OBVIOUS
<1> USE RunAssumption DEF WholeInv, PreparedInv, PhaseInv, UndoInv, TypeInv, TypeOK,
        DatabaseTypeOK, MemoryTypeOK, SavedSoFar
<1>p. \A a \in Attempt : pc[a] \notin {"off", "load", "list", "row"} => at[a] \in Row
  BY DEF Positioned
<1>1. ASSUME NEW a \in Attempt, List(a) PROVE SavedSoFar'
  BY <1>1 DEF List, Goto, AtRow, Row, db, history
<1>2. ASSUME NEW a \in Attempt, SkipDeleted(a) PROVE SavedSoFar'
  BY <1>2 DEF SkipDeleted, NextRow, Goto, AtRow, db, history
<1>3. ASSUME NEW a \in Attempt, FinishRow(a) PROVE SavedSoFar'
  <2>1. /\ at[a] \in Row /\ token = a /\ token' = a /\ at' = [at EXCEPT ![a] = at[a] + 1]
        /\ rows' = [rows EXCEPT ![at[a]].status = "saved", ![at[a]].prepared = FALSE]
        /\ UNCHANGED <<kind, closer, failed>> /\ kind[a] = "resume" /\ AtRow(a)
    BY <1>3, <1>p DEF FinishRow, NextRow, Kinds, AtRow
  <2>2. \A r \in Row : rows'[r].status = IF r = at[a] THEN "saved" ELSE rows[r].status
    BY <2>1 DEF RowRecord
  <2> QED
    BY <2>1, <2>2 DEF Row
<1>4. ASSUME NEW a \in Attempt, IntendDelete(a) PROVE SavedSoFar'
  BY <1>4 DEF IntendDelete, Held
<1>5. ASSUME NEW a \in Attempt, ClaimResume(a) \/ ClaimUndo(a) \/ Heartbeat(a) \/
             HeartbeatFails(a) \/ CloseStatus(a) \/ Release(a) \/ CloserFails(a)
      PROVE  SavedSoFar'
  BY <1>5, SMTT(30) DEF ClaimResume, Claim, Free, Claimable, Goto, ClaimUndo,
     Heartbeat, Renew, HeartbeatFails, Fault, CloseStatus, FinalStatus, Release,
     CloserFails, AtRow, Kinds, Positioned, db, ts, memory, history
<1>6. ASSUME NEW a \in Attempt, Load(a) \/ AllRowsDone(a) \/ StartRow(a) \/
             IdentifyFound(a) \/ IdentifyNone(a) \/ IdentifyConflict(a)
      PROVE  SavedSoFar'
  BY <1>6, SMTT(30) DEF Load, Goto, AllRowsDone, BodyEnds, InRow, StartRow, Renew,
     Held, IdentifyFound, Owned, Candidates, IdentifyNone, IdentifyConflict, AtRow,
     Kinds, Positioned, db, ts, memory, history
<1>7. ASSUME NEW a \in Attempt, IntendCreate(a) PROVE SavedSoFar'
  BY <1>7, SMTT(30) DEF IntendCreate, Goto, AtRow, Kinds, Positioned, db, ts, memory,
     history
<1>8. ASSUME NEW a \in Attempt, RecordCid(a) PROVE SavedSoFar'
  BY <1>8, SMTT(30) DEF RecordCid, Renew, Created, Goto, Held, AtRow, Kinds,
     Positioned, db, ts, memory, history
<1>9. ASSUME NEW a \in Attempt, EraseRow(a) PROVE SavedSoFar'
  BY <1>9, SMTT(30) DEF EraseRow, NextRow, Goto, AtRow, Kinds, Positioned, db, ts,
     memory, history
<1>10. ASSUME NEW a \in Attempt, OrderCreate(a) \/ StoreImage(a) \/ SaveImage(a) \/
              PointChannel(a) \/ OrderDelete(a)
       PROVE  SavedSoFar'
  BY <1>10, SMTT(30) DEF OrderCreate, Renew, Held, Send, Goto, ParentCid, StoreImage,
     SaveImage, PointChannel, OrderDelete, AtRow, Kinds, Positioned, db, ts, memory,
     history
<1>11. ASSUME NEW a \in Attempt, CatchResume(a) PROVE SavedSoFar'
  BY <1>11, SMTT(30) DEF CatchResume, BodyEnds, Goto, AfterError, AtRow, Kinds,
     Positioned, db, ts, memory, history
<1>12. ASSUME NEW a \in Attempt, LeaseLost(a) \/ StepRejected(a) \/ StepFails(a) \/
              CatchUndo(a) \/ Stop(a) \/ Crash(a)
       PROVE  SavedSoFar'
  BY <1>12, SMTT(30) DEF LeaseLost, BodyEnds, Goto, InRow, StepRejected, StepFails,
     Fault, CatchUndo, NextRow, Stop, Crash, AtRow, Kinds, Positioned, db, ts, memory,
     history
<1>13. ASSUME NEW a \in Attempt, ExecCreate(a) \/ CreateUnseen(a) \/ ExecEdit(a) \/
              ExecDelete(a) \/ Refuse(a) \/ Vanish(a)
       PROVE  SavedSoFar'
  BY <1>13, SMTT(30) DEF ExecCreate, NewChannel, Goto, Awaited, Answered,
     CreateUnseen, Fault, ExecEdit, ExecDelete, Subtree, Refuse, Vanish, AtRow, Kinds,
     Positioned, db, ts, memory, history
<1>14. ASSUME LeaseExpires \/ LeaseStalls \/ Occupy \/ Vacate \/ Tamper \/ Readdress \/ Remove \/
              DeleteImage
       PROVE  SavedSoFar'
  BY <1>14, SMTT(30) DEF LeaseExpires, LeaseStalls, Fault, Occupy, Replace, Vacate,
     Tamper, Readdress, Remove, Subtree, DeleteImage, AtRow, Kinds, Positioned, db, ts, memory,
     history
<1>15. ASSUME UNCHANGED vars PROVE SavedSoFar'
  BY <1>15 DEF AtRow, Kinds, Positioned, vars, db, ts, memory, history
<1> QED
  BY <1>1, <1>2, <1>3, <1>4, <1>5, <1>6, <1>7, <1>8, <1>9, <1>10, <1>11, <1>12, <1>13,
     <1>14, <1>15
  DEF Next, NextAlone, Body, Closer, Server, Failure, Outsiders

LEMMA SavedAllStep == WholeInv /\ [Next]_vars => SavedAll'
<1> SUFFICES ASSUME WholeInv, [Next]_vars PROVE SavedAll'
  OBVIOUS
<1> USE RunAssumption DEF WholeInv, PreparedInv, PhaseInv, UndoInv, TypeInv, TypeOK,
        DatabaseTypeOK, MemoryTypeOK, SavedAll, CleanClose
<1>1. ASSUME NEW a \in Attempt, AllRowsDone(a) PROVE SavedAll'
  <2>1. \A b \in Attempt \ {a} :
          kind'[b] = kind[b] /\ failed'[b] = failed[b] /\ closer'[b] = closer[b]
    BY <1>1 DEF AllRowsDone, BodyEnds
  <2>2. kind'[a] = "resume" => kind[a] = "resume"
    BY <1>1 DEF AllRowsDone, BodyEnds
  <2>3. CASE closer[a] = "await" /\ kind[a] = "resume"
    <3>0. at[a] \in 0..(RowCount + 1) /\ at[a] \notin 1..RowCount /\ at[a] >= 1
      BY <1>1, <2>3 DEF AllRowsDone, InRow, Span, AtRow, Row
    <3>1. \A r \in Row : r < at[a]
      BY <3>0 DEF Row
    <3>2. failed' = failed /\ rows' = rows /\ token' = token
      BY <1>1 DEF AllRowsDone, BodyEnds, db
    <3> QED
      BY <1>1, <2>1, <2>3, <3>1, <3>2 DEF AllRowsDone, AtRow, SavedSoFar
  <2>4. CASE ~(closer[a] = "await" /\ kind[a] = "resume")
    BY <1>1, <2>1, <2>2, <2>4 DEF AllRowsDone, BodyEnds, db
  <2> QED
    BY <2>3, <2>4
<1>2. ASSUME NEW a \in Attempt, IntendDelete(a) PROVE SavedAll'
  BY <1>2 DEF IntendDelete, Held
<1>3. ASSUME NEW a \in Attempt, ClaimResume(a) \/ ClaimUndo(a) \/ Heartbeat(a) \/
             HeartbeatFails(a) \/ CloseStatus(a) \/ Release(a) \/ CloserFails(a)
      PROVE  SavedAll'
  BY <1>3, SMTT(30) DEF ClaimResume, Claim, Free, Claimable, Goto, ClaimUndo,
     Heartbeat, Renew, HeartbeatFails, Fault, CloseStatus, FinalStatus, Release,
     CloserFails, Kinds, Positioned, Row, db, ts, memory, history
<1>4. ASSUME NEW a \in Attempt, Load(a) \/ List(a) \/ SkipDeleted(a) \/ StartRow(a) \/
             IdentifyFound(a) \/ IdentifyNone(a) \/ IdentifyConflict(a)
      PROVE  SavedAll'
  BY <1>4, SMTT(30) DEF Load, Goto, List, SkipDeleted, InRow, NextRow, StartRow,
     Renew, Held, IdentifyFound, Owned, Candidates, IdentifyNone, IdentifyConflict,
     Kinds, Positioned, Row, db, ts, memory, history
<1>5. ASSUME NEW a \in Attempt, IntendCreate(a) PROVE SavedAll'
  BY <1>5, SMTT(30) DEF IntendCreate, Goto, Kinds, Positioned, Row, db, ts, memory,
     history
<1>6. ASSUME NEW a \in Attempt, RecordCid(a) PROVE SavedAll'
  BY <1>6, SMTT(30) DEF RecordCid, Renew, Created, Goto, Held, Kinds, Positioned, Row,
     db, ts, memory, history
<1>7. ASSUME NEW a \in Attempt, FinishRow(a) PROVE SavedAll'
  BY <1>7, SMTT(30) DEF FinishRow, NextRow, Goto, Kinds, Positioned, Row, db, ts,
     memory, history
<1>8. ASSUME NEW a \in Attempt, EraseRow(a) PROVE SavedAll'
  BY <1>8, SMTT(30) DEF EraseRow, NextRow, Goto, Kinds, Positioned, Row, db, ts,
     memory, history
<1>9. ASSUME NEW a \in Attempt, OrderCreate(a) \/ StoreImage(a) \/ SaveImage(a) \/
             PointChannel(a) \/ OrderDelete(a)
      PROVE  SavedAll'
  BY <1>9, SMTT(30) DEF OrderCreate, Renew, Held, Send, Goto, ParentCid, StoreImage,
     SaveImage, PointChannel, OrderDelete, Kinds, Positioned, Row, db, ts, memory,
     history
<1>10. ASSUME NEW a \in Attempt, CatchResume(a) PROVE SavedAll'
  BY <1>10, SMTT(30) DEF CatchResume, BodyEnds, Goto, AfterError, Kinds, Positioned,
     Row, db, ts, memory, history
<1>11. ASSUME NEW a \in Attempt, LeaseLost(a) \/ StepRejected(a) \/ StepFails(a) \/
              CatchUndo(a) \/ Stop(a) \/ Crash(a)
       PROVE  SavedAll'
  BY <1>11, SMTT(30) DEF LeaseLost, BodyEnds, Goto, InRow, StepRejected, StepFails,
     Fault, CatchUndo, NextRow, Stop, Crash, Kinds, Positioned, Row, db, ts, memory,
     history
<1>12. ASSUME NEW a \in Attempt, ExecCreate(a) \/ CreateUnseen(a) \/ ExecEdit(a) \/
              ExecDelete(a) \/ Refuse(a) \/ Vanish(a)
       PROVE  SavedAll'
  BY <1>12, SMTT(30) DEF ExecCreate, NewChannel, Goto, Awaited, Answered,
     CreateUnseen, Fault, ExecEdit, ExecDelete, Subtree, Refuse, Vanish, Kinds,
     Positioned, Row, db, ts, memory, history
<1>13. ASSUME LeaseExpires \/ LeaseStalls \/ Occupy \/ Vacate \/ Tamper \/ Readdress \/ Remove \/
              DeleteImage
       PROVE  SavedAll'
  BY <1>13, SMTT(30) DEF LeaseExpires, LeaseStalls, Fault, Occupy, Replace, Vacate,
     Tamper, Readdress, Remove, Subtree, DeleteImage, Kinds, Positioned, Row, db, ts, memory,
     history
<1>14. ASSUME UNCHANGED vars PROVE SavedAll'
  BY <1>14 DEF Kinds, Positioned, Row, vars, db, ts, memory, history
<1> QED
  BY <1>1, <1>2, <1>3, <1>4, <1>5, <1>6, <1>7, <1>8, <1>9, <1>10, <1>11, <1>12, <1>13,
     <1>14
  DEF Next, NextAlone, Body, Closer, Server, Failure, Outsiders

LEMMA CompletedClosedStep == WholeInv /\ [Next]_vars => CompletedClosed'
<1> SUFFICES ASSUME WholeInv, [Next]_vars PROVE CompletedClosed'
  OBVIOUS
<1> USE RunAssumption DEF WholeInv, PreparedInv, PhaseInv, UndoInv, TypeInv, TypeOK,
        DatabaseTypeOK, MemoryTypeOK, CompletedClosed, CleanClose, Connected
<1>1. ASSUME NEW a \in Attempt, ClaimResume(a) \/ ClaimUndo(a) \/ Heartbeat(a) \/
             HeartbeatFails(a) \/ CloseStatus(a) \/ Release(a) \/ CloserFails(a)
      PROVE  CompletedClosed'
  BY <1>1, SMTT(30) DEF ClaimResume, Claim, Free, Claimable, Goto, ClaimUndo,
     Heartbeat, Renew, HeartbeatFails, Fault, CloseStatus, FinalStatus, Release,
     CloserFails, db, ts, memory, history
<1>2. ASSUME NEW a \in Attempt, Load(a) \/ List(a) \/ AllRowsDone(a) \/ SkipDeleted(a)
             \/ StartRow(a) \/ IdentifyFound(a) \/ IdentifyNone(a) \/
             IdentifyConflict(a)
      PROVE  CompletedClosed'
  BY <1>2, SMTT(30) DEF Load, Goto, List, AllRowsDone, BodyEnds, InRow, SkipDeleted,
     NextRow, StartRow, Renew, Held, IdentifyFound, Owned, Candidates, IdentifyNone,
     IdentifyConflict, FinalStatus, db, ts, memory, history
<1>3. ASSUME NEW a \in Attempt, IntendCreate(a) \/ OrderCreate(a) \/ RecordCid(a) \/
             StoreImage(a) \/ SaveImage(a) \/ PointChannel(a) \/ FinishRow(a) \/
             IntendDelete(a) \/ OrderDelete(a) \/ EraseRow(a)
      PROVE  CompletedClosed'
  BY <1>3, SMTT(30) DEF IntendCreate, Goto, OrderCreate, Renew, Held, Send, ParentCid,
     RecordCid, Created, StoreImage, SaveImage, PointChannel, FinishRow, NextRow,
     IntendDelete, OrderDelete, EraseRow, FinalStatus, db, ts, memory, history
<1>4. ASSUME NEW a \in Attempt, LeaseLost(a) \/ StepRejected(a) \/ StepFails(a) \/
             CatchResume(a) \/ CatchUndo(a) \/ Stop(a) \/ Crash(a)
      PROVE  CompletedClosed'
  BY <1>4, SMTT(30) DEF LeaseLost, BodyEnds, Goto, InRow, StepRejected, StepFails,
     Fault, CatchResume, AfterError, CatchUndo, NextRow, Stop, Crash, FinalStatus, db,
     ts, memory, history
<1>5. ASSUME NEW a \in Attempt, ExecCreate(a) \/ CreateUnseen(a) \/ ExecEdit(a) \/
             ExecDelete(a) \/ Refuse(a) \/ Vanish(a)
      PROVE  CompletedClosed'
  BY <1>5, SMTT(30) DEF ExecCreate, NewChannel, Goto, Awaited, Answered, CreateUnseen,
     Fault, ExecEdit, ExecDelete, Subtree, Refuse, Vanish, FinalStatus, db, ts,
     memory, history
<1>6. ASSUME LeaseExpires \/ LeaseStalls \/ Occupy \/ Vacate \/ Tamper \/ Readdress \/ Remove \/
             DeleteImage
      PROVE  CompletedClosed'
  BY <1>6, SMTT(30) DEF LeaseExpires, LeaseStalls, Fault, Occupy, Replace, Vacate,
     Tamper, Readdress, Remove, Subtree, DeleteImage, FinalStatus, db, ts, memory, history
<1>7. ASSUME UNCHANGED vars PROVE CompletedClosed'
  BY <1>7 DEF FinalStatus, vars, db, ts, memory, history
<1> QED
  BY <1>1, <1>2, <1>3, <1>4, <1>5, <1>6, <1>7
  DEF Next, NextAlone, Body, Closer, Server, Failure, Outsiders

LEMMA CompletedRowsStep == WholeInv /\ [Next]_vars => CompletedRows'
<1> SUFFICES ASSUME WholeInv, [Next]_vars, status' = "completed", NEW r \in Row
             PROVE  rows'[r].status = "saved"
  BY DEF CompletedRows
<1> USE DEF WholeInv, PreparedInv, PhaseInv, UndoInv
<1>1. CASE status' = status
  <2>1. \A a \in Attempt : token = a => pc[a] = "off"
    BY <1>1 DEF CompletedClosed
  <2>2. rows' = rows
    BY <2>1, RowFrame
       DEF IntendCreate, RecordCid, FinishRow, IntendDelete, EraseRow, CatchResume, Held
  <2> QED
    BY <1>1, <2>2 DEF CompletedRows
<1>2. ASSUME NEW a \in Attempt, CloseStatus(a), status' # status PROVE rows'[r].status = "saved"
  BY <1>2 DEF CloseStatus, FinalStatus, SavedAll
<1> QED
  BY <1>1, <1>2, StatusFrame DEF ClaimResume, ClaimUndo, Claim

LEMMA WholeInvInit == Init => WholeInv
BY PreparedInvInit, RunAssumption
   DEF Init, WholeInv, AtRow, Span, Pointed, Whole, SavedSoFar, SavedAll, CompletedRows,
       CompletedClosed, NoRows, FreshRow

LEMMA WholeInvStep == WholeInv /\ [Next]_vars => WholeInv'
<1>1. WholeInv => PreparedInv /\ PhaseInv /\ Span
  BY DEF WholeInv, PreparedInv
<1> QED
  BY <1>1, PreparedInvStep, SpanStep, PointedStep, WholeStep, SavedSoFarStep, SavedAllStep,
     CompletedRowsStep, CompletedClosedStep DEF WholeInv

\* "completed" is only written over a run whose every row has its channel, at
\* its by-id URL, and its image, and it stays true until somebody interferes.
THEOREM CompletedMeansWhole == Spec => []CompletedIsWhole
<1>1. WholeInv => CompletedIsWhole
  BY DEF WholeInv, CompletedIsWhole, CompletedRows, Whole, HasUrl, Undoing
<1> QED
  BY WholeInvInit, WholeInvStep, <1>1, PTL DEF Spec

-----------------------------------------------------------------------------
(* Why nothing is left of an undone run *)

\* An attempt that knows a channel's cid has the channel in its list as long as
\* the channel lives.
Listed ==
  \A a \in Attempt : AtRow(a) =>
    \A ch \in channels : local[a][ch.row].cid = ch.cid => \E s \in snap[a] : s.cid = ch.cid

\* Row r has no channel, and none is on its way.
NoneLeft(r) ==
  /\ \A ch \in channels : ch.row # r
  /\ \A a \in Attempt : cmd[a].op = "create" => cmd[a].row # r

Gone == \A a \in Attempt : token = a /\ pc[a] = "erase" => NoneLeft(at[a])
DeletedGone == \A r \in Row : rows[r].status = "deleted" => NoneLeft(r)

\* The holder of the lease skips a row only when it is deleted ...
DeletedSeen ==
  \A a \in Attempt : token = a /\ pc[a] \notin {"off", "load"} =>
    \A r \in Row : local[a][r].status = "deleted" => rows[r].status = "deleted"
\* ... and never has such a row in hand.
InHandNotDeleted ==
  \A a \in Attempt : token = a /\ pc[a] \notin {"off", "load", "list", "row"} =>
    Mine(a).status # "deleted"

\* As long as nothing failed, the rows that undo has left behind are deleted.
DeletedSoFar ==
  \A a \in Attempt :
    token = a /\ kind[a] = "undo" /\ ~failed[a] /\ closer[a] = "await" /\ AtRow(a) =>
      \A r \in Row : r > at[a] => rows[r].status = "deleted"
DeletedAll ==
  \A a \in Attempt :
    token = a /\ kind[a] = "undo" /\ ~failed[a] /\ closer[a] = "status" =>
      \A r \in Row : rows[r].status = "deleted"
UndoneRows == status = "undone" => \A r \in Row : rows[r].status = "deleted"

CleanInv ==
  /\ PhaseInv /\ Span /\ Listed /\ Gone /\ DeletedGone
  /\ DeletedSeen /\ InHandNotDeleted /\ DeletedSoFar /\ DeletedAll /\ UndoneRows

\* The list of an attempt only shrinks by the deletions it ordered.
LEMMA ListFrame ==
  ASSUME TypeInv, [Next]_vars, NEW b \in Attempt, AtRow(b)'
  PROVE  \/ List(b)
         \/ AtRow(b) /\ (snap[b] \subseteq snap'[b] \/ ExecDelete(b))
<1> USE DEF TypeInv, TypeOK, MemoryTypeOK
<1> DEFINE Goal == \/ List(b)
                   \/ AtRow(b) /\ (snap[b] \subseteq snap'[b] \/ ExecDelete(b))
<1>1. ASSUME NEW a \in Attempt, ExecDelete(a) PROVE Goal
  <2>1. \A c \in Attempt : c # a => pc'[c] = pc[c] /\ snap'[c] = snap[c]
    BY <1>1 DEF ExecDelete, Goto
  <2>2. CASE a = b
    <3>1. AtRow(a)
      BY <1>1, <2>2 DEF ExecDelete, Awaited, AtRow
    <3> QED
      BY <1>1, <2>2, <3>1
  <2> QED
    BY <2>1, <2>2 DEF AtRow
<1>2. ASSUME NEW a \in Attempt, List(a) PROVE Goal
  BY <1>2 DEF List, Goto, AtRow
<1>3. ASSUME NEW a \in Attempt, ClaimResume(a) \/ ClaimUndo(a) \/ Heartbeat(a) \/
             HeartbeatFails(a) \/ CloseStatus(a) \/ Release(a) \/ CloserFails(a)
      PROVE  Goal
  BY <1>3, SMTT(30) DEF ClaimResume, Claim, Free, Claimable, Goto, ClaimUndo,
     Heartbeat, Renew, HeartbeatFails, Fault, CloseStatus, FinalStatus, Release,
     CloserFails, AtRow, db, ts, memory, history
<1>4. ASSUME NEW a \in Attempt, Load(a) \/ AllRowsDone(a) \/ SkipDeleted(a) \/
             StartRow(a) \/ IdentifyFound(a) \/ IdentifyNone(a) \/ IdentifyConflict(a)
      PROVE  Goal
  BY <1>4, SMTT(30) DEF Load, Goto, AllRowsDone, BodyEnds, InRow, SkipDeleted,
     NextRow, StartRow, Renew, Held, IdentifyFound, Owned, Candidates, IdentifyNone,
     IdentifyConflict, AtRow, db, ts, memory, history
<1>5. ASSUME NEW a \in Attempt, IntendCreate(a) \/ OrderCreate(a) \/ RecordCid(a) \/
             StoreImage(a) \/ SaveImage(a) \/ PointChannel(a) \/ FinishRow(a) \/
             IntendDelete(a) \/ OrderDelete(a) \/ EraseRow(a)
      PROVE  Goal
  BY <1>5, SMTT(30) DEF IntendCreate, Goto, OrderCreate, Renew, Held, Send, ParentCid,
     RecordCid, Created, StoreImage, SaveImage, PointChannel, FinishRow, NextRow,
     IntendDelete, OrderDelete, EraseRow, AtRow, db, ts, memory, history
<1>6. ASSUME NEW a \in Attempt, LeaseLost(a) PROVE Goal
  BY <1>6, SMTT(30) DEF LeaseLost, BodyEnds, Goto, InRow, AtRow, db, ts, memory,
     history
<1>7. ASSUME NEW a \in Attempt, StepFails(a) PROVE Goal
  BY <1>7, SMTT(30) DEF StepFails, BodyEnds, Goto, InRow, Fault, AtRow, db, ts,
     memory, history
<1>8. ASSUME NEW a \in Attempt, CatchUndo(a) PROVE Goal
  BY <1>8, SMTT(30) DEF CatchUndo, BodyEnds, Goto, NextRow, AtRow, db, ts, memory,
     history
<1>9. ASSUME NEW a \in Attempt, StepRejected(a) \/ CatchResume(a) \/ Stop(a) \/
             Crash(a)
      PROVE  Goal
  BY <1>9, SMTT(30) DEF StepRejected, Goto, CatchResume, BodyEnds, AfterError, Stop,
     Fault, Crash, AtRow, db, ts, memory, history
<1>10. ASSUME NEW a \in Attempt, ExecCreate(a) PROVE Goal
  BY <1>10, SMTT(30) DEF ExecCreate, NewChannel, Goto, Awaited, Answered, AtRow, db,
     ts, memory, history
<1>11. ASSUME NEW a \in Attempt, CreateUnseen(a) \/ ExecEdit(a) \/ Refuse(a) \/
              Vanish(a)
       PROVE  Goal
  BY <1>11, SMTT(30) DEF CreateUnseen, NewChannel, Goto, Awaited, Answered, Fault,
     ExecEdit, Refuse, Vanish, AtRow, db, ts, memory, history
<1>12. ASSUME LeaseExpires \/ LeaseStalls \/ Occupy \/ Vacate \/ Tamper \/ Readdress \/ Remove \/
              DeleteImage
       PROVE  Goal
  BY <1>12, SMTT(30) DEF LeaseExpires, LeaseStalls, Fault, Occupy, Replace, Vacate,
     Tamper, Readdress, Remove, Subtree, DeleteImage, AtRow, db, ts, memory, history
<1>13. ASSUME UNCHANGED vars PROVE Goal
  BY <1>13 DEF AtRow, vars, db, ts, memory, history
<1> QED
  BY <1>1, <1>2, <1>3, <1>4, <1>5, <1>6, <1>7, <1>8, <1>9, <1>10, <1>11, <1>12, <1>13
  DEF Next, NextAlone, Body, Closer, Server, Failure, Outsiders

\* A row is erased when no channel was found or its channel was deleted.
LEMMA EraseEntered ==
  ASSUME PhaseInv, [Next]_vars, NEW b \in Attempt, token' = b, pc'[b] = "erase"
  PROVE  \/ pc[b] = "erase" /\ token = b /\ at'[b] = at[b]
         \/ IdentifyNone(b) /\ kind[b] = "undo" /\ token = b /\ at' = at
         \/ ExecDelete(b) /\ Awaited(b) /\ token = b /\ at' = at
<1> USE RunAssumption DEF PhaseInv, UndoInv, TypeInv, TypeOK, MemoryTypeOK
<1> DEFINE Goal == \/ pc[b] = "erase" /\ token = b /\ at'[b] = at[b]
                   \/ IdentifyNone(b) /\ kind[b] = "undo" /\ token = b /\ at' = at
                   \/ ExecDelete(b) /\ Awaited(b) /\ token = b /\ at' = at
<1>1. ASSUME NEW a \in Attempt, ExecDelete(a) PROVE Goal
  <2>1. UNCHANGED <<token, at>> /\ (a # b \/ ~Awaited(a) => pc'[b] = pc[b])
    BY <1>1 DEF ExecDelete, Goto, db
  <2> QED
    BY <1>1, <2>1
<1>2. ASSUME NEW a \in Attempt, IdentifyNone(a) PROVE Goal
  <2>1. UNCHANGED <<token, at>> /\ (a # b => pc'[b] = pc[b])
    BY <1>2 DEF IdentifyNone, Goto, db
  <2>2. a = b => kind[b] = "undo"
    BY <1>2 DEF IdentifyNone, Goto, Kinds
  <2> QED
    BY <1>2, <2>1, <2>2
<1>3. ASSUME NEW a \in Attempt, ClaimResume(a) \/ ClaimUndo(a) \/ Heartbeat(a) \/
             HeartbeatFails(a) \/ CloseStatus(a) \/ Release(a) \/ CloserFails(a)
      PROVE  Goal
  BY <1>3, SMTT(30) DEF ClaimResume, Claim, Free, Claimable, Goto, ClaimUndo,
     Heartbeat, Renew, HeartbeatFails, Fault, CloseStatus, FinalStatus, Release,
     CloserFails, db, ts, memory, history
<1>4. ASSUME NEW a \in Attempt, Load(a) \/ List(a) \/ AllRowsDone(a) \/ SkipDeleted(a)
             \/ StartRow(a) \/ IdentifyFound(a) \/ IdentifyConflict(a)
      PROVE  Goal
  BY <1>4, SMTT(30) DEF Load, Goto, List, AllRowsDone, BodyEnds, InRow, SkipDeleted,
     NextRow, StartRow, Renew, Held, IdentifyFound, Owned, Candidates,
     IdentifyConflict, db, ts, memory, history
<1>5. ASSUME NEW a \in Attempt, IntendCreate(a) \/ OrderCreate(a) \/ RecordCid(a) \/
             StoreImage(a) \/ SaveImage(a) \/ PointChannel(a) \/ FinishRow(a) \/
             IntendDelete(a) \/ OrderDelete(a) \/ EraseRow(a)
      PROVE  Goal
  BY <1>5, SMTT(30) DEF IntendCreate, Goto, OrderCreate, Renew, Held, Send, ParentCid,
     RecordCid, Created, StoreImage, SaveImage, PointChannel, FinishRow, NextRow,
     IntendDelete, OrderDelete, EraseRow, db, ts, memory, history
<1>6. ASSUME NEW a \in Attempt, LeaseLost(a) \/ StepRejected(a) \/ StepFails(a) \/
             CatchResume(a) \/ CatchUndo(a) \/ Stop(a) \/ Crash(a)
      PROVE  Goal
  BY <1>6, SMTT(30) DEF LeaseLost, BodyEnds, Goto, InRow, StepRejected, StepFails,
     Fault, CatchResume, AfterError, CatchUndo, NextRow, Stop, Crash, db, ts, memory,
     history
<1>7. ASSUME NEW a \in Attempt, ExecCreate(a) PROVE Goal
  BY <1>7, SMTT(30) DEF ExecCreate, NewChannel, Goto, Awaited, Answered, db, ts,
     memory, history
<1>8. ASSUME NEW a \in Attempt, CreateUnseen(a) \/ ExecEdit(a) \/ Refuse(a) \/
             Vanish(a)
      PROVE  Goal
  BY <1>8, SMTT(30) DEF CreateUnseen, NewChannel, Goto, Awaited, Answered, Fault,
     ExecEdit, Refuse, Vanish, db, ts, memory, history
<1>9. ASSUME LeaseExpires \/ LeaseStalls \/ Occupy \/ Vacate \/ Tamper \/ Readdress \/ Remove \/
             DeleteImage
      PROVE  Goal
  BY <1>9, SMTT(30) DEF LeaseExpires, LeaseStalls, Fault, Occupy, Replace, Vacate,
     Tamper, Readdress, Remove, Subtree, DeleteImage, db, ts, memory, history
<1>10. ASSUME UNCHANGED vars PROVE Goal
  BY <1>10 DEF vars, db, ts, memory, history
<1> QED
  BY <1>1, <1>2, <1>3, <1>4, <1>5, <1>6, <1>7, <1>8, <1>9, <1>10
  DEF Next, NextAlone, Body, Closer, Server, Failure, Outsiders

\* What is gone stays gone while the row is not ordered.
LEMMA NoneLeftStays ==
  ASSUME TypeInv, [Next]_vars, NEW r \in Row, NoneLeft(r),
         \A b \in Attempt : OrderCreate(b) => at[b] # r
  PROVE  NoneLeft(r)'
<1>1. ASSUME NEW ch \in channels', ch.row = r PROVE FALSE
  BY <1>1, ChannelsKept, BornAlone DEF NoneLeft
<1>2. ASSUME NEW b \in Attempt, cmd'[b].op = "create", cmd'[b].row = r PROVE FALSE
  <2>1. cmd \in [Attempt -> Command] /\ NoCommand.op = "none"
    BY DEF TypeInv, TypeOK, ServerTypeOK, NoCommand
  <2>2. OrderCreate(b) => cmd'[b].row = at[b]
    BY <2>1 DEF OrderCreate, Send
  <2>3. cmd'[b] = cmd[b] \/ OrderCreate(b)
    BY <1>2, <2>1, CommandFrame DEF PointChannel, OrderDelete, Send
  <2> QED
    BY <1>2, <2>2, <2>3 DEF NoneLeft
<1> QED
  BY <1>1, <1>2 DEF NoneLeft

\* A row with a known cid has at most that channel, and none on its way.
LEMMA NoneBut ==
  ASSUME TraceInv, NEW r \in Row, NEW c \in Cid, Claimed(r, c)
  PROVE  /\ \A ch \in channels : ch.row = r => ch.cid = c
         /\ \A a \in Attempt : cmd[a].op = "create" => cmd[a].row # r
<1>1. ASSUME NEW ch \in channels, ch.row = r PROVE ch.cid = c
  <2>1. ch.cid \in Cid /\ Claimed(r, ch.cid)
    BY <1>1 DEF Claimed, TraceInv, CreateInv, TypeInv, TypeOK, ServerTypeOK, Channel
  <2> QED
    BY <2>1 DEF TraceInv, OneCid
<1> QED
  BY <1>1 DEF TraceInv, Unanswered

\* The answer of a creation tells its attempt the cid and nothing else.
LEMMA StatusKept ==
  ASSUME TypeInv, NEW a \in Attempt, ExecCreate(a), NEW b \in Attempt, NEW r \in Row
  PROVE  local'[b][r].status = local[b][r].status
<1> USE DEF TypeInv, TypeOK, MemoryTypeOK
<1>1. CASE Awaited(a)
  <2>1. at[a] \in Row /\ local' = [local EXCEPT ![a][at[a]].cid = nextCid]
    BY <1>1 DEF ExecCreate, Awaited, Positioned
  <2>2. local[b] \in [Row -> RowRecord] /\ local[a] \in [Row -> RowRecord]
    OBVIOUS
  <2>3. local'[b] = IF b = a THEN [local[a] EXCEPT ![at[a]].cid = nextCid] ELSE local[b]
    BY <2>1
  <2>4. local'[b][r] = IF b = a /\ r = at[a] THEN [local[a][at[a]] EXCEPT !.cid = nextCid]
                       ELSE local[b][r]
    BY <2>1, <2>2, <2>3
  <2> QED
    BY <2>1, <2>2, <2>4 DEF RowRecord
<1>2. CASE ~Awaited(a)
  BY <1>2 DEF ExecCreate
<1> QED
  BY <1>1, <1>2

LEMMA ListedStep == CleanInv /\ [Next]_vars => Listed'
<1> SUFFICES ASSUME CleanInv, [Next]_vars, NEW a \in Attempt, AtRow(a)',
                    NEW ch \in channels', NEW r \in Row, r = ch.row, local'[a][r].cid = ch.cid
             PROVE  \E s \in snap'[a] : s.cid = ch.cid
  <2>1. ASSUME CleanInv, [Next]_vars PROVE \A ch \in channels' : ch.row \in Row
    <3>1. ServerTypeOK'
      BY <2>1, ServerTypeOKStep DEF CleanInv, PhaseInv, UndoInv
    <3> QED
      BY <3>1 DEF ServerTypeOK, Channel
  <2> QED
    BY <2>1 DEF Listed
<1> USE DEF CleanInv, PhaseInv, UndoInv
<1>t. TypeInv /\ TypeInv'
  BY TypeInvStep
<1>c. ch.cid \in Cid /\ ch.cid # NoCid
  BY <1>t DEF TypeInv, TypeOK, ServerTypeOK, Channel, Cid, NoCid
<1>1. CASE List(a)
  <2>1. snap'[a] = channels /\ channels' = channels
    BY <1>t, <1>1 DEF List, ts, TypeInv, TypeOK, MemoryTypeOK
  <2> QED
    BY <2>1
<1>2. CASE AtRow(a) /\ (snap[a] \subseteq snap'[a] \/ ExecDelete(a))
  <2>1. ASSUME NEW s \in snap[a], s.cid = ch.cid PROVE \E t \in snap'[a] : t.cid = ch.cid
    <3>1. CASE snap[a] \subseteq snap'[a]
      BY <2>1, <3>1
    <3>2. CASE ExecDelete(a)
      <4>1. ch.cid # cmd[a].cid
        BY <3>2 DEF ExecDelete, Subtree
      <4>2. s \in snap'[a]
        BY <1>t, <2>1, <3>2, <4>1 DEF ExecDelete, TypeInv, TypeOK, MemoryTypeOK
      <4> QED
        BY <2>1, <4>2
    <3> QED
      BY <1>2, <3>1, <3>2
  <2>2. CASE local[a][r].cid = ch.cid
    <3>1. Claimed(r, ch.cid)
      BY <2>2 DEF Claimed
    <3>2. ~\E b \in Attempt : Born(b) /\ ch.cid = nextCid
      BY <1>t, <1>c, <3>1 DEF TraceInv, OneCid, TypeInv, TypeOK, ServerTypeOK, Cid
    <3>3. PICK old \in channels : old.row = r /\ old.cid = ch.cid
      BY <1>t, <3>2, ChannelsKept
    <3>4. \E s \in snap[a] : s.cid = ch.cid
      BY <1>2, <2>2, <3>3 DEF Listed
    <3> QED
      BY <2>1, <3>4
  <2>3. CASE \E s \in snap[a] : s.row = r /\ s.cid = local'[a][r].cid
    BY <2>1, <2>3
  <2>4. CASE ExecCreate(a) /\ Awaited(a) /\ local'[a][r].cid = nextCid
    <3>1. NewChannel(a) \in snap'[a] /\ NewChannel(a).cid = nextCid
      BY <1>t, <2>4 DEF ExecCreate, NewChannel, TypeInv, TypeOK, MemoryTypeOK
    <3> QED
      BY <2>4, <3>1
  <2> QED
    BY <1>c, <1>t, <1>2, <2>2, <2>3, <2>4, LocalKept DEF AtRow
<1> QED
  BY <1>t, <1>1, <1>2, ListFrame

LEMMA GoneStep == CleanInv /\ [Next]_vars => Gone'
<1> SUFFICES ASSUME CleanInv, [Next]_vars, NEW a \in Attempt, token' = a, pc'[a] = "erase",
                    NEW r, r = at'[a]
             PROVE  NoneLeft(r)'
  BY DEF Gone, NoneLeft
<1> USE DEF CleanInv, PhaseInv, UndoInv, TypeInv, TypeOK
<1>p. \/ at[a] \in Row /\ Mine(a).cid \in Nat
      \/ pc[a] \in {"off", "load", "list", "row"}
  BY MineType DEF Positioned
<1>s. ASSUME NoneLeft(r), r \in Row, \A b \in Attempt : ~OrderCreate(b) PROVE NoneLeft(r)'
  BY <1>s, NoneLeftStays
<1>1. CASE pc[a] = "erase" /\ token = a /\ at'[a] = at[a]
  <2>1. NoneLeft(r) /\ r \in Row
    BY <1>1, <1>p DEF Gone
  <2>2. \A b \in Attempt : ~OrderCreate(b)
    BY <1>1 DEF OrderCreate, Held
  <2> QED
    BY <1>s, <2>1, <2>2
<1>2. CASE IdentifyNone(a) /\ kind[a] = "undo" /\ token = a /\ at' = at
  <2>0. /\ r = at[a] /\ r \in Row /\ ~IdentifyThrows(a) /\ Owned(a) = {} /\ ~Unknown(Mine(a))
        /\ pc[a] = "identify"
    BY <1>2, <1>p DEF IdentifyNone, Goto, MemoryTypeOK
  <2>1. CASE Mine(a).cid = NoCid
    <3>1. r \notin ordered
      BY <1>2, <2>0, <2>1 DEF TraceInv, CreateInv, ViewFresh, Accounted, Unknown, Mine
    <3>2. ASSUME NEW ch \in channels, ch.row = r PROVE FALSE
      <4>1. ch.cid \in Cid /\ Claimed(r, ch.cid)
        BY <3>2 DEF Claimed, ServerTypeOK, Channel
      <4> QED
        BY <2>0, <3>1, <4>1 DEF TraceInv, OneCid
    <3> QED
      BY <1>2, <3>1, <3>2, <1>s, <2>0 DEF NoneLeft, TraceInv, Unanswered, IdentifyNone,
             OrderCreate, Send, Goto, Pc, MemoryTypeOK
  <2>2. CASE Mine(a).cid # NoCid
    <3>1. Mine(a).cid \in Cid /\ Claimed(r, Mine(a).cid)
      BY <1>p, <2>0, <2>2 DEF Claimed, Mine, Cid, NoCid
    <3>2. Candidates(a) = {}
      BY <2>0, <2>2 DEF IdentifyThrows
    <3>3. ~\E s \in snap[a] : s.cid = Mine(a).cid
      BY <2>2, <3>2 DEF Candidates
    <3>4. \A ch \in channels : ch.row # r
      BY <2>0, <3>1, <3>3, NoneBut DEF Listed, AtRow, Mine
    <3>5. NoneLeft(r)
      BY <2>0, <3>1, <3>4, NoneBut DEF NoneLeft
    <3> QED
      BY <1>2, <1>s, <2>0, <3>5 DEF IdentifyNone, OrderCreate, Held
  <2> QED
    BY <2>1, <2>2
<1>3. CASE ExecDelete(a) /\ Awaited(a) /\ token = a /\ at' = at
  <2>1. /\ r = at[a] /\ r \in Row /\ cmd[a].cid = Mine(a).cid /\ Mine(a).cid # NoCid
        /\ Mine(a).cid \in Nat
    BY <1>3, <1>p DEF ExecDelete, Awaited, TraceInv, Commanded, CidInHand, NeedsCid
  <2>2. Mine(a).cid \in Cid /\ Claimed(r, Mine(a).cid)
    BY <2>1 DEF Claimed, Mine, Cid, NoCid
  <2>3. \A ch \in channels' : ch \in channels /\ ch.cid # Mine(a).cid
    BY <1>3, <2>1 DEF ExecDelete, Subtree
  <2>4. \A ch \in channels' : ch.row # r
    BY <2>1, <2>2, <2>3, NoneBut
  <2>5. \A b \in Attempt : cmd'[b] = cmd[b] \/ cmd'[b] = NoCommand
    BY <1>3 DEF ExecDelete, Answered, ServerTypeOK
  <2>6. \A b \in Attempt : cmd'[b].op = "create" => cmd'[b].row # r
    BY <2>1, <2>2, <2>5, NoneBut DEF NoCommand
  <2> QED
    BY <2>4, <2>6 DEF NoneLeft
<1> QED
  BY <1>1, <1>2, <1>3, EraseEntered

LEMMA DeletedGoneStep == CleanInv /\ [Next]_vars => DeletedGone'
<1> SUFFICES ASSUME CleanInv, [Next]_vars, NEW r \in Row, rows'[r].status = "deleted"
             PROVE  NoneLeft(r)'
  BY DEF DeletedGone
<1> USE DEF CleanInv, PhaseInv, UndoInv, TypeInv, TypeOK, DatabaseTypeOK
<1>p. \A a \in Attempt : pc[a] \notin {"off", "load", "list", "row"} => at[a] \in Row
  BY DEF Positioned
<1>b. ASSUME rows[r].status = "deleted" PROVE NoneLeft(r)'
  <2>1. \A b \in Attempt : OrderCreate(b) => at[b] # r
    BY <1>b DEF OrderCreate, Held, TraceInv, CreateInv, IntentWritten
  <2> QED
    BY <1>b, <2>1, NoneLeftStays DEF DeletedGone
<1>1. ASSUME NEW a \in Attempt, IntendCreate(a) PROVE rows[r].status = "deleted"
  BY <1>1, <1>p DEF IntendCreate, RowRecord
<1>2. ASSUME NEW a \in Attempt, RecordCid(a) PROVE rows[r].status = "deleted"
  <2>1. at[a] \in Row /\ rows' = [rows EXCEPT ![at[a]] = Created(rows[at[a]], Mine(a).cid)]
    BY <1>2, <1>p DEF RecordCid
  <2>2. Created(rows[at[a]], Mine(a).cid).status = "created"
    BY <2>1 DEF Created, RowRecord
  <2> QED
    BY <2>1, <2>2
<1>3. ASSUME NEW a \in Attempt, FinishRow(a) PROVE rows[r].status = "deleted"
  BY <1>3, <1>p DEF FinishRow, RowRecord
<1>4. ASSUME NEW a \in Attempt, IntendDelete(a) PROVE rows[r].status = "deleted"
  BY <1>4, <1>p DEF IntendDelete, RowRecord
<1>5. ASSUME NEW a \in Attempt, EraseRow(a) PROVE NoneLeft(r)'
  <2>1. CASE r = at[a]
    <3>1. NoneLeft(r)
      BY <1>5, <2>1 DEF EraseRow, Gone
    <3>2. \A b \in Attempt : ~OrderCreate(b)
      BY <1>5 DEF EraseRow, OrderCreate, Held
    <3> QED
      BY <3>1, <3>2, NoneLeftStays
  <2>2. CASE r # at[a]
    BY <1>5, <1>b, <1>p, <2>2 DEF EraseRow
  <2> QED
    BY <2>1, <2>2
<1>6. ASSUME NEW a \in Attempt, CatchResume(a) PROVE rows[r].status = "deleted"
  BY <1>6, <1>p DEF CatchResume, AfterError, RowRecord
<1> QED
  BY RowFrame, <1>b, <1>1, <1>2, <1>3, <1>4, <1>5, <1>6

LEMMA DeletedSeenStep == CleanInv /\ [Next]_vars => DeletedSeen'
<1> SUFFICES ASSUME CleanInv, [Next]_vars PROVE DeletedSeen'
  OBVIOUS
<1> USE RunAssumption DEF CleanInv, PhaseInv, UndoInv, TypeInv, TypeOK, DatabaseTypeOK,
        MemoryTypeOK, DeletedSeen
<1>p. \A a \in Attempt : pc[a] \notin {"off", "load", "list", "row"} => at[a] \in Row
  BY DEF Positioned
<1>1. ASSUME NEW a \in Attempt, IntendDelete(a) PROVE DeletedSeen'
  <2>1. /\ token = a /\ at[a] \in Row /\ Mine(a).status # "deleted"
        /\ \A r \in Row : r # at[a] => rows'[r] = rows[r]
        /\ UNCHANGED <<token, local>> /\ pc[a] \notin {"off", "load"}
    BY <1>1, <1>p DEF IntendDelete, InHandNotDeleted, Held
  <2> QED
    BY <2>1 DEF Mine
<1>2. ASSUME NEW a \in Attempt, ExecCreate(a) PROVE DeletedSeen'
  <2>1. UNCHANGED <<token, rows>> /\ (Awaited(a) => at[a] \in Row)
    BY <1>2, <1>p DEF ExecCreate, db, Awaited
  <2>2. \A b \in Attempt, r \in Row : local'[b][r].status = local[b][r].status
    BY <1>2, StatusKept
  <2>3. \A b \in Attempt : pc'[b] # pc[b] => pc[b] = "await"
    BY <1>2 DEF ExecCreate, Awaited, Goto
  <2>4. ASSUME NEW b \in Attempt, token' = b, pc'[b] \notin {"off", "load"}, NEW r \in Row,
               local'[b][r].status = "deleted"
        PROVE  rows'[r].status = "deleted"
    <3>1. pc[b] \notin {"off", "load"} /\ token = b
      BY <2>1, <2>3, <2>4
    <3>2. local[b][r].status = "deleted"
      BY <2>2, <2>4
    <3> QED
      BY <2>1, <3>1, <3>2
  <2> QED
    BY <2>4
<1>3. ASSUME NEW a \in Attempt, ClaimResume(a) \/ ClaimUndo(a) \/ Heartbeat(a) \/
             HeartbeatFails(a) \/ CloseStatus(a) \/ Release(a) \/ CloserFails(a)
      PROVE  DeletedSeen'
  BY <1>3, SMTT(30) DEF ClaimResume, Claim, Free, Claimable, Goto, ClaimUndo,
     Heartbeat, Renew, HeartbeatFails, Fault, CloseStatus, FinalStatus, Release,
     CloserFails, NoRows, FreshRow, Mine, InHandNotDeleted, RowRecord, db, ts, memory,
     history
<1>4. ASSUME NEW a \in Attempt, Load(a) PROVE DeletedSeen'
  BY <1>4, SMTT(30) DEF Load, Goto, NoRows, FreshRow, Mine, InHandNotDeleted,
     RowRecord, db, ts, memory, history
<1>5. ASSUME NEW a \in Attempt, IdentifyFound(a) PROVE DeletedSeen'
  BY <1>5, SMTT(30) DEF IdentifyFound, Owned, Candidates, Goto, NoRows, FreshRow,
     Mine, InHandNotDeleted, RowRecord, db, ts, memory, history
<1>6. ASSUME NEW a \in Attempt, List(a) \/ AllRowsDone(a) \/ SkipDeleted(a) \/
             StartRow(a) \/ IdentifyNone(a) \/ IdentifyConflict(a)
      PROVE  DeletedSeen'
  BY <1>6, SMTT(30) DEF List, Goto, AllRowsDone, BodyEnds, InRow, SkipDeleted,
     NextRow, StartRow, Renew, Held, IdentifyNone, IdentifyConflict, NoRows, FreshRow,
     Mine, InHandNotDeleted, RowRecord, db, ts, memory, history
<1>7. ASSUME NEW a \in Attempt, IntendCreate(a) PROVE DeletedSeen'
  BY <1>7, SMTT(30) DEF IntendCreate, Goto, NoRows, FreshRow, Mine, InHandNotDeleted,
     RowRecord, db, ts, memory, history
<1>8. ASSUME NEW a \in Attempt, RecordCid(a) PROVE DeletedSeen'
  BY <1>8, SMTT(30) DEF RecordCid, Renew, Created, Goto, Held, NoRows, FreshRow, Mine,
     InHandNotDeleted, RowRecord, db, ts, memory, history
<1>9. ASSUME NEW a \in Attempt, FinishRow(a) PROVE DeletedSeen'
  BY <1>9, SMTT(30) DEF FinishRow, NextRow, Goto, NoRows, FreshRow, Mine,
     InHandNotDeleted, RowRecord, db, ts, memory, history
<1>10. ASSUME NEW a \in Attempt, EraseRow(a) PROVE DeletedSeen'
  BY <1>10, SMTT(30) DEF EraseRow, NextRow, Goto, NoRows, FreshRow, Mine,
     InHandNotDeleted, RowRecord, db, ts, memory, history
<1>11. ASSUME NEW a \in Attempt, OrderCreate(a) \/ StoreImage(a) \/ SaveImage(a) \/
              PointChannel(a) \/ OrderDelete(a)
       PROVE  DeletedSeen'
  BY <1>11, SMTT(30) DEF OrderCreate, Renew, Held, Send, Goto, ParentCid, StoreImage,
     SaveImage, PointChannel, OrderDelete, NoRows, FreshRow, Mine, InHandNotDeleted,
     RowRecord, db, ts, memory, history
<1>12. ASSUME NEW a \in Attempt, LeaseLost(a) PROVE DeletedSeen'
  BY <1>12, SMTT(30) DEF LeaseLost, BodyEnds, Goto, InRow, NoRows, FreshRow, Mine,
     InHandNotDeleted, RowRecord, db, ts, memory, history
<1>13. ASSUME NEW a \in Attempt, StepFails(a) PROVE DeletedSeen'
  BY <1>13, SMTT(30) DEF StepFails, BodyEnds, Goto, InRow, Fault, NoRows, FreshRow,
     Mine, InHandNotDeleted, RowRecord, db, ts, memory, history
<1>14. ASSUME NEW a \in Attempt, CatchResume(a) PROVE DeletedSeen'
  BY <1>14, SMTT(30) DEF CatchResume, BodyEnds, Goto, AfterError, NoRows, FreshRow,
     Mine, InHandNotDeleted, RowRecord, db, ts, memory, history
<1>15. ASSUME NEW a \in Attempt, CatchUndo(a) PROVE DeletedSeen'
  BY <1>15, SMTT(30) DEF CatchUndo, BodyEnds, Goto, NextRow, NoRows, FreshRow, Mine,
     InHandNotDeleted, RowRecord, db, ts, memory, history
<1>16. ASSUME NEW a \in Attempt, Stop(a) PROVE DeletedSeen'
  BY <1>16, SMTT(30) DEF Stop, Fault, Goto, NoRows, FreshRow, Mine, InHandNotDeleted,
     RowRecord, db, ts, memory, history
<1>17. ASSUME NEW a \in Attempt, Crash(a) PROVE DeletedSeen'
  BY <1>17, SMTT(30) DEF Crash, Fault, Goto, NoRows, FreshRow, Mine, InHandNotDeleted,
     RowRecord, db, ts, memory, history
<1>18. ASSUME NEW a \in Attempt, StepRejected(a) PROVE DeletedSeen'
  BY <1>18, SMTT(30) DEF StepRejected, Goto, NoRows, FreshRow, Mine, InHandNotDeleted,
     RowRecord, db, ts, memory, history
<1>19. ASSUME NEW a \in Attempt, CreateUnseen(a) \/ ExecEdit(a) \/ ExecDelete(a) \/
              Refuse(a) \/ Vanish(a)
       PROVE  DeletedSeen'
  BY <1>19, SMTT(30) DEF CreateUnseen, NewChannel, Goto, Awaited, Answered, Fault,
     ExecEdit, ExecDelete, Subtree, Refuse, Vanish, NoRows, FreshRow, Mine,
     InHandNotDeleted, RowRecord, db, ts, memory, history
<1>20. ASSUME LeaseExpires \/ LeaseStalls \/ Occupy \/ Vacate \/ Tamper \/ Readdress \/ Remove \/
              DeleteImage
       PROVE  DeletedSeen'
  BY <1>20, SMTT(30) DEF LeaseExpires, LeaseStalls, Fault, Occupy, Replace, Vacate,
     Tamper, Readdress, Remove, Subtree, DeleteImage, NoRows, FreshRow, Mine, InHandNotDeleted,
     RowRecord, db, ts, memory, history
<1>21. ASSUME UNCHANGED vars PROVE DeletedSeen'
  BY <1>21 DEF NoRows, FreshRow, Mine, InHandNotDeleted, RowRecord, vars, db, ts,
     memory, history
<1> QED
  BY <1>1, <1>2, <1>3, <1>4, <1>5, <1>6, <1>7, <1>8, <1>9, <1>10, <1>11, <1>12, <1>13,
     <1>14, <1>15, <1>16, <1>17, <1>18, <1>19, <1>20, <1>21
  DEF Next, NextAlone, Body, Closer, Server, Failure, Outsiders

LEMMA InHandNotDeletedStep == CleanInv /\ [Next]_vars => InHandNotDeleted'
<1> SUFFICES ASSUME CleanInv, [Next]_vars PROVE InHandNotDeleted'
  OBVIOUS
<1> USE RunAssumption DEF CleanInv, PhaseInv, UndoInv, TypeInv, TypeOK, DatabaseTypeOK,
        MemoryTypeOK, InHandNotDeleted
<1>p. \A a \in Attempt : pc[a] \notin {"off", "load", "list", "row"} => at[a] \in Row
  BY DEF Positioned
<1>1. ASSUME NEW a \in Attempt, StartRow(a) PROVE InHandNotDeleted'
  <2>1. token = a /\ at[a] \in Row /\ pc[a] = "row"
    BY <1>1 DEF StartRow, Held, InRow
  <2>2. Mine(a).status # "deleted"
    BY <1>1, <2>1, ResumeSees DEF StartRow, Kinds, DeletedSeen, Mine
  <2> QED
    BY <1>1, <2>1, <2>2 DEF StartRow, Goto, Mine
<1>2. ASSUME NEW a \in Attempt, LeaseLost(a) PROVE InHandNotDeleted'
  BY <1>2
     DEF LeaseLost, BodyEnds, Goto, InRow, Mine, Positioned, Kinds, Held, db, ts, history
<1>3. ASSUME NEW a \in Attempt, StepFails(a) PROVE InHandNotDeleted'
  <2>1. CASE pc[a] \in {"load", "list", "catch"} \/ (pc[a] = "row" /\ kind[a] = "resume")
    BY <1>3, <2>1 DEF StepFails, BodyEnds, Goto, Mine, Positioned, db
  <2>2. CASE pc[a] = "row" /\ kind[a] # "resume"
    BY <1>3, <2>2 DEF StepFails, Goto, Mine, Positioned, Kinds, db
  <2>3. CASE pc[a] \notin {"load", "list", "catch", "row"}
    BY <1>3, <2>3 DEF StepFails, Goto, Mine, Positioned, db
  <2> QED
    BY <2>1, <2>2, <2>3
<1>4. ASSUME NEW a \in Attempt, ExecCreate(a) PROVE InHandNotDeleted'
  <2>1. UNCHANGED <<token, at>> /\ (Awaited(a) => at[a] \in Row)
    BY <1>4, <1>p DEF ExecCreate, db, Awaited
  <2>2. \A b \in Attempt, r \in Row : local'[b][r].status = local[b][r].status
    BY <1>4, StatusKept
  <2>3. \A b \in Attempt : pc'[b] # pc[b] => pc[b] = "await"
    BY <1>4 DEF ExecCreate, Awaited, Goto
  <2> QED
    BY <2>1, <2>2, <2>3, <1>p DEF Mine
<1>5. ASSUME NEW a \in Attempt, ClaimResume(a) \/ ClaimUndo(a) \/ Heartbeat(a) \/
             HeartbeatFails(a) \/ CloseStatus(a) \/ Release(a) \/ CloserFails(a)
      PROVE  InHandNotDeleted'
  BY <1>5, SMTT(30) DEF ClaimResume, Claim, Free, Claimable, Goto, ClaimUndo,
     Heartbeat, Renew, HeartbeatFails, Fault, CloseStatus, FinalStatus, Release,
     CloserFails, Mine, Positioned, RowRecord, db, ts, memory, history
<1>6. ASSUME NEW a \in Attempt, IdentifyFound(a) PROVE InHandNotDeleted'
  BY <1>6, SMTT(30) DEF IdentifyFound, Owned, Candidates, Goto, Mine, Positioned,
     RowRecord, db, ts, memory, history
<1>7. ASSUME NEW a \in Attempt, Load(a) \/ List(a) \/ AllRowsDone(a) \/ SkipDeleted(a)
             \/ IdentifyNone(a) \/ IdentifyConflict(a)
      PROVE  InHandNotDeleted'
  BY <1>7, SMTT(30) DEF Load, Goto, List, AllRowsDone, BodyEnds, InRow, SkipDeleted,
     NextRow, IdentifyNone, IdentifyConflict, Mine, Positioned, RowRecord, db, ts,
     memory, history
<1>8. ASSUME NEW a \in Attempt, IntendCreate(a) PROVE InHandNotDeleted'
  BY <1>8, SMTT(30) DEF IntendCreate, Goto, Mine, Positioned, RowRecord, db, ts,
     memory, history
<1>9. ASSUME NEW a \in Attempt, FinishRow(a) PROVE InHandNotDeleted'
  BY <1>9, SMTT(30) DEF FinishRow, NextRow, Goto, Mine, Positioned, RowRecord, db, ts,
     memory, history
<1>10. ASSUME NEW a \in Attempt, OrderCreate(a) \/ RecordCid(a) \/ StoreImage(a) \/
              SaveImage(a) \/ PointChannel(a) \/ IntendDelete(a) \/ OrderDelete(a) \/
              EraseRow(a)
       PROVE  InHandNotDeleted'
  BY <1>10, SMTT(30) DEF OrderCreate, Renew, Held, Send, Goto, ParentCid, RecordCid,
     Created, StoreImage, SaveImage, PointChannel, IntendDelete, OrderDelete,
     EraseRow, NextRow, Mine, Positioned, RowRecord, db, ts, memory, history
<1>11. ASSUME NEW a \in Attempt, CatchResume(a) PROVE InHandNotDeleted'
  BY <1>11, SMTT(30) DEF CatchResume, BodyEnds, Goto, AfterError, Mine, Positioned,
     RowRecord, db, ts, memory, history
<1>12. ASSUME NEW a \in Attempt, CatchUndo(a) PROVE InHandNotDeleted'
  BY <1>12, SMTT(30) DEF CatchUndo, BodyEnds, Goto, NextRow, Mine, Positioned,
     RowRecord, db, ts, memory, history
<1>13. ASSUME NEW a \in Attempt, Stop(a) PROVE InHandNotDeleted'
  BY <1>13, SMTT(30) DEF Stop, Fault, Goto, Mine, Positioned, RowRecord, db, ts,
     memory, history
<1>14. ASSUME NEW a \in Attempt, Crash(a) PROVE InHandNotDeleted'
  BY <1>14, SMTT(30) DEF Crash, Fault, Goto, Mine, Positioned, RowRecord, db, ts,
     memory, history
<1>15. ASSUME NEW a \in Attempt, StepRejected(a) PROVE InHandNotDeleted'
  BY <1>15, SMTT(30) DEF StepRejected, Goto, Mine, Positioned, RowRecord, db, ts,
     memory, history
<1>16. ASSUME NEW a \in Attempt, CreateUnseen(a) \/ ExecEdit(a) \/ ExecDelete(a) \/
              Refuse(a) \/ Vanish(a)
       PROVE  InHandNotDeleted'
  BY <1>16, SMTT(30) DEF CreateUnseen, NewChannel, Goto, Awaited, Answered, Fault,
     ExecEdit, ExecDelete, Subtree, Refuse, Vanish, Mine, Positioned, RowRecord, db,
     ts, memory, history
<1>17. ASSUME LeaseExpires \/ LeaseStalls \/ Occupy \/ Vacate \/ Tamper \/ Readdress \/ Remove \/
              DeleteImage
       PROVE  InHandNotDeleted'
  BY <1>17, SMTT(30) DEF LeaseExpires, LeaseStalls, Fault, Occupy, Replace, Vacate,
     Tamper, Readdress, Remove, Subtree, DeleteImage, Mine, Positioned, RowRecord, db, ts,
     memory, history
<1>18. ASSUME UNCHANGED vars PROVE InHandNotDeleted'
  BY <1>18 DEF Mine, Positioned, RowRecord, vars, db, ts, memory, history
<1> QED
  BY <1>1, <1>2, <1>3, <1>4, <1>5, <1>6, <1>7, <1>8, <1>9, <1>10, <1>11, <1>12, <1>13,
     <1>14, <1>15, <1>16, <1>17, <1>18
  DEF Next, NextAlone, Body, Closer, Server, Failure, Outsiders

LEMMA DeletedSoFarStep == CleanInv /\ [Next]_vars => DeletedSoFar'
<1> SUFFICES ASSUME CleanInv, [Next]_vars PROVE DeletedSoFar'
  OBVIOUS
<1> USE RunAssumption DEF CleanInv, PhaseInv, UndoInv, TypeInv, TypeOK, DatabaseTypeOK,
        MemoryTypeOK, DeletedSoFar
<1>p. \A a \in Attempt : pc[a] \notin {"off", "load", "list", "row"} => at[a] \in Row
  BY DEF Positioned
<1>1. ASSUME NEW a \in Attempt, List(a) PROVE DeletedSoFar'
  BY <1>1 DEF List, Goto, AtRow, Row, db, history
<1>2. ASSUME NEW a \in Attempt, SkipDeleted(a) PROVE DeletedSoFar'
  <2>1. /\ at[a] \in Row /\ at' = [at EXCEPT ![a] = at[a] - 1] /\ AtRow(a)
        /\ UNCHANGED <<token, rows, kind, closer, failed>> /\ Mine(a).status = "deleted"
        /\ pc[a] = "row"
    BY <1>2 DEF SkipDeleted, InRow, NextRow, AtRow, db
  <2>2. token = a => rows[at[a]].status = "deleted"
    BY <2>1 DEF DeletedSeen, Mine
  <2>3. \A b \in Attempt \ {a} : AtRow(b)' => AtRow(b)
    BY <1>2 DEF SkipDeleted, NextRow, Goto, AtRow
  <2> QED
    BY <2>1, <2>2, <2>3 DEF Row
<1>3. ASSUME NEW a \in Attempt, EraseRow(a) PROVE DeletedSoFar'
  <2>1. /\ at[a] \in Row /\ token = a /\ token' = a /\ at' = [at EXCEPT ![a] = at[a] - 1]
        /\ rows' = [rows EXCEPT ![at[a]] =
                     [status |-> "deleted", cid |-> Mine(a).cid, prepared |-> FALSE]]
        /\ UNCHANGED <<kind, closer, failed>> /\ kind[a] = "undo" /\ AtRow(a)
    BY <1>3, <1>p DEF EraseRow, NextRow, Kinds, AtRow
  <2>2. \A r \in Row : rows'[r].status = IF r = at[a] THEN "deleted" ELSE rows[r].status
    BY <2>1 DEF RowRecord
  <2> QED
    BY <2>1, <2>2 DEF Row
<1>4. ASSUME NEW a \in Attempt, FinishRow(a) PROVE DeletedSoFar'
  BY <1>4 DEF FinishRow, Kinds
<1>5. ASSUME NEW a \in Attempt, IntendCreate(a) PROVE DeletedSoFar'
  BY <1>5 DEF IntendCreate
<1>6. ASSUME NEW a \in Attempt, RecordCid(a) PROVE DeletedSoFar'
  BY <1>6 DEF RecordCid, Held, Kinds
<1>7. ASSUME NEW a \in Attempt, IntendDelete(a) PROVE DeletedSoFar'
  <2>1. \A r \in Row : r # at[a] => rows'[r] = rows[r]
    BY <1>7 DEF IntendDelete
  <2>2. /\ UNCHANGED <<token, kind, closer, failed, at>> /\ token = a
        /\ \A b \in Attempt : AtRow(b)' => AtRow(b)
    BY <1>7 DEF IntendDelete, Held, Goto, AtRow
  <2> QED
    BY <1>7, <1>p, <2>1, <2>2 DEF IntendDelete, Row
<1>8. ASSUME NEW a \in Attempt, ClaimResume(a) \/ ClaimUndo(a) \/ Heartbeat(a) \/
             HeartbeatFails(a) \/ CloseStatus(a) \/ Release(a) \/ CloserFails(a)
      PROVE  DeletedSoFar'
  BY <1>8, SMTT(30) DEF ClaimResume, Claim, Free, Claimable, Goto, ClaimUndo,
     Heartbeat, Renew, HeartbeatFails, Fault, CloseStatus, FinalStatus, Release,
     CloserFails, AtRow, Kinds, Positioned, db, ts, memory, history
<1>9. ASSUME NEW a \in Attempt, Load(a) \/ AllRowsDone(a) \/ StartRow(a) \/
             IdentifyFound(a) \/ IdentifyNone(a) \/ IdentifyConflict(a)
      PROVE  DeletedSoFar'
  BY <1>9, SMTT(30) DEF Load, Goto, AllRowsDone, BodyEnds, InRow, StartRow, Renew,
     Held, IdentifyFound, Owned, Candidates, IdentifyNone, IdentifyConflict, AtRow,
     Kinds, Positioned, db, ts, memory, history
<1>10. ASSUME NEW a \in Attempt, OrderCreate(a) \/ StoreImage(a) \/ SaveImage(a) \/
              PointChannel(a) \/ OrderDelete(a)
       PROVE  DeletedSoFar'
  BY <1>10, SMTT(30) DEF OrderCreate, Renew, Held, Send, Goto, ParentCid, StoreImage,
     SaveImage, PointChannel, OrderDelete, AtRow, Kinds, Positioned, db, ts, memory,
     history
<1>11. ASSUME NEW a \in Attempt, CatchResume(a) PROVE DeletedSoFar'
  BY <1>11, SMTT(30) DEF CatchResume, BodyEnds, Goto, AfterError, AtRow, Kinds,
     Positioned, db, ts, memory, history
<1>12. ASSUME NEW a \in Attempt, CatchUndo(a) PROVE DeletedSoFar'
  BY <1>12, SMTT(30) DEF CatchUndo, BodyEnds, Goto, NextRow, AtRow, Kinds, Positioned,
     db, ts, memory, history
<1>13. ASSUME NEW a \in Attempt, LeaseLost(a) \/ StepRejected(a) \/ StepFails(a) \/
              Stop(a) \/ Crash(a)
       PROVE  DeletedSoFar'
  BY <1>13, SMTT(30) DEF LeaseLost, BodyEnds, Goto, InRow, StepRejected, StepFails,
     Fault, Stop, Crash, AtRow, Kinds, Positioned, db, ts, memory, history
<1>14. ASSUME NEW a \in Attempt, ExecCreate(a) PROVE DeletedSoFar'
  BY <1>14, SMTT(30) DEF ExecCreate, NewChannel, Goto, Awaited, Answered, AtRow,
     Kinds, Positioned, db, ts, memory, history
<1>15. ASSUME NEW a \in Attempt, CreateUnseen(a) \/ ExecEdit(a) \/ ExecDelete(a) \/
              Refuse(a) \/ Vanish(a)
       PROVE  DeletedSoFar'
  BY <1>15, SMTT(30) DEF CreateUnseen, NewChannel, Goto, Awaited, Answered, Fault,
     ExecEdit, ExecDelete, Subtree, Refuse, Vanish, AtRow, Kinds, Positioned, db, ts,
     memory, history
<1>16. ASSUME LeaseExpires \/ LeaseStalls \/ Occupy \/ Vacate \/ Tamper \/ Readdress \/ Remove \/
              DeleteImage
       PROVE  DeletedSoFar'
  BY <1>16, SMTT(30) DEF LeaseExpires, LeaseStalls, Fault, Occupy, Replace, Vacate,
     Tamper, Readdress, Remove, Subtree, DeleteImage, AtRow, Kinds, Positioned, db, ts, memory,
     history
<1>17. ASSUME UNCHANGED vars PROVE DeletedSoFar'
  BY <1>17 DEF AtRow, Kinds, Positioned, vars, db, ts, memory, history
<1> QED
  BY <1>1, <1>2, <1>3, <1>4, <1>5, <1>6, <1>7, <1>8, <1>9, <1>10, <1>11, <1>12, <1>13,
     <1>14, <1>15, <1>16, <1>17
  DEF Next, NextAlone, Body, Closer, Server, Failure, Outsiders

LEMMA DeletedAllStep == CleanInv /\ [Next]_vars => DeletedAll'
<1> SUFFICES ASSUME CleanInv, [Next]_vars PROVE DeletedAll'
  OBVIOUS
<1> USE RunAssumption DEF CleanInv, PhaseInv, UndoInv, TypeInv, TypeOK, DatabaseTypeOK,
        MemoryTypeOK, DeletedAll, CleanClose
<1>1. ASSUME NEW a \in Attempt, AllRowsDone(a) PROVE DeletedAll'
  <2>1. \A b \in Attempt \ {a} :
          kind'[b] = kind[b] /\ failed'[b] = failed[b] /\ closer'[b] = closer[b]
    BY <1>1 DEF AllRowsDone, BodyEnds
  <2>2. kind'[a] = "undo" => kind[a] = "undo"
    BY <1>1 DEF AllRowsDone, BodyEnds
  <2>3. CASE closer[a] = "await" /\ kind[a] = "undo"
    <3>0. at[a] \in 0..(RowCount + 1) /\ at[a] \notin 1..RowCount /\ at[a] <= RowCount
      BY <1>1, <2>3 DEF AllRowsDone, InRow, Span, AtRow, Row
    <3>1. \A r \in Row : r > at[a]
      BY <3>0 DEF Row
    <3>2. failed' = failed /\ rows' = rows /\ token' = token
      BY <1>1 DEF AllRowsDone, BodyEnds, db
    <3> QED
      BY <1>1, <2>1, <2>3, <3>1, <3>2 DEF AllRowsDone, AtRow, DeletedSoFar
  <2>4. CASE ~(closer[a] = "await" /\ kind[a] = "undo")
    BY <1>1, <2>1, <2>2, <2>4 DEF AllRowsDone, BodyEnds, db
  <2> QED
    BY <2>3, <2>4
<1>2. ASSUME NEW a \in Attempt, IntendDelete(a) PROVE DeletedAll'
  BY <1>2 DEF IntendDelete, Held
<1>3. ASSUME NEW a \in Attempt, ClaimResume(a) \/ ClaimUndo(a) \/ Heartbeat(a) \/
             HeartbeatFails(a) \/ CloseStatus(a) \/ Release(a) \/ CloserFails(a)
      PROVE  DeletedAll'
  BY <1>3, SMTT(30) DEF ClaimResume, Claim, Free, Claimable, Goto, ClaimUndo,
     Heartbeat, Renew, HeartbeatFails, Fault, CloseStatus, FinalStatus, Release,
     CloserFails, Kinds, Positioned, Row, db, ts, memory, history
<1>4. ASSUME NEW a \in Attempt, Load(a) \/ List(a) \/ SkipDeleted(a) \/ StartRow(a) \/
             IdentifyFound(a) \/ IdentifyNone(a) \/ IdentifyConflict(a)
      PROVE  DeletedAll'
  BY <1>4, SMTT(30) DEF Load, Goto, List, SkipDeleted, InRow, NextRow, StartRow,
     Renew, Held, IdentifyFound, Owned, Candidates, IdentifyNone, IdentifyConflict,
     Kinds, Positioned, Row, db, ts, memory, history
<1>5. ASSUME NEW a \in Attempt, IntendCreate(a) PROVE DeletedAll'
  BY <1>5, SMTT(30) DEF IntendCreate, Goto, Kinds, Positioned, Row, db, ts, memory,
     history
<1>6. ASSUME NEW a \in Attempt, RecordCid(a) PROVE DeletedAll'
  BY <1>6, SMTT(30) DEF RecordCid, Renew, Created, Goto, Held, Kinds, Positioned, Row,
     db, ts, memory, history
<1>7. ASSUME NEW a \in Attempt, FinishRow(a) PROVE DeletedAll'
  BY <1>7, SMTT(30) DEF FinishRow, NextRow, Goto, Kinds, Positioned, Row, db, ts,
     memory, history
<1>8. ASSUME NEW a \in Attempt, EraseRow(a) PROVE DeletedAll'
  BY <1>8, SMTT(30) DEF EraseRow, NextRow, Goto, Kinds, Positioned, Row, db, ts,
     memory, history
<1>9. ASSUME NEW a \in Attempt, OrderCreate(a) \/ StoreImage(a) \/ SaveImage(a) \/
             PointChannel(a) \/ OrderDelete(a)
      PROVE  DeletedAll'
  BY <1>9, SMTT(30) DEF OrderCreate, Renew, Held, Send, Goto, ParentCid, StoreImage,
     SaveImage, PointChannel, OrderDelete, Kinds, Positioned, Row, db, ts, memory,
     history
<1>10. ASSUME NEW a \in Attempt, CatchResume(a) PROVE DeletedAll'
  BY <1>10, SMTT(30) DEF CatchResume, BodyEnds, Goto, AfterError, Kinds, Positioned,
     Row, db, ts, memory, history
<1>11. ASSUME NEW a \in Attempt, LeaseLost(a) \/ StepRejected(a) \/ StepFails(a) \/
              CatchUndo(a) \/ Stop(a) \/ Crash(a)
       PROVE  DeletedAll'
  BY <1>11, SMTT(30) DEF LeaseLost, BodyEnds, Goto, InRow, StepRejected, StepFails,
     Fault, CatchUndo, NextRow, Stop, Crash, Kinds, Positioned, Row, db, ts, memory,
     history
<1>12. ASSUME NEW a \in Attempt, ExecCreate(a) \/ CreateUnseen(a) \/ ExecEdit(a) \/
              ExecDelete(a) \/ Refuse(a) \/ Vanish(a)
       PROVE  DeletedAll'
  BY <1>12, SMTT(30) DEF ExecCreate, NewChannel, Goto, Awaited, Answered,
     CreateUnseen, Fault, ExecEdit, ExecDelete, Subtree, Refuse, Vanish, Kinds,
     Positioned, Row, db, ts, memory, history
<1>13. ASSUME LeaseExpires \/ LeaseStalls \/ Occupy \/ Vacate \/ Tamper \/ Readdress \/ Remove \/
              DeleteImage
       PROVE  DeletedAll'
  BY <1>13, SMTT(30) DEF LeaseExpires, LeaseStalls, Fault, Occupy, Replace, Vacate,
     Tamper, Readdress, Remove, Subtree, DeleteImage, Kinds, Positioned, Row, db, ts, memory,
     history
<1>14. ASSUME UNCHANGED vars PROVE DeletedAll'
  BY <1>14 DEF Kinds, Positioned, Row, vars, db, ts, memory, history
<1> QED
  BY <1>1, <1>2, <1>3, <1>4, <1>5, <1>6, <1>7, <1>8, <1>9, <1>10, <1>11, <1>12, <1>13,
     <1>14
  DEF Next, NextAlone, Body, Closer, Server, Failure, Outsiders

LEMMA UndoneRowsStep == CleanInv /\ [Next]_vars => UndoneRows'
<1> SUFFICES ASSUME CleanInv, [Next]_vars, status' = "undone", NEW r \in Row
             PROVE  rows'[r].status = "deleted"
  BY DEF UndoneRows
<1> USE DEF CleanInv, PhaseInv, UndoInv
<1>1. CASE status = "undone"
  BY <1>1, UndoStays DEF UndoneRows
<1>2. ASSUME NEW a \in Attempt, CloseStatus(a), status # "undone"
      PROVE  rows'[r].status = "deleted"
  <2>1. token = a /\ closer[a] = "status" /\ ~failed[a] /\ kind[a] # "resume" /\ rows' = rows
    BY <1>2 DEF CloseStatus, FinalStatus
  <2>2. kind[a] = "undo"
    BY <2>1 DEF Kinds, TypeInv, TypeOK, MemoryTypeOK
  <2> QED
    BY <2>1, <2>2 DEF DeletedAll
<1> QED
  BY <1>1, <1>2, StatusFrame DEF ClaimResume, ClaimUndo, Claim

LEMMA CleanInvInit == Init => CleanInv
BY PhaseInvInit, RunAssumption
   DEF Init, CleanInv, AtRow, Span, Listed, Gone, DeletedGone, DeletedSeen,
          InHandNotDeleted,
       DeletedSoFar, DeletedAll, UndoneRows, NoRows, FreshRow

LEMMA CleanInvStep == CleanInv /\ [Next]_vars => CleanInv'
<1>1. CleanInv => PhaseInv
  BY DEF CleanInv
<1> QED
  BY <1>1, PhaseInvStep, SpanStep, ListedStep, GoneStep, DeletedGoneStep, DeletedSeenStep,
     InHandNotDeletedStep, DeletedSoFarStep, DeletedAllStep, UndoneRowsStep DEF CleanInv

\* "undone" is only written when no channel of the run is left and none can
\* still appear, whatever was ordered before and by whom.
THEOREM UndoneMeansClean == Spec => []UndoneIsClean
<1>1. CleanInv => UndoneIsClean
  <2> SUFFICES ASSUME CleanInv, status = "undone"
               PROVE  /\ channels = {}
                      /\ \A a \in Attempt : cmd[a].op # "create"
                      /\ \A r \in Row : rows[r].status = "deleted"
    BY DEF UndoneIsClean
  <2>1. \A r \in Row : rows[r].status = "deleted" /\ NoneLeft(r)
    BY DEF CleanInv, UndoneRows, DeletedGone
  <2>2. \A ch \in channels : ch.row \in Row
    BY DEF CleanInv, PhaseInv, UndoInv, TypeInv, TypeOK, ServerTypeOK, Channel
  <2>3. \A a \in Attempt : cmd[a].op = "create" => cmd[a].row \in Row
    BY DEF CleanInv, PhaseInv, UndoInv, TypeInv, TypeOK, ServerTypeOK, Command, NoCommand
  <2> QED
    BY <2>1, <2>2, <2>3 DEF NoneLeft
<1> QED
  BY CleanInvInit, CleanInvStep, <1>1, PTL DEF Spec
=============================================================================
