---------------------------- MODULE WallpaperProofs ----------------------------
(***************************************************************************)
(* Proofs about wallpaper requests, from the page to the database, for     *)
(* every set of handlers, drafts, trees and pictures, and every limit:     *)
(* one run per wish, created as previewed, answered as asked, unfinished   *)
(* runs limited, lists that never go back; and where the slices lie.       *)
(*                                                                         *)
(* RowsOn stays a black box: what a run is made of is a function of the    *)
(* settings, the tree and the bytes, which is all that these proofs need.  *)
(***************************************************************************)
EXTENDS WallpaperPanel, FiniteSetTheorems, TLAPS

-----------------------------------------------------------------------------
(* Types *)

Status == OpenStatus \cup {"completed", "undone"}
Answer == [id : RequestId \cup {0}, status : Status \cup {"failure"}, version : Nat]
Job ==
  [op : {"none", "generate", "resume", "undo"},
   stage : {"idle", "received", "prepare", "claim", "work", "answered"},
   id : RequestId \cup {0}, draft : Draft \cup {Nothing}, bytes : Pictures \cup {Nothing},
   tree : Trees \cup {Nothing}, heard : BOOLEAN, answer : Answer]

RunsType == runs \in [RequestId -> Run \cup {Nothing}]
JobsType == job \in [Handler -> Job]
WorldType == tree \in Trees /\ picture \in [Source -> Pictures]

AllRows == {RowsOn(t, d, b) : t \in Trees, d \in Draft, b \in Pictures} \cup {<<>>}
Preview == [draft : Draft, live : BOOLEAN, rows : AllRows, stamp : Trees \X Pictures]
Lists == [RequestId -> Answer \cup {Nothing}]
PreviewType ==
  /\ draft \in Draft \cup {Nothing} /\ loading \in BOOLEAN
  /\ preview \in Preview \cup {Nothing} /\ previewBody \in Preview \cup {Nothing}
  /\ loading => draft # Nothing
ListType ==
  /\ shown \in Lists /\ listing \in BOOLEAN
  /\ listBody \in [live : BOOLEAN, list : Lists] \cup {Nothing}
ActionType ==
  /\ mounted \in BOOLEAN /\ reloading \in BOOLEAN /\ waiting \in Handler \cup {Nothing}
  /\ saved \in Saved \cup {Nothing} /\ drawn \in Nat
WishType ==
  /\ wish \in [draft : Draft \cup {Nothing}, number : Nat, open : BOOLEAN]
  /\ wishOf \in [RequestId -> Nat]
  /\ promised \in [RequestId -> [rows : AllRows, stamp : Trees \X Pictures] \cup {Nothing}]
Typed == RunsType /\ JobsType /\ WorldType /\ PreviewType /\ ListType /\ ActionType /\ WishType

-----------------------------------------------------------------------------
(* The invariant *)

\* A handler works on what it was asked for.
JobOK(j) ==
  /\ j.op = "generate" => j.id \in RequestId /\ j.draft \in Draft /\ j.id <= drawn
  /\ j.stage \in {"received", "prepare"} => j.op = "generate"
  /\ j.stage = "prepare" => j.bytes \in Pictures /\ j.tree \in Trees
  /\ j.stage \in {"claim", "work"} => j.id \in RequestId /\ Exists(j.id)
  /\ j.op = "generate" /\ j.stage \in {"claim", "work"} => runs[j.id].hash = RequestHash(j)
AnswerOK(j) ==
  j.stage = "answered" /\ j.answer # Failure =>
    /\ j.answer.id \in RequestId /\ Exists(j.answer.id)
    /\ j.answer.version <= runs[j.answer.id].version
    /\ j.op = "generate" => runs[j.answer.id].hash = RequestHash(j)
Jobs == \A h \in Handler : JobOK(job[h]) /\ AnswerOK(job[h])

\* What is told of a run is not newer than the run.
Known(list) == \A u \in RequestId : list[u] # Nothing => Exists(u) /\ list[u].version <= runs[u].version
Told ==
  /\ Known(shown)
  /\ listBody # Nothing => Known(listBody.list)
  /\ Live(listBody) =>
       \A u \in RequestId :
         shown[u] # Nothing /\ listBody.list[u] # Nothing => listBody.list[u].version >= shown[u].version

\* A run that never ended is open.
Unclosed ==
  /\ \A u \in RequestId : Exists(u) /\ ~runs[u].closed => runs[u].status \in OpenStatus
  /\ UnfinishedRunsLimited

\* An id is drawn once, for one wish; a wish that is open has its id in the storage.
Wishes ==
  /\ \A u \in RequestId : Exists(u) => u <= drawn
  /\ saved # Nothing => saved.id <= drawn
  /\ wish.open => saved # Nothing /\ saved.draft = wish.draft
  /\ \A u \in RequestId : wishOf[u] <= wish.number
  /\ \A u, v \in RequestId : u <= drawn /\ v <= drawn /\ wishOf[u] = wishOf[v] => u = v

\* What is previewed comes from the settings it is shown for.
FromDraft(p) == p.rows # <<>> => p.rows = RowsOn(p.stamp[1], p.draft, p.stamp[2])
Previewed ==
  /\ previewBody # Nothing => FromDraft(previewBody)
  /\ preview # Nothing => FromDraft(preview)

\* All that has to do with one id has to do with one draft.
Concerns(u, d) ==
  /\ promised[u] # Nothing =>
       promised[u].rows = RowsOn(promised[u].stamp[1], d, promised[u].stamp[2])
  /\ Exists(u) => runs[u].rows = RowsOn(runs[u].stamp[1], d, runs[u].stamp[2])
  /\ \A h \in Handler : job[h].op = "generate" /\ job[h].id = u => job[h].draft = d
  /\ saved # Nothing /\ saved.id = u => saved.draft = d
Drafted == \A u \in RequestId : u <= drawn => \E d \in Draft : Concerns(u, d)

IInv == Typed /\ Jobs /\ Told /\ Unclosed /\ Wishes /\ Previewed /\ Drafted

-----------------------------------------------------------------------------
(* What the constants and the operators are. *)

LEMMA Constants ==
  /\ Nothing \notin Run /\ Nothing \notin Saved /\ Nothing \notin Handler /\ MaxOpenRuns \in Nat
  /\ RequestId \subseteq Nat /\ 0 \notin RequestId /\ IsFiniteSet(RequestId)
  /\ FirstTree \in Trees /\ FirstPictures \in [Source -> Pictures] /\ RemoteSource \subseteq Source
BY AdmissionAssumption, PanelAssumption

LEMMA Sources == \A d \in Draft : d.source \in Source
BY DEF Source

LEMMA FailureIsAnAnswer == Failure \in Answer
BY DEF Failure, Answer

LEMMA IdleIsAJob ==
  Idle \in Job /\ Idle.op = "none" /\ Idle.stage = "idle" /\ Idle.id = 0
BY FailureIsAnAnswer DEF Idle, Job

LEMMA Responds ==
  ASSUME NEW j \in Job, NEW a \in Answer
  PROVE  LET r == Respond(j, a)
         IN  /\ r \in Job
             /\ \/ r = Idle
                \/ /\ r.op = j.op /\ r.id = j.id /\ r.draft = j.draft /\ r.bytes = j.bytes
                   /\ r.stage = "answered" /\ r.answer = a
<1>1. CASE j.heard
  BY <1>1 DEF Respond, Job
<1>2. CASE ~j.heard
  BY <1>2, IdleIsAJob DEF Respond
<1> QED BY <1>1, <1>2

LEMMA Results ==
  ASSUME RunsType, NEW u \in RequestId, Exists(u)
  PROVE  Result(u) \in Answer /\ Result(u).id = u /\ Result(u).version = runs[u].version
<1>1. runs[u] \in Run
  BY DEF RunsType, Exists
<1> QED BY <1>1 DEF Result, Answer, Status, OpenStatus, Run

LEMMA RowsAreRows ==
  ASSUME NEW t \in Trees, NEW d \in Draft, NEW b \in Pictures
  PROVE  RowsOn(t, d, b) \in AllRows
BY DEF AllRows

LEMMA NewRuns ==
  ASSUME NEW j \in Job, j.draft \in Draft, j.bytes \in Pictures, j.tree \in Trees
  PROVE  /\ NewRun(j) \in Run /\ NewRun(j).hash = RequestHash(j)
         /\ NewRun(j).rows = RowsOn(j.tree, j.draft, j.bytes) /\ NewRun(j).stamp = <<j.tree, j.bytes>>
         /\ NewRun(j).status \in OpenStatus /\ ~NewRun(j).closed
<1>1. RequestHash(j) \in Pictures \X {Settings(d) : d \in Draft}
  BY DEF RequestHash
<1>2. RowsOn(j.tree, j.draft, j.bytes) \in {RowsOn(t, d, b) : t \in Trees, d \in Draft, b \in Pictures}
  OBVIOUS
<1>3. Cardinality({u \in RequestId : Exists(u)}) \in Nat
  BY Constants, FS_Subset, FS_CardinalityType
<1>4. "pending" \in OpenStatus
  BY DEF OpenStatus
<1>5. <<j.tree, j.bytes>> \in Trees \X Pictures
  OBVIOUS
<1> QED BY <1>1, <1>2, <1>3, <1>4, <1>5 DEF NewRun, Run

-----------------------------------------------------------------------------
(* What the steps of the server do to the runs. *)

\* A run goes on.
Goes(u, r) ==
  /\ r \in Run /\ r.hash = runs[u].hash /\ r.rows = runs[u].rows /\ r.stamp = runs[u].stamp
  /\ r.version >= runs[u].version
  /\ ~r.closed => ~runs[u].closed /\ (runs[u].status \in OpenStatus => r.status \in OpenStatus)

LEMMA LookUpDoes ==
  ASSUME NEW h \in Handler, LookUp(h), RunsType, JobsType, WorldType, Jobs
  PROVE  \E n \in Job :
           /\ job' = [job EXCEPT ![h] = n] /\ job[h].op = "generate"
           /\ \/ n = Idle
              \/ /\ n.op = "generate" /\ n.id = job[h].id /\ n.draft = job[h].draft
                 /\ \/ n.stage = "answered" /\ n.answer = Failure
                    \/ /\ n.stage = "answered" /\ n.answer = Result(n.id)
                       /\ Exists(n.id) /\ runs[n.id].hash = RequestHash(n)
                    \/ n.stage = "prepare" /\ n.bytes \in Pictures /\ n.tree \in Trees
<1> DEFINE j == [job[h] EXCEPT !.bytes = picture[job[h].draft.source]]
<1>1. job[h] \in Job /\ job[h].op = "generate" /\ job[h].id \in RequestId /\ job[h].draft \in Draft
  BY DEF JobsType, LookUp, At, Jobs, JobOK
<1>2. picture[job[h].draft.source] \in Pictures
  BY <1>1, Sources DEF WorldType
<1>3. j \in Job /\ j.op = "generate" /\ j.id = job[h].id /\ j.draft = job[h].draft /\ j.bytes \in Pictures
  BY <1>1, <1>2 DEF Job
<1>4. CASE Exists(j.id)
  <2>1. job' = [job EXCEPT ![h] = Respond(j, Existing(j.id, RequestHash(j)))]
    BY <1>4 DEF LookUp, Become
  <2>2. CASE runs[j.id].hash = RequestHash(j)
    <3>1. Existing(j.id, RequestHash(j)) = Result(j.id) /\ Result(j.id) \in Answer
      BY <2>2, <1>1, <1>3, <1>4, Results DEF Existing
    <3> DEFINE n == Respond(j, Result(j.id))
    <3>2. n \in Job /\ (n = Idle \/ (n.op = j.op /\ n.id = j.id /\ n.draft = j.draft
                                      /\ n.bytes = j.bytes /\ n.stage = "answered" /\ n.answer = Result(j.id)))
      BY <1>3, <3>1, Responds
    <3>3. n # Idle => RequestHash(n) = RequestHash(j)
      BY <3>2 DEF RequestHash
    <3> HIDE DEF n, j
    <3> QED BY <1>1, <1>3, <1>4, <2>1, <2>2, <3>1, <3>2, <3>3 DEF n
  <2>3. CASE runs[j.id].hash # RequestHash(j)
    <3>1. Existing(j.id, RequestHash(j)) = Failure
      BY <2>3 DEF Existing
    <3> DEFINE n == Respond(j, Failure)
    <3>2. n \in Job /\ (n = Idle \/ (n.op = j.op /\ n.id = j.id /\ n.draft = j.draft
                                      /\ n.stage = "answered" /\ n.answer = Failure))
      BY <1>3, FailureIsAnAnswer, Responds
    <3> HIDE DEF n, j
    <3> QED BY <1>1, <1>3, <2>1, <3>1, <3>2 DEF n
  <2> QED BY <2>2, <2>3
<1>5. CASE ~Exists(j.id) /\ RowsOf(j.draft, j.bytes) = <<>>
  <2>1. job' = [job EXCEPT ![h] = Respond(j, Failure)]
    BY <1>5 DEF LookUp, Become
  <2> DEFINE n == Respond(j, Failure)
  <2>2. n \in Job /\ (n = Idle \/ (n.op = j.op /\ n.id = j.id /\ n.draft = j.draft
                                    /\ n.stage = "answered" /\ n.answer = Failure))
    BY <1>3, FailureIsAnAnswer, Responds
  <2> HIDE DEF n, j
  <2> QED BY <1>1, <1>3, <2>1, <2>2 DEF n
<1>6. CASE ~Exists(j.id) /\ RowsOf(j.draft, j.bytes) # <<>>
  <2> DEFINE n == [j EXCEPT !.stage = "prepare", !.tree = tree]
  <2>1. job' = [job EXCEPT ![h] = n]
    BY <1>6 DEF LookUp, Become
  <2>2. /\ n \in Job /\ n.op = "generate" /\ n.id = j.id /\ n.draft = j.draft
        /\ n.stage = "prepare" /\ n.bytes \in Pictures /\ n.tree \in Trees
    BY <1>3 DEF Job, WorldType
  <2> HIDE DEF n, j
  <2> QED BY <1>1, <1>3, <2>1, <2>2
<1> QED BY <1>4, <1>5, <1>6

\* A step writes a few fields of a run.
LEMMA Fields ==
  ASSUME NEW q \in Run
  PROVE  /\ \A st \in OpenStatus \cup {"completed", "undone"} : [q EXCEPT !.status = st] \in Run
         /\ \A le \in {"none", "valid", "expired"} : [q EXCEPT !.lease = le] \in Run
         /\ [q EXCEPT !.version = @ + 1] \in Run
         /\ \A cl \in BOOLEAN : [q EXCEPT !.closed = cl] \in Run
<1>1. ASSUME NEW st \in OpenStatus \cup {"completed", "undone"} PROVE [q EXCEPT !.status = st] \in Run
  BY DEF Run
<1>2. ASSUME NEW le \in {"none", "valid", "expired"} PROVE [q EXCEPT !.lease = le] \in Run
  BY DEF Run
<1>3. [q EXCEPT !.version = @ + 1] \in Run
  BY DEF Run
<1>4. ASSUME NEW cl \in BOOLEAN PROVE [q EXCEPT !.closed = cl] \in Run
  BY DEF Run
<1> QED BY <1>1, <1>2, <1>3, <1>4

LEMMA FailsDoes ==
  ASSUME NEW h \in Handler, Fails(h), JobsType
  PROVE  \E n \in Job :
           /\ job' = [job EXCEPT ![h] = n] /\ runs' = runs
           /\ \/ n = Idle
              \/ /\ n.op = job[h].op /\ n.id = job[h].id /\ n.draft = job[h].draft
                 /\ n.stage = "answered" /\ n.answer = Failure
<1> DEFINE n == Respond(job[h], Failure)
<1>1. job' = [job EXCEPT ![h] = n] /\ runs' = runs
  BY DEF Fails, Reply, Become
<1>2. n \in Job /\ (n = Idle \/ (n.op = job[h].op /\ n.id = job[h].id /\ n.draft = job[h].draft
                                  /\ n.stage = "answered" /\ n.answer = Failure))
  BY FailureIsAnAnswer, Responds DEF JobsType
<1> HIDE DEF n
<1> QED BY <1>1, <1>2

LEMMA PrepareDoes ==
  ASSUME NEW h \in Handler, Prepare(h), RunsType, JobsType, Jobs
  PROVE  /\ job[h].op = "generate" /\ job[h].id \in RequestId /\ job[h].stage = "prepare"
         /\ job[h].draft \in Draft /\ job[h].bytes \in Pictures /\ job[h].tree \in Trees
         /\ \E n \in Job :
              /\ job' = [job EXCEPT ![h] = n]
              /\ n = Idle \/ (n.op = "generate" /\ n.id = job[h].id /\ n.draft = job[h].draft)
              /\ \/ /\ runs' = runs
                    /\ n = Idle \/ (n.stage = "answered" /\ n.answer = Failure)
                 \/ /\ runs' = runs
                    /\ n.stage = "claim" /\ Exists(n.id) /\ runs[n.id].hash = RequestHash(n)
                 \/ /\ ~LimitReached /\ ~Exists(job[h].id)
                    /\ runs' = [runs EXCEPT ![job[h].id] = NewRun(job[h])]
                    /\ n.stage = "claim" /\ n.id = job[h].id /\ RequestHash(n) = RequestHash(job[h])
<1> DEFINE j == job[h]
<1>1. /\ j \in Job /\ j.op = "generate" /\ j.id \in RequestId /\ j.stage = "prepare"
      /\ j.draft \in Draft /\ j.bytes \in Pictures /\ j.tree \in Trees
  BY DEF JobsType, Prepare, At, Jobs, JobOK
<1> DEFINE r == Respond(j, Failure)
           c == [j EXCEPT !.stage = "claim"]
<1>2. r \in Job /\ (r = Idle \/ (r.op = j.op /\ r.id = j.id /\ r.draft = j.draft
                                  /\ r.stage = "answered" /\ r.answer = Failure))
  BY <1>1, FailureIsAnAnswer, Responds
<1>3. c \in Job /\ c.op = j.op /\ c.id = j.id /\ c.draft = j.draft /\ c.bytes = j.bytes /\ c.stage = "claim"
  BY <1>1 DEF Job
<1>4. RequestHash(c) = RequestHash(j)
  BY <1>3 DEF RequestHash
<1>5. \/ runs' = runs /\ job' = [job EXCEPT ![h] = r]
      \/ /\ runs' = runs /\ job' = [job EXCEPT ![h] = c]
         /\ Exists(j.id) /\ Existing(j.id, RequestHash(j)) # Failure
      \/ /\ ~LimitReached /\ ~Exists(j.id) /\ job' = [job EXCEPT ![h] = c]
         /\ runs' = [runs EXCEPT ![j.id] = NewRun(j)]
  BY DEF Prepare, Reply, Become, Move
<1>6. Existing(j.id, RequestHash(j)) # Failure => runs[j.id].hash = RequestHash(j)
  BY DEF Existing
<1> HIDE DEF r, c
<1>7. CASE runs' = runs /\ job' = [job EXCEPT ![h] = r]
  BY <1>1, <1>2, <1>7
<1>8. CASE /\ runs' = runs /\ job' = [job EXCEPT ![h] = c]
           /\ Exists(j.id) /\ Existing(j.id, RequestHash(j)) # Failure
  BY <1>1, <1>3, <1>4, <1>6, <1>8
<1>9. CASE /\ ~LimitReached /\ ~Exists(j.id) /\ job' = [job EXCEPT ![h] = c]
           /\ runs' = [runs EXCEPT ![j.id] = NewRun(j)]
  BY <1>1, <1>3, <1>4, <1>9
<1> QED BY <1>5, <1>7, <1>8, <1>9

LEMMA ClaimDoes ==
  ASSUME NEW h \in Handler, Claim(h), RunsType, JobsType, Jobs
  PROVE  /\ job[h].id \in RequestId /\ Exists(job[h].id) /\ job[h].stage = "claim"
         /\ \E n \in Job :
              /\ job' = [job EXCEPT ![h] = n]
              /\ n = Idle \/ (n.op = job[h].op /\ n.id = job[h].id /\ n.draft = job[h].draft
                               /\ RequestHash(n) = RequestHash(job[h]))
              /\ \/ /\ runs' = runs
                    /\ n = Idle \/ (n.stage = "answered" /\ n.answer \in {Failure, Result(job[h].id)})
                 \/ /\ n.stage = "work"
                    /\ \E r \in Run : Goes(job[h].id, r) /\ runs' = [runs EXCEPT ![job[h].id] = r]
<1> DEFINE j == job[h]
           u == job[h].id
<1>1. j \in Job /\ u \in RequestId /\ Exists(u) /\ j.stage = "claim" /\ runs[u] \in Run
  BY DEF JobsType, Claim, At, Jobs, JobOK, RunsType, Exists
<1>2. Result(u) \in Answer
  BY <1>1, Results
<1>3. ASSUME NEW a \in {Failure, Result(u)}, runs' = runs, job' = [job EXCEPT ![h] = Respond(j, a)]
      PROVE  \E n \in Job :
              /\ job' = [job EXCEPT ![h] = n]
              /\ n = Idle \/ (n.op = j.op /\ n.id = u /\ n.draft = j.draft /\ RequestHash(n) = RequestHash(j))
              /\ n = Idle \/ (n.stage = "answered" /\ n.answer \in {Failure, Result(u)})
  <2> DEFINE n == Respond(j, a)
  <2>1. n \in Job /\ (n = Idle \/ (n.op = j.op /\ n.id = j.id /\ n.draft = j.draft /\ n.bytes = j.bytes
                                    /\ n.stage = "answered" /\ n.answer = a))
    BY <1>1, <1>2, FailureIsAnAnswer, Responds
  <2>2. n # Idle => RequestHash(n) = RequestHash(j)
    BY <2>1 DEF RequestHash
  <2> HIDE DEF n
  <2> QED BY <1>3, <2>1, <2>2 DEF n
<1> DEFINE c == [j EXCEPT !.stage = "work"]
           st == IF j.op = "undo" THEN "undoing" ELSE "running"
           r == [runs[u] EXCEPT !.lease = "valid", !.version = @ + 1, !.status = st]
<1>4. c \in Job /\ c.op = j.op /\ c.id = u /\ c.draft = j.draft /\ c.bytes = j.bytes /\ c.stage = "work"
  BY <1>1 DEF Job
<1>5. RequestHash(c) = RequestHash(j)
  BY <1>4 DEF RequestHash
<1>6. st \in OpenStatus
  BY DEF OpenStatus
<1>7. r \in Run /\ Goes(u, r)
  <2> st \in OpenStatus
    BY <1>6
  <2> HIDE DEF st
  <2>1. /\ r.hash = runs[u].hash /\ r.rows = runs[u].rows /\ r.stamp = runs[u].stamp /\ r.at = runs[u].at
        /\ r.version = runs[u].version + 1 /\ r.status = st /\ r.closed = runs[u].closed /\ r.lease = "valid"
    BY <1>1 DEF Run
  <2>2. r \in Run
    <3> DEFINE r1 == [runs[u] EXCEPT !.lease = "valid"]
               r2 == [r1 EXCEPT !.version = @ + 1]
    <3>1. r1 \in Run
      BY <1>1, Fields
    <3>2. r2 \in Run
      BY <3>1, Fields
    <3>3. [r2 EXCEPT !.status = st] \in Run
      BY <3>2, Fields
    <3> QED BY <3>3
  <2> QED BY <1>1, <2>1, <2>2 DEF Goes, Run
<1>8. \/ \E a \in {Failure, Result(u)} : runs' = runs /\ job' = [job EXCEPT ![h] = Respond(j, a)]
      \/ runs' = [runs EXCEPT ![u] = r] /\ job' = [job EXCEPT ![h] = c]
  BY DEF Claim, Reply, Become, Move
<1> HIDE DEF c, r, st
<1>9. CASE \E a \in {Failure, Result(u)} : runs' = runs /\ job' = [job EXCEPT ![h] = Respond(j, a)]
  BY <1>1, <1>3, <1>9
<1>10. CASE runs' = [runs EXCEPT ![u] = r] /\ job' = [job EXCEPT ![h] = c]
  BY <1>1, <1>4, <1>5, <1>7, <1>10
<1> QED BY <1>8, <1>9, <1>10

LEMMA FinishDoes ==
  ASSUME NEW h \in Handler, Finish(h), RunsType, JobsType, Jobs
  PROVE  /\ job[h].id \in RequestId /\ Exists(job[h].id) /\ job[h].stage = "work"
         /\ \E n \in Job, r \in Run, a \in Answer :
              /\ job' = [job EXCEPT ![h] = n]
              /\ Goes(job[h].id, r) /\ runs' = [runs EXCEPT ![job[h].id] = r]
              /\ ~r.closed => r.status \in OpenStatus
              /\ a.id = job[h].id /\ a.version = r.version
              /\ n = Idle \/ (n.op = job[h].op /\ n.id = job[h].id /\ n.draft = job[h].draft
                               /\ RequestHash(n) = RequestHash(job[h])
                               /\ n.stage = "answered" /\ n.answer = a)
<1> DEFINE j == job[h]
           u == job[h].id
<1>1. j \in Job /\ u \in RequestId /\ Exists(u) /\ j.stage = "work" /\ runs[u] \in Run
  BY DEF JobsType, Finish, At, Jobs, JobOK, RunsType, Exists
<1>2. PICK st \in {"undone", "undo-partial", "completed", "partial-failure"} :
        /\ runs' = [runs EXCEPT ![u].status = st, ![u].version = @ + 1, ![u].lease = "none",
                                ![u].closed = @ \/ st \notin OpenStatus]
        /\ job' = [job EXCEPT ![h] = Respond(j, [id |-> u, status |-> st, version |-> runs[u].version + 1])]
  BY DEF Finish, Reply, Become
<1> DEFINE a == [id |-> u, status |-> st, version |-> runs[u].version + 1]
           n == Respond(j, a)
           cl == runs[u].closed \/ st \notin OpenStatus
           r == [runs[u] EXCEPT !.status = st, !.version = @ + 1, !.lease = "none", !.closed = cl]
<1>3. st \in Status
  BY DEF Status, OpenStatus
<1>4. a \in Answer /\ a.id = u /\ a.version = runs[u].version + 1
  BY <1>1, <1>3 DEF Answer, Run
<1>5. n \in Job /\ (n = Idle \/ (n.op = j.op /\ n.id = j.id /\ n.draft = j.draft /\ n.bytes = j.bytes
                                  /\ n.stage = "answered" /\ n.answer = a))
  BY <1>1, <1>4, Responds
<1>6. n # Idle => RequestHash(n) = RequestHash(j)
  BY <1>5 DEF RequestHash
<1>7. cl \in BOOLEAN /\ (~cl => ~runs[u].closed /\ st \in OpenStatus)
  OBVIOUS
<1>8. runs' = [runs EXCEPT ![u] = r] /\ job' = [job EXCEPT ![h] = n]
  BY <1>2
<1> HIDE DEF cl, a, n
<1>9. /\ r.hash = runs[u].hash /\ r.rows = runs[u].rows /\ r.stamp = runs[u].stamp
      /\ r.version = runs[u].version + 1 /\ r.status = st /\ r.closed = cl
  BY <1>1 DEF Run
<1>10. r \in Run
  <2> DEFINE r1 == [runs[u] EXCEPT !.status = st]
             r2 == [r1 EXCEPT !.version = @ + 1]
             r3 == [r2 EXCEPT !.lease = "none"]
  <2>1. r1 \in Run
    BY <1>1, <1>3, Fields DEF Status
  <2>2. r2 \in Run
    BY <2>1, Fields
  <2>3. r3 \in Run
    BY <2>2, Fields
  <2>4. [r3 EXCEPT !.closed = cl] \in Run
    BY <2>3, <1>7, Fields
  <2> QED BY <2>4
<1> HIDE DEF r
<1>11. Goes(u, r) /\ (~r.closed => r.status \in OpenStatus)
  BY <1>1, <1>7, <1>9, <1>10 DEF Goes, Run
<1>12. a.version = r.version
  BY <1>4, <1>9
<1>13. job[h].id \in RequestId /\ Exists(job[h].id) /\ job[h].stage = "work"
  BY <1>1
<1>14. /\ job' = [job EXCEPT ![h] = n]
       /\ Goes(job[h].id, r) /\ runs' = [runs EXCEPT ![job[h].id] = r]
       /\ ~r.closed => r.status \in OpenStatus
       /\ a.id = job[h].id /\ a.version = r.version
       /\ n = Idle \/ (n.op = job[h].op /\ n.id = job[h].id /\ n.draft = job[h].draft
                        /\ RequestHash(n) = RequestHash(job[h])
                        /\ n.stage = "answered" /\ n.answer = a)
  BY <1>4, <1>5, <1>6, <1>8, <1>11, <1>12
<1> QED BY <1>4, <1>5, <1>10, <1>13, <1>14

LEMMA LeaseExpiresDoes ==
  ASSUME NEW u \in RequestId, LeaseExpires(u), RunsType
  PROVE  Exists(u) /\ \E r \in Run : Goes(u, r) /\ runs' = [runs EXCEPT ![u] = r]
<1> DEFINE r == [runs[u] EXCEPT !.lease = "expired"]
<1>1. Exists(u) /\ runs[u] \in Run /\ runs' = [runs EXCEPT ![u] = r]
  BY DEF LeaseExpires, RunsType, Exists
<1>2. r \in Run /\ Goes(u, r)
  BY <1>1 DEF Run, Goes
<1> HIDE DEF r
<1> QED BY <1>1, <1>2

-----------------------------------------------------------------------------
(* What the page and a crash do to the jobs. *)

\* A client that no longer listens changes nothing of the work.
Same(n, j) ==
  /\ n.op = j.op /\ n.id = j.id /\ n.draft = j.draft /\ n.bytes = j.bytes /\ n.tree = j.tree
  /\ n.stage = j.stage /\ n.answer = j.answer

LEMMA Unheard ==
  ASSUME NEW j \in Job
  PROVE  [j EXCEPT !.heard = FALSE] \in Job /\ Same([j EXCEPT !.heard = FALSE], j)
<1>1. [j EXCEPT !.heard = FALSE] \in Job
  BY DEF Job
<1>2. Same([j EXCEPT !.heard = FALSE], j)
  BY DEF Job, Same
<1> QED BY <1>1, <1>2

LEMMA AcceptDoes ==
  ASSUME NEW h \in Handler, NEW op \in {"generate", "resume", "undo"}, NEW id \in RequestId,
         NEW d \in Draft \cup {Nothing}, Accept(h, op, id, d)
  PROVE  \E n \in Job :
           /\ job' = [job EXCEPT ![h] = n] /\ n.op = op /\ n.id = id /\ n.draft = d
           /\ n.stage = IF op = "generate" THEN "received" ELSE "claim"
<1> DEFINE n == [Idle EXCEPT !.op = op, !.id = id, !.draft = d, !.heard = TRUE,
                         !.stage = IF op = "generate" THEN "received" ELSE "claim"]
<1>1. job' = [job EXCEPT ![h] = n]
  BY DEF Accept, Become
<1>2. /\ n \in Job /\ n.op = op /\ n.id = id /\ n.draft = d
      /\ n.stage = IF op = "generate" THEN "received" ELSE "claim"
  BY FailureIsAnAnswer DEF Job, Idle
<1> HIDE DEF n
<1> QED BY <1>1, <1>2

LEMMA FailDoes ==
  ASSUME NEW h \in Handler, Fail(h), JobsType
  PROVE  \E n \in Job : job' = [job EXCEPT ![h] = n] /\ (n = Idle \/ Same(n, job[h]))
<1>1. job' = [job EXCEPT ![h] = Idle] \/ job' = [job EXCEPT ![h] = [job[h] EXCEPT !.heard = FALSE]]
  BY DEF Fail, Become
<1>2. job[h] \in Job
  BY DEF JobsType
<1> QED BY <1>1, <1>2, IdleIsAJob, Unheard

LEMMA UnmountDoes ==
  ASSUME Unmount, JobsType, ActionType
  PROVE  \/ job' = job
         \/ \E h \in Handler, n \in Job : job' = [job EXCEPT ![h] = n] /\ (n = Idle \/ Same(n, job[h]))
<1>1. CASE waiting = Nothing
  BY <1>1 DEF Unmount
<1>2. CASE waiting # Nothing
  <2>1. waiting \in Handler /\ job[waiting] \in Job
    BY <1>2 DEF ActionType, JobsType
  <2>2. \/ job' = [job EXCEPT ![waiting] = Idle]
        \/ job' = [job EXCEPT ![waiting] = [job[waiting] EXCEPT !.heard = FALSE]]
    BY <1>2, <2>1 DEF Unmount, JobsType
  <2> QED BY <2>1, <2>2, IdleIsAJob, Unheard
<1> QED BY <1>1, <1>2

LEMMA CrashDoes ==
  ASSUME Crash, JobsType
  PROVE  /\ job' \in [Handler -> Job]
         /\ \A h \in Handler :
              \/ job'[h] = Idle
              \/ /\ job'[h].op = job[h].op /\ job'[h].id = job[h].id /\ job'[h].draft = job[h].draft
                 /\ job'[h].stage = "answered" /\ job'[h].answer = Failure
<1>1. job' = [h \in Handler |-> Respond(job[h], Failure)]
  BY DEF Crash
<1>2. ASSUME NEW h \in Handler
      PROVE  LET r == Respond(job[h], Failure)
             IN  /\ r \in Job
                 /\ \/ r = Idle
                    \/ /\ r.op = job[h].op /\ r.id = job[h].id /\ r.draft = job[h].draft
                       /\ r.stage = "answered" /\ r.answer = Failure
  BY FailureIsAnAnswer, Responds DEF JobsType
<1> QED BY <1>1, <1>2

-----------------------------------------------------------------------------
(* Types *)

LEMMA RunsTypeStays == IInv /\ [Next]_vars => RunsType'
<1> SUFFICES ASSUME RunsType, JobsType, Jobs, [Next]_vars
             PROVE  RunsType'
  BY DEF IInv, Typed
<1> USE DEF RunsType
<1>1. CASE UNCHANGED vars
  BY <1>1 DEF vars, server, world, page, history, previews, lists
<1>2. ASSUME NEW h \in Handler, LookUp(h), UNCHANGED <<page, history>> PROVE RunsType'
  BY <1>2 DEF LookUp, world, page, history, previews, lists
<1>3. ASSUME NEW h \in Handler, Fails(h), UNCHANGED <<page, history>> PROVE RunsType'
  BY <1>3 DEF Fails, world, page, history, previews, lists
<1>4. ASSUME NEW h \in Handler, Prepare(h), UNCHANGED <<page, history>> PROVE RunsType'
  BY <1>4, PrepareDoes, NewRuns DEF JobsType
<1>5. ASSUME NEW h \in Handler, Claim(h), UNCHANGED <<page, history>> PROVE RunsType'
  BY <1>5, ClaimDoes
<1>6. ASSUME NEW h \in Handler, Finish(h), UNCHANGED <<page, history>> PROVE RunsType'
  BY <1>6, FinishDoes
<1>7. ASSUME Crash, UNCHANGED <<page, history>> PROVE RunsType'
  BY <1>7 DEF Crash, world, page, history, previews, lists
<1>8. ASSUME NEW u \in RequestId, LeaseExpires(u), UNCHANGED <<page, history>> PROVE RunsType'
  BY <1>8, LeaseExpiresDoes
<1>9. ASSUME Change, UNCHANGED <<page, history>> PROVE RunsType'
  BY <1>9 DEF Change, server, world, page, history, previews, lists
<1>10. ASSUME NEW d \in Draft \cup {Nothing}, Edit(d) PROVE RunsType'
  BY <1>10 DEF Edit, page, history, previews, lists, server, world, intents
<1>11. ASSUME RetryPreview PROVE RunsType'
  BY <1>11 DEF RetryPreview, page, history, previews, lists, server, world, intents
<1>12. ASSUME AnswerPreview PROVE RunsType'
  BY <1>12 DEF AnswerPreview, page, history, previews, lists, server, world, intents
<1>13. ASSUME ReceivePreview PROVE RunsType'
  BY <1>13 DEF ReceivePreview, page, history, previews, lists, server, world, intents
<1>14. ASSUME Poll PROVE RunsType'
  BY <1>14 DEF Poll, LoadRuns, page, history, previews, lists, server, world, intents
<1>15. ASSUME Refresh PROVE RunsType'
  BY <1>15 DEF Refresh, LoadRuns, page, history, previews, lists, server, world, intents
<1>16. ASSUME AnswerList PROVE RunsType'
  BY <1>16 DEF AnswerList, page, history, previews, lists, server, world, intents
<1>17. ASSUME ReceiveList PROVE RunsType'
  BY <1>17 DEF ReceiveList, page, history, previews, lists, server, world, intents
<1>18. ASSUME ListFails PROVE RunsType'
  BY <1>18 DEF ListFails, page, history, previews, lists, server, world, intents
<1>19. ASSUME NEW h \in Handler, Generate(h) PROVE RunsType'
  BY <1>19 DEF Generate, page, history, previews, lists, server, world, intents
<1>20. ASSUME NEW h \in Handler, Succeed(h) PROVE RunsType'
  BY <1>20 DEF Succeed, page, history, previews, lists, server, world, intents
<1>21. ASSUME NEW h \in Handler, Fail(h) PROVE RunsType'
  BY <1>21 DEF Fail, page, history, previews, lists, server, world, intents
<1>22. ASSUME NEW h \in Handler, NEW u \in RequestId, NEW op \in {"resume", "undo"}, MutateRun(h, u, op)
       PROVE  RunsType'
  BY <1>22 DEF MutateRun, page, history, previews, lists, server, world, intents
<1>23. ASSUME Mount PROVE RunsType'
  BY <1>23 DEF Mount, page, history, previews, lists, server, world, intents
<1>24. ASSUME Unmount PROVE RunsType'
  BY <1>24 DEF Unmount, page, history, previews, lists, server, world, intents
<1> QED BY <1>1, <1>2, <1>3, <1>4, <1>5, <1>6, <1>7, <1>8, <1>9, <1>10, <1>11, <1>12, <1>13,
           <1>14, <1>15, <1>16, <1>17, <1>18, <1>19, <1>20, <1>21, <1>22, <1>23, <1>24
     DEF Next, ServerNext, Work, Typing, Previewing, Listing, Acting

LEMMA JobsTypeStays == IInv /\ [Next]_vars => JobsType'
<1> SUFFICES ASSUME RunsType, JobsType, WorldType, PreviewType, ListType, ActionType, Jobs, [Next]_vars
             PROVE  JobsType'
  BY DEF IInv, Typed
<1> USE DEF JobsType
<1>1. CASE UNCHANGED vars
  BY <1>1 DEF vars, server, world, page, history, previews, lists
<1>2. ASSUME NEW h \in Handler, LookUp(h), UNCHANGED <<page, history>> PROVE JobsType'
  BY <1>2, LookUpDoes
<1>3. ASSUME NEW h \in Handler, Fails(h), UNCHANGED <<page, history>> PROVE JobsType'
  BY <1>3, FailsDoes
<1>4. ASSUME NEW h \in Handler, Prepare(h), UNCHANGED <<page, history>> PROVE JobsType'
  BY <1>4, PrepareDoes
<1>5. ASSUME NEW h \in Handler, Claim(h), UNCHANGED <<page, history>> PROVE JobsType'
  BY <1>5, ClaimDoes
<1>6. ASSUME NEW h \in Handler, Finish(h), UNCHANGED <<page, history>> PROVE JobsType'
  BY <1>6, FinishDoes
<1>7. ASSUME Crash, UNCHANGED <<page, history>> PROVE JobsType'
  BY <1>7, CrashDoes
<1>8. ASSUME NEW u \in RequestId, LeaseExpires(u), UNCHANGED <<page, history>> PROVE JobsType'
  BY <1>8 DEF LeaseExpires, world, page, history, previews, lists
<1>9. ASSUME Change, UNCHANGED <<page, history>> PROVE JobsType'
  BY <1>9 DEF Change, server, world, page, history, previews, lists
<1>10. ASSUME NEW d \in Draft \cup {Nothing}, Edit(d) PROVE JobsType'
  BY <1>10 DEF Edit, page, history, previews, lists, server, world, intents
<1>11. ASSUME RetryPreview PROVE JobsType'
  BY <1>11 DEF RetryPreview, page, history, previews, lists, server, world, intents
<1>12. ASSUME AnswerPreview PROVE JobsType'
  BY <1>12 DEF AnswerPreview, page, history, previews, lists, server, world, intents
<1>13. ASSUME ReceivePreview PROVE JobsType'
  BY <1>13 DEF ReceivePreview, page, history, previews, lists, server, world, intents
<1>14. ASSUME Poll PROVE JobsType'
  BY <1>14 DEF Poll, LoadRuns, page, history, previews, lists, server, world, intents
<1>15. ASSUME Refresh PROVE JobsType'
  BY <1>15 DEF Refresh, LoadRuns, page, history, previews, lists, server, world, intents
<1>16. ASSUME AnswerList PROVE JobsType'
  BY <1>16 DEF AnswerList, page, history, previews, lists, server, world, intents
<1>17. ASSUME ReceiveList PROVE JobsType'
  BY <1>17 DEF ReceiveList, page, history, previews, lists, server, world, intents
<1>18. ASSUME ListFails PROVE JobsType'
  BY <1>18 DEF ListFails, page, history, previews, lists, server, world, intents
<1>19. ASSUME NEW h \in Handler, Generate(h) PROVE JobsType'
  BY <1>19, AcceptDoes DEF Generate, page, history, previews, lists, server, world, intents, PreviewType
<1>20. ASSUME NEW h \in Handler, Succeed(h) PROVE JobsType'
  BY <1>20, IdleIsAJob DEF Succeed, page, history, previews, lists, server, world, intents, Become
<1>21. ASSUME NEW h \in Handler, Fail(h) PROVE JobsType'
  BY <1>21, FailDoes
<1>22. ASSUME NEW h \in Handler, NEW u \in RequestId, NEW op \in {"resume", "undo"}, MutateRun(h, u, op)
       PROVE  JobsType'
  BY <1>22, AcceptDoes DEF MutateRun, page, history, previews, lists, server, world, intents
<1>23. ASSUME Mount PROVE JobsType'
  BY <1>23 DEF Mount, page, history, previews, lists, server, world, intents
<1>24. ASSUME Unmount PROVE JobsType'
  BY <1>24, UnmountDoes
<1> QED BY <1>1, <1>2, <1>3, <1>4, <1>5, <1>6, <1>7, <1>8, <1>9, <1>10, <1>11, <1>12, <1>13,
           <1>14, <1>15, <1>16, <1>17, <1>18, <1>19, <1>20, <1>21, <1>22, <1>23, <1>24
     DEF Next, ServerNext, Work, Typing, Previewing, Listing, Acting

LEMMA WorldTypeStays == IInv /\ [Next]_vars => WorldType'
<1> SUFFICES ASSUME WorldType, [Next]_vars
             PROVE  WorldType'
  BY DEF IInv, Typed
<1> USE Constants DEF WorldType
<1>1. CASE UNCHANGED vars
  BY <1>1 DEF vars, server, world, page, history, previews, lists
<1>2. ASSUME NEW h \in Handler, LookUp(h), UNCHANGED <<page, history>> PROVE WorldType'
  BY <1>2 DEF LookUp, world, page, history, previews, lists
<1>3. ASSUME NEW h \in Handler, Fails(h), UNCHANGED <<page, history>> PROVE WorldType'
  BY <1>3 DEF Fails, world, page, history, previews, lists
<1>4. ASSUME NEW h \in Handler, Prepare(h), UNCHANGED <<page, history>> PROVE WorldType'
  BY <1>4 DEF Prepare, world, page, history, previews, lists
<1>5. ASSUME NEW h \in Handler, Claim(h), UNCHANGED <<page, history>> PROVE WorldType'
  BY <1>5 DEF Claim, world, page, history, previews, lists
<1>6. ASSUME NEW h \in Handler, Finish(h), UNCHANGED <<page, history>> PROVE WorldType'
  BY <1>6 DEF Finish, world, page, history, previews, lists
<1>7. ASSUME Crash, UNCHANGED <<page, history>> PROVE WorldType'
  BY <1>7 DEF Crash, world, page, history, previews, lists
<1>8. ASSUME NEW u \in RequestId, LeaseExpires(u), UNCHANGED <<page, history>> PROVE WorldType'
  BY <1>8 DEF LeaseExpires, world, page, history, previews, lists
<1>9. ASSUME Change, UNCHANGED <<page, history>> PROVE WorldType'
  <2>1. CASE tree' \in Trees /\ UNCHANGED picture
    BY <2>1
  <2>2. ASSUME NEW s \in RemoteSource, NEW p \in Pictures, picture' = [picture EXCEPT ![s] = p], UNCHANGED tree
        PROVE  WorldType'
    BY <2>2
  <2> QED BY <1>9, <2>1, <2>2 DEF Change
<1>10. ASSUME NEW d \in Draft \cup {Nothing}, Edit(d) PROVE WorldType'
  BY <1>10 DEF Edit, page, history, previews, lists, server, world, intents
<1>11. ASSUME RetryPreview PROVE WorldType'
  BY <1>11 DEF RetryPreview, page, history, previews, lists, server, world, intents
<1>12. ASSUME AnswerPreview PROVE WorldType'
  BY <1>12 DEF AnswerPreview, page, history, previews, lists, server, world, intents
<1>13. ASSUME ReceivePreview PROVE WorldType'
  BY <1>13 DEF ReceivePreview, page, history, previews, lists, server, world, intents
<1>14. ASSUME Poll PROVE WorldType'
  BY <1>14 DEF Poll, LoadRuns, page, history, previews, lists, server, world, intents
<1>15. ASSUME Refresh PROVE WorldType'
  BY <1>15 DEF Refresh, LoadRuns, page, history, previews, lists, server, world, intents
<1>16. ASSUME AnswerList PROVE WorldType'
  BY <1>16 DEF AnswerList, page, history, previews, lists, server, world, intents
<1>17. ASSUME ReceiveList PROVE WorldType'
  BY <1>17 DEF ReceiveList, page, history, previews, lists, server, world, intents
<1>18. ASSUME ListFails PROVE WorldType'
  BY <1>18 DEF ListFails, page, history, previews, lists, server, world, intents
<1>19. ASSUME NEW h \in Handler, Generate(h) PROVE WorldType'
  BY <1>19 DEF Generate, page, history, previews, lists, server, world, intents
<1>20. ASSUME NEW h \in Handler, Succeed(h) PROVE WorldType'
  BY <1>20 DEF Succeed, page, history, previews, lists, server, world, intents
<1>21. ASSUME NEW h \in Handler, Fail(h) PROVE WorldType'
  BY <1>21 DEF Fail, page, history, previews, lists, server, world, intents
<1>22. ASSUME NEW h \in Handler, NEW u \in RequestId, NEW op \in {"resume", "undo"}, MutateRun(h, u, op)
       PROVE  WorldType'
  BY <1>22 DEF MutateRun, page, history, previews, lists, server, world, intents
<1>23. ASSUME Mount PROVE WorldType'
  BY <1>23 DEF Mount, page, history, previews, lists, server, world, intents
<1>24. ASSUME Unmount PROVE WorldType'
  BY <1>24 DEF Unmount, page, history, previews, lists, server, world, intents
<1> QED BY <1>1, <1>2, <1>3, <1>4, <1>5, <1>6, <1>7, <1>8, <1>9, <1>10, <1>11, <1>12, <1>13,
           <1>14, <1>15, <1>16, <1>17, <1>18, <1>19, <1>20, <1>21, <1>22, <1>23, <1>24
     DEF Next, ServerNext, Work, Typing, Previewing, Listing, Acting

LEMMA PreviewTypeStays == IInv /\ [Next]_vars => PreviewType'
<1> SUFFICES ASSUME WorldType, PreviewType, [Next]_vars
             PROVE  PreviewType'
  BY DEF IInv, Typed
<1> USE DEF PreviewType, RenewPreview
<1>1. CASE UNCHANGED vars
  BY <1>1 DEF vars, server, world, page, history, previews, lists
<1>2. ASSUME NEW h \in Handler, LookUp(h), UNCHANGED <<page, history>> PROVE PreviewType'
  BY <1>2 DEF LookUp, world, page, history, previews, lists
<1>3. ASSUME NEW h \in Handler, Fails(h), UNCHANGED <<page, history>> PROVE PreviewType'
  BY <1>3 DEF Fails, world, page, history, previews, lists
<1>4. ASSUME NEW h \in Handler, Prepare(h), UNCHANGED <<page, history>> PROVE PreviewType'
  BY <1>4 DEF Prepare, world, page, history, previews, lists
<1>5. ASSUME NEW h \in Handler, Claim(h), UNCHANGED <<page, history>> PROVE PreviewType'
  BY <1>5 DEF Claim, world, page, history, previews, lists
<1>6. ASSUME NEW h \in Handler, Finish(h), UNCHANGED <<page, history>> PROVE PreviewType'
  BY <1>6 DEF Finish, world, page, history, previews, lists
<1>7. ASSUME Crash, UNCHANGED <<page, history>> PROVE PreviewType'
  BY <1>7 DEF Crash, world, page, history, previews, lists
<1>8. ASSUME NEW u \in RequestId, LeaseExpires(u), UNCHANGED <<page, history>> PROVE PreviewType'
  BY <1>8 DEF LeaseExpires, world, page, history, previews, lists
<1>9. ASSUME Change, UNCHANGED <<page, history>> PROVE PreviewType'
  BY <1>9 DEF Change, server, world, page, history, previews, lists
<1>10. ASSUME NEW d \in Draft \cup {Nothing}, Edit(d) PROVE PreviewType'
  BY <1>10 DEF Edit, page, history, previews, lists, server, world, intents, Aborted, Preview
<1>11. ASSUME RetryPreview PROVE PreviewType'
  BY <1>11 DEF RetryPreview, page, history, previews, lists, server, world, intents, Aborted, Preview
<1>12. ASSUME AnswerPreview PROVE PreviewType'
  <2>1. draft \in Draft /\ picture[draft.source] \in Pictures
    BY <1>12, Sources DEF AnswerPreview, WorldType, PreviewType
  <2>2. {RowsOf(draft, picture[draft.source]), <<>>} \subseteq AllRows
    BY <2>1, RowsAreRows DEF RowsOf, WorldType, AllRows
  <2>3. <<tree, picture[draft.source]>> \in Trees \X Pictures
    BY <2>1 DEF WorldType
  <2>4. PICK rows \in {RowsOf(draft, picture[draft.source]), <<>>} :
          previewBody' = [draft |-> draft, live |-> TRUE, rows |-> rows,
                          stamp |-> <<tree, picture[draft.source]>>]
    BY <1>12 DEF AnswerPreview
  <2>5. previewBody' \in Preview
    BY <2>1, <2>2, <2>3, <2>4 DEF Preview
  <2> QED BY <1>12, <2>5 DEF AnswerPreview
<1>13. ASSUME ReceivePreview PROVE PreviewType'
  BY <1>13 DEF ReceivePreview, page, history, previews, lists, server, world, intents, TakePreview
<1>14. ASSUME Poll PROVE PreviewType'
  BY <1>14 DEF Poll, LoadRuns, page, history, previews, lists, server, world, intents
<1>15. ASSUME Refresh PROVE PreviewType'
  BY <1>15 DEF Refresh, LoadRuns, page, history, previews, lists, server, world, intents
<1>16. ASSUME AnswerList PROVE PreviewType'
  BY <1>16 DEF AnswerList, page, history, previews, lists, server, world, intents
<1>17. ASSUME ReceiveList PROVE PreviewType'
  BY <1>17 DEF ReceiveList, page, history, previews, lists, server, world, intents
<1>18. ASSUME ListFails PROVE PreviewType'
  BY <1>18 DEF ListFails, page, history, previews, lists, server, world, intents
<1>19. ASSUME NEW h \in Handler, Generate(h) PROVE PreviewType'
  BY <1>19 DEF Generate, page, history, previews, lists, server, world, intents
<1>20. ASSUME NEW h \in Handler, Succeed(h) PROVE PreviewType'
  BY <1>20 DEF Succeed, page, history, previews, lists, server, world, intents
<1>21. ASSUME NEW h \in Handler, Fail(h) PROVE PreviewType'
  BY <1>21 DEF Fail, page, history, previews, lists, server, world, intents
<1>22. ASSUME NEW h \in Handler, NEW u \in RequestId, NEW op \in {"resume", "undo"}, MutateRun(h, u, op)
       PROVE  PreviewType'
  BY <1>22 DEF MutateRun, page, history, previews, lists, server, world, intents
<1>23. ASSUME Mount PROVE PreviewType'
  BY <1>23 DEF Mount, page, history, previews, lists, server, world, intents
<1>24. ASSUME Unmount PROVE PreviewType'
  BY <1>24 DEF Unmount, page, history, previews, lists, server, world, intents
<1> QED BY <1>1, <1>2, <1>3, <1>4, <1>5, <1>6, <1>7, <1>8, <1>9, <1>10, <1>11, <1>12, <1>13,
           <1>14, <1>15, <1>16, <1>17, <1>18, <1>19, <1>20, <1>21, <1>22, <1>23, <1>24
     DEF Next, ServerNext, Work, Typing, Previewing, Listing, Acting

LEMMA ListTypeStays == IInv /\ [Next]_vars => ListType'
<1> SUFFICES ASSUME RunsType, JobsType, ListType, [Next]_vars
             PROVE  ListType'
  BY DEF IInv, Typed
<1> USE DEF ListType, Aborted
<1>1. CASE UNCHANGED vars
  BY <1>1 DEF vars, server, world, page, history, previews, lists
<1>2. ASSUME NEW h \in Handler, LookUp(h), UNCHANGED <<page, history>> PROVE ListType'
  BY <1>2 DEF LookUp, world, page, history, previews, lists
<1>3. ASSUME NEW h \in Handler, Fails(h), UNCHANGED <<page, history>> PROVE ListType'
  BY <1>3 DEF Fails, world, page, history, previews, lists
<1>4. ASSUME NEW h \in Handler, Prepare(h), UNCHANGED <<page, history>> PROVE ListType'
  BY <1>4 DEF Prepare, world, page, history, previews, lists
<1>5. ASSUME NEW h \in Handler, Claim(h), UNCHANGED <<page, history>> PROVE ListType'
  BY <1>5 DEF Claim, world, page, history, previews, lists
<1>6. ASSUME NEW h \in Handler, Finish(h), UNCHANGED <<page, history>> PROVE ListType'
  BY <1>6 DEF Finish, world, page, history, previews, lists
<1>7. ASSUME Crash, UNCHANGED <<page, history>> PROVE ListType'
  BY <1>7 DEF Crash, world, page, history, previews, lists
<1>8. ASSUME NEW u \in RequestId, LeaseExpires(u), UNCHANGED <<page, history>> PROVE ListType'
  BY <1>8 DEF LeaseExpires, world, page, history, previews, lists
<1>9. ASSUME Change, UNCHANGED <<page, history>> PROVE ListType'
  BY <1>9 DEF Change, server, world, page, history, previews, lists
<1>10. ASSUME NEW d \in Draft \cup {Nothing}, Edit(d) PROVE ListType'
  BY <1>10 DEF Edit, page, history, previews, lists, server, world, intents
<1>11. ASSUME RetryPreview PROVE ListType'
  BY <1>11 DEF RetryPreview, page, history, previews, lists, server, world, intents
<1>12. ASSUME AnswerPreview PROVE ListType'
  BY <1>12 DEF AnswerPreview, page, history, previews, lists, server, world, intents
<1>13. ASSUME ReceivePreview PROVE ListType'
  BY <1>13 DEF ReceivePreview, page, history, previews, lists, server, world, intents
<1>14. ASSUME Poll PROVE ListType'
  BY <1>14 DEF Poll, LoadRuns, page, history, previews, lists, server, world, intents
<1>15. ASSUME Refresh PROVE ListType'
  BY <1>15 DEF Refresh, LoadRuns, page, history, previews, lists, server, world, intents
<1>16. ASSUME AnswerList PROVE ListType'
  <2>1. List \in Lists
    BY Results DEF List, Lists, Listed, OpenRuns, Finished
  <2> QED BY <1>16, <2>1 DEF AnswerList
<1>17. ASSUME ReceiveList PROVE ListType'
  BY <1>17 DEF ReceiveList, page, history, previews, lists, server, world, intents, TakeList
<1>18. ASSUME ListFails PROVE ListType'
  BY <1>18 DEF ListFails, page, history, previews, lists, server, world, intents
<1>19. ASSUME NEW h \in Handler, Generate(h) PROVE ListType'
  BY <1>19 DEF Generate, page, history, previews, lists, server, world, intents
<1>20. ASSUME NEW h \in Handler, Succeed(h) PROVE ListType'
  <2>1. job[h].answer \in Answer
    BY DEF JobsType, Job
  <2>2. shown' \in Lists
    BY <1>20, <2>1 DEF Succeed, KeepRun, Lists
  <2> QED BY <1>20, <2>2 DEF Succeed, KeepRun
<1>21. ASSUME NEW h \in Handler, Fail(h) PROVE ListType'
  BY <1>21 DEF Fail, page, history, previews, lists, server, world, intents
<1>22. ASSUME NEW h \in Handler, NEW u \in RequestId, NEW op \in {"resume", "undo"}, MutateRun(h, u, op)
       PROVE  ListType'
  BY <1>22 DEF MutateRun, page, history, previews, lists, server, world, intents
<1>23. ASSUME Mount PROVE ListType'
  BY <1>23 DEF Mount, page, history, previews, lists, server, world, intents, NothingShown, Lists
<1>24. ASSUME Unmount PROVE ListType'
  BY <1>24 DEF Unmount, page, history, previews, lists, server, world, intents, NothingShown, Lists
<1> QED BY <1>1, <1>2, <1>3, <1>4, <1>5, <1>6, <1>7, <1>8, <1>9, <1>10, <1>11, <1>12, <1>13,
           <1>14, <1>15, <1>16, <1>17, <1>18, <1>19, <1>20, <1>21, <1>22, <1>23, <1>24
     DEF Next, ServerNext, Work, Typing, Previewing, Listing, Acting

LEMMA ActionTypeStays == IInv /\ [Next]_vars => ActionType'
<1> SUFFICES ASSUME PreviewType, ActionType, [Next]_vars
             PROVE  ActionType'
  BY DEF IInv, Typed
<1> USE DEF ActionType
<1>1. CASE UNCHANGED vars
  BY <1>1 DEF vars, server, world, page, history, previews, lists
<1>2. ASSUME NEW h \in Handler, LookUp(h), UNCHANGED <<page, history>> PROVE ActionType'
  BY <1>2 DEF LookUp, world, page, history, previews, lists
<1>3. ASSUME NEW h \in Handler, Fails(h), UNCHANGED <<page, history>> PROVE ActionType'
  BY <1>3 DEF Fails, world, page, history, previews, lists
<1>4. ASSUME NEW h \in Handler, Prepare(h), UNCHANGED <<page, history>> PROVE ActionType'
  BY <1>4 DEF Prepare, world, page, history, previews, lists
<1>5. ASSUME NEW h \in Handler, Claim(h), UNCHANGED <<page, history>> PROVE ActionType'
  BY <1>5 DEF Claim, world, page, history, previews, lists
<1>6. ASSUME NEW h \in Handler, Finish(h), UNCHANGED <<page, history>> PROVE ActionType'
  BY <1>6 DEF Finish, world, page, history, previews, lists
<1>7. ASSUME Crash, UNCHANGED <<page, history>> PROVE ActionType'
  BY <1>7 DEF Crash, world, page, history, previews, lists
<1>8. ASSUME NEW u \in RequestId, LeaseExpires(u), UNCHANGED <<page, history>> PROVE ActionType'
  BY <1>8 DEF LeaseExpires, world, page, history, previews, lists
<1>9. ASSUME Change, UNCHANGED <<page, history>> PROVE ActionType'
  BY <1>9 DEF Change, server, world, page, history, previews, lists
<1>10. ASSUME NEW d \in Draft \cup {Nothing}, Edit(d) PROVE ActionType'
  BY <1>10 DEF Edit, page, history, previews, lists, server, world, intents
<1>11. ASSUME RetryPreview PROVE ActionType'
  BY <1>11 DEF RetryPreview, page, history, previews, lists, server, world, intents
<1>12. ASSUME AnswerPreview PROVE ActionType'
  BY <1>12 DEF AnswerPreview, page, history, previews, lists, server, world, intents
<1>13. ASSUME ReceivePreview PROVE ActionType'
  BY <1>13 DEF ReceivePreview, page, history, previews, lists, server, world, intents
<1>14. ASSUME Poll PROVE ActionType'
  BY <1>14 DEF Poll, LoadRuns, page, history, previews, lists, server, world, intents
<1>15. ASSUME Refresh PROVE ActionType'
  BY <1>15 DEF Refresh, LoadRuns, page, history, previews, lists, server, world, intents
<1>16. ASSUME AnswerList PROVE ActionType'
  BY <1>16 DEF AnswerList, page, history, previews, lists, server, world, intents
<1>17. ASSUME ReceiveList PROVE ActionType'
  BY <1>17 DEF ReceiveList, page, history, previews, lists, server, world, intents, TakeList
<1>18. ASSUME ListFails PROVE ActionType'
  BY <1>18 DEF ListFails, page, history, previews, lists, server, world, intents
<1>19. ASSUME NEW h \in Handler, Generate(h) PROVE ActionType'
  BY <1>19 DEF Generate, page, history, previews, lists, server, world, intents, Press, Saved, PreviewType, RecoveredId, Reusable
<1>20. ASSUME NEW h \in Handler, Succeed(h) PROVE ActionType'
  BY <1>20 DEF Succeed, page, history, previews, lists, server, world, intents
<1>21. ASSUME NEW h \in Handler, Fail(h) PROVE ActionType'
  BY <1>21 DEF Fail, page, history, previews, lists, server, world, intents
<1>22. ASSUME NEW h \in Handler, NEW u \in RequestId, NEW op \in {"resume", "undo"}, MutateRun(h, u, op)
       PROVE  ActionType'
  BY <1>22 DEF MutateRun, page, history, previews, lists, server, world, intents, Press
<1>23. ASSUME Mount PROVE ActionType'
  BY <1>23 DEF Mount, page, history, previews, lists, server, world, intents
<1>24. ASSUME Unmount PROVE ActionType'
  BY <1>24 DEF Unmount, page, history, previews, lists, server, world, intents
<1> QED BY <1>1, <1>2, <1>3, <1>4, <1>5, <1>6, <1>7, <1>8, <1>9, <1>10, <1>11, <1>12, <1>13,
           <1>14, <1>15, <1>16, <1>17, <1>18, <1>19, <1>20, <1>21, <1>22, <1>23, <1>24
     DEF Next, ServerNext, Work, Typing, Previewing, Listing, Acting

LEMMA WishTypeStays == IInv /\ [Next]_vars => WishType'
<1> SUFFICES ASSUME PreviewType, WishType, ActionType, [Next]_vars
             PROVE  WishType'
  BY DEF IInv, Typed
<1> USE DEF WishType
<1>1. CASE UNCHANGED vars
  BY <1>1 DEF vars, server, world, page, history, previews, lists
<1>2. ASSUME NEW h \in Handler, LookUp(h), UNCHANGED <<page, history>> PROVE WishType'
  BY <1>2 DEF LookUp, world, page, history, previews, lists
<1>3. ASSUME NEW h \in Handler, Fails(h), UNCHANGED <<page, history>> PROVE WishType'
  BY <1>3 DEF Fails, world, page, history, previews, lists
<1>4. ASSUME NEW h \in Handler, Prepare(h), UNCHANGED <<page, history>> PROVE WishType'
  BY <1>4 DEF Prepare, world, page, history, previews, lists
<1>5. ASSUME NEW h \in Handler, Claim(h), UNCHANGED <<page, history>> PROVE WishType'
  BY <1>5 DEF Claim, world, page, history, previews, lists
<1>6. ASSUME NEW h \in Handler, Finish(h), UNCHANGED <<page, history>> PROVE WishType'
  BY <1>6 DEF Finish, world, page, history, previews, lists
<1>7. ASSUME Crash, UNCHANGED <<page, history>> PROVE WishType'
  BY <1>7 DEF Crash, world, page, history, previews, lists
<1>8. ASSUME NEW u \in RequestId, LeaseExpires(u), UNCHANGED <<page, history>> PROVE WishType'
  BY <1>8 DEF LeaseExpires, world, page, history, previews, lists
<1>9. ASSUME Change, UNCHANGED <<page, history>> PROVE WishType'
  BY <1>9 DEF Change, server, world, page, history, previews, lists
<1>10. ASSUME NEW d \in Draft \cup {Nothing}, Edit(d) PROVE WishType'
  BY <1>10 DEF Edit, page, history, previews, lists, server, world, intents
<1>11. ASSUME RetryPreview PROVE WishType'
  BY <1>11 DEF RetryPreview, page, history, previews, lists, server, world, intents
<1>12. ASSUME AnswerPreview PROVE WishType'
  BY <1>12 DEF AnswerPreview, page, history, previews, lists, server, world, intents
<1>13. ASSUME ReceivePreview PROVE WishType'
  BY <1>13 DEF ReceivePreview, page, history, previews, lists, server, world, intents
<1>14. ASSUME Poll PROVE WishType'
  BY <1>14 DEF Poll, LoadRuns, page, history, previews, lists, server, world, intents
<1>15. ASSUME Refresh PROVE WishType'
  BY <1>15 DEF Refresh, LoadRuns, page, history, previews, lists, server, world, intents
<1>16. ASSUME AnswerList PROVE WishType'
  BY <1>16 DEF AnswerList, page, history, previews, lists, server, world, intents
<1>17. ASSUME ReceiveList PROVE WishType'
  BY <1>17 DEF ReceiveList, page, history, previews, lists, server, world, intents
<1>18. ASSUME ListFails PROVE WishType'
  BY <1>18 DEF ListFails, page, history, previews, lists, server, world, intents
<1>19. ASSUME NEW h \in Handler, Generate(h) PROVE WishType'
  <2>1. draft \in Draft /\ Rows # <<>> /\ RecoveredId \in RequestId
    BY <1>19 DEF Generate, PreviewType
  <2>2. preview \in Preview
    BY <2>1 DEF Rows, PreviewType
  <2>3. Wished \in [draft : Draft \cup {Nothing}, number : Nat, open : BOOLEAN]
    BY <2>1 DEF Wished
  <2>4. [rows |-> preview.rows, stamp |-> preview.stamp] \in [rows : AllRows, stamp : Trees \X Pictures]
    BY <2>2 DEF Preview
  <2>5. promised' \in [RequestId -> [rows : AllRows, stamp : Trees \X Pictures] \cup {Nothing}]
    BY <1>19, <2>4 DEF Generate
  <2>6. wishOf' \in [RequestId -> Nat]
    BY <1>19, <2>3 DEF Generate
  <2>7. wish' \in [draft : Draft \cup {Nothing}, number : Nat, open : BOOLEAN]
    BY <1>19, <2>3 DEF Generate
  <2> QED BY <2>5, <2>6, <2>7
<1>20. ASSUME NEW h \in Handler, Succeed(h) PROVE WishType'
  BY <1>20 DEF Succeed, page, history, previews, lists, server, world, intents
<1>21. ASSUME NEW h \in Handler, Fail(h) PROVE WishType'
  BY <1>21 DEF Fail, page, history, previews, lists, server, world, intents
<1>22. ASSUME NEW h \in Handler, NEW u \in RequestId, NEW op \in {"resume", "undo"}, MutateRun(h, u, op)
       PROVE  WishType'
  BY <1>22 DEF MutateRun, page, history, previews, lists, server, world, intents
<1>23. ASSUME Mount PROVE WishType'
  BY <1>23 DEF Mount, page, history, previews, lists, server, world, intents
<1>24. ASSUME Unmount PROVE WishType'
  BY <1>24 DEF Unmount, page, history, previews, lists, server, world, intents
<1> QED BY <1>1, <1>2, <1>3, <1>4, <1>5, <1>6, <1>7, <1>8, <1>9, <1>10, <1>11, <1>12, <1>13,
           <1>14, <1>15, <1>16, <1>17, <1>18, <1>19, <1>20, <1>21, <1>22, <1>23, <1>24
     DEF Next, ServerNext, Work, Typing, Previewing, Listing, Acting

-----------------------------------------------------------------------------
(* Runs go on, and new ones are made of what was asked for. *)

LEMMA RunsGoOn ==
  IInv /\ [Next]_vars => \A u \in RequestId : Exists(u) => Goes(u, runs'[u])
<1> SUFFICES ASSUME RunsType, JobsType, Jobs, [Next]_vars
             PROVE  \A u \in RequestId : Exists(u) => Goes(u, runs'[u])
  BY DEF IInv, Typed
<1> DEFINE OnAndOn == \A u \in RequestId : Exists(u) => Goes(u, runs'[u])
<1> SUFFICES OnAndOn
  OBVIOUS
<1>0. ASSUME runs' = runs PROVE OnAndOn
  <2> SUFFICES ASSUME NEW u \in RequestId, Exists(u) PROVE Goes(u, runs[u])
    BY <1>0
  <2>1. runs[u] \in Run
    BY DEF RunsType, Exists
  <2>2. runs[u].version \in Nat /\ runs[u].closed \in BOOLEAN
    BY <2>1 DEF Run
  <2> QED BY <2>1, <2>2 DEF Goes
<1>99. ASSUME NEW v \in RequestId, NEW r, runs' = [runs EXCEPT ![v] = r], Exists(v) => Goes(v, r) PROVE OnAndOn
  <2> SUFFICES ASSUME NEW u \in RequestId, Exists(u) PROVE Goes(u, runs'[u])
    OBVIOUS
  <2>1. CASE u = v
    <3>1. runs'[u] = r
      BY <1>99, <2>1 DEF RunsType
    <3> QED BY <1>99, <2>1, <3>1
  <2>2. CASE u # v
    <3>1. runs'[u] = runs[u] /\ runs[u] \in Run
      BY <1>99, <2>2 DEF RunsType, Exists
    <3>2. runs[u].version \in Nat /\ runs[u].closed \in BOOLEAN
      BY <3>1 DEF Run
    <3> QED BY <3>1, <3>2 DEF Goes
  <2> QED BY <2>1, <2>2
<1> HIDE DEF OnAndOn
<1>1. CASE UNCHANGED vars
  BY <1>0, <1>1 DEF vars, server
<1>2. ASSUME NEW h \in Handler, LookUp(h), UNCHANGED <<page, history>> PROVE OnAndOn
  BY <1>2, <1>0 DEF LookUp, world, page, history, previews, lists
<1>3. ASSUME NEW h \in Handler, Fails(h), UNCHANGED <<page, history>> PROVE OnAndOn
  BY <1>3, <1>0 DEF Fails, world, page, history, previews, lists
<1>4. ASSUME NEW h \in Handler, Prepare(h), UNCHANGED <<page, history>> PROVE OnAndOn
  BY <1>4, PrepareDoes, <1>0, <1>99
<1>5. ASSUME NEW h \in Handler, Claim(h), UNCHANGED <<page, history>> PROVE OnAndOn
  BY <1>5, ClaimDoes, <1>0, <1>99
<1>6. ASSUME NEW h \in Handler, Finish(h), UNCHANGED <<page, history>> PROVE OnAndOn
  BY <1>6, FinishDoes, <1>99
<1>7. ASSUME Crash, UNCHANGED <<page, history>> PROVE OnAndOn
  BY <1>7, <1>0 DEF Crash, world, page, history, previews, lists
<1>8. ASSUME NEW u \in RequestId, LeaseExpires(u), UNCHANGED <<page, history>> PROVE OnAndOn
  BY <1>8, LeaseExpiresDoes, <1>99
<1>9. ASSUME Change, UNCHANGED <<page, history>> PROVE OnAndOn
  BY <1>9, <1>0 DEF Change, server, world, page, history, previews, lists
<1>10. ASSUME NEW d \in Draft \cup {Nothing}, Edit(d) PROVE OnAndOn
  BY <1>10, <1>0 DEF Edit, page, history, previews, lists, server, world, intents
<1>11. ASSUME RetryPreview PROVE OnAndOn
  BY <1>11, <1>0 DEF RetryPreview, page, history, previews, lists, server, world, intents
<1>12. ASSUME AnswerPreview PROVE OnAndOn
  BY <1>12, <1>0 DEF AnswerPreview, page, history, previews, lists, server, world, intents
<1>13. ASSUME ReceivePreview PROVE OnAndOn
  BY <1>13, <1>0 DEF ReceivePreview, page, history, previews, lists, server, world, intents
<1>14. ASSUME Poll PROVE OnAndOn
  BY <1>14, <1>0 DEF Poll, LoadRuns, page, history, previews, lists, server, world, intents
<1>15. ASSUME Refresh PROVE OnAndOn
  BY <1>15, <1>0 DEF Refresh, LoadRuns, page, history, previews, lists, server, world, intents
<1>16. ASSUME AnswerList PROVE OnAndOn
  BY <1>16, <1>0 DEF AnswerList, page, history, previews, lists, server, world, intents
<1>17. ASSUME ReceiveList PROVE OnAndOn
  BY <1>17, <1>0 DEF ReceiveList, page, history, previews, lists, server, world, intents
<1>18. ASSUME ListFails PROVE OnAndOn
  BY <1>18, <1>0 DEF ListFails, page, history, previews, lists, server, world, intents
<1>19. ASSUME NEW h \in Handler, Generate(h) PROVE OnAndOn
  BY <1>19, <1>0 DEF Generate, page, history, previews, lists, server, world, intents
<1>20. ASSUME NEW h \in Handler, Succeed(h) PROVE OnAndOn
  BY <1>20, <1>0 DEF Succeed, page, history, previews, lists, server, world, intents
<1>21. ASSUME NEW h \in Handler, Fail(h) PROVE OnAndOn
  BY <1>21, <1>0 DEF Fail, page, history, previews, lists, server, world, intents
<1>22. ASSUME NEW h \in Handler, NEW u \in RequestId, NEW op \in {"resume", "undo"}, MutateRun(h, u, op)
       PROVE  OnAndOn
  BY <1>22, <1>0 DEF MutateRun, page, history, previews, lists, server, world, intents
<1>23. ASSUME Mount PROVE OnAndOn
  BY <1>23, <1>0 DEF Mount, page, history, previews, lists, server, world, intents
<1>24. ASSUME Unmount PROVE OnAndOn
  BY <1>24, <1>0 DEF Unmount, page, history, previews, lists, server, world, intents
<1> QED BY <1>1, <1>2, <1>3, <1>4, <1>5, <1>6, <1>7, <1>8, <1>9, <1>10, <1>11, <1>12, <1>13,
           <1>14, <1>15, <1>16, <1>17, <1>18, <1>19, <1>20, <1>21, <1>22, <1>23, <1>24
     DEF Next, ServerNext, Work, Typing, Previewing, Listing, Acting

\* The run of a request is made by the handler that has the request.
Made(u) ==
  \E h \in Handler :
    /\ job[h].op = "generate" /\ job[h].id = u /\ job[h].stage = "prepare" /\ ~LimitReached
    /\ job[h].draft \in Draft /\ job[h].bytes \in Pictures /\ job[h].tree \in Trees
    /\ runs' = [runs EXCEPT ![u] = NewRun(job[h])]

LEMMA RunsAreMade ==
  IInv /\ [Next]_vars => \A u \in RequestId : ~Exists(u) /\ runs'[u] # Nothing => Made(u)
<1> SUFFICES ASSUME RunsType, JobsType, Jobs, [Next]_vars
             PROVE  \A u \in RequestId : ~Exists(u) /\ runs'[u] # Nothing => Made(u)
  BY DEF IInv, Typed
<1> DEFINE AllMade == \A u \in RequestId : ~Exists(u) /\ runs'[u] # Nothing => Made(u)
<1> SUFFICES AllMade
  OBVIOUS
<1>0. ASSUME runs' = runs PROVE AllMade
  BY <1>0 DEF Exists
<1>99. ASSUME NEW v \in RequestId, Exists(v), NEW r, runs' = [runs EXCEPT ![v] = r] PROVE AllMade
  BY <1>99 DEF Exists, RunsType
<1> HIDE DEF AllMade
<1>1. CASE UNCHANGED vars
  BY <1>0, <1>1 DEF vars, server
<1>2. ASSUME NEW h \in Handler, LookUp(h), UNCHANGED <<page, history>> PROVE AllMade
  BY <1>2, <1>0 DEF LookUp, world, page, history, previews, lists
<1>3. ASSUME NEW h \in Handler, Fails(h), UNCHANGED <<page, history>> PROVE AllMade
  BY <1>3, <1>0 DEF Fails, world, page, history, previews, lists
<1>4. ASSUME NEW h \in Handler, Prepare(h), UNCHANGED <<page, history>> PROVE AllMade
  <2>1. CASE runs' = runs
    BY <1>0, <2>1
  <2>2. CASE runs' # runs
    <3>1. Made(job[h].id) /\ \A u \in RequestId : u # job[h].id => runs'[u] = runs[u]
      BY <1>4, <2>2, PrepareDoes DEF Made, RunsType
    <3> QED BY <3>1 DEF AllMade, Exists
  <2> QED BY <2>1, <2>2
<1>5. ASSUME NEW h \in Handler, Claim(h), UNCHANGED <<page, history>> PROVE AllMade
  BY <1>5, ClaimDoes, <1>0, <1>99
<1>6. ASSUME NEW h \in Handler, Finish(h), UNCHANGED <<page, history>> PROVE AllMade
  BY <1>6, FinishDoes, <1>99
<1>7. ASSUME Crash, UNCHANGED <<page, history>> PROVE AllMade
  BY <1>7, <1>0 DEF Crash, world, page, history, previews, lists
<1>8. ASSUME NEW u \in RequestId, LeaseExpires(u), UNCHANGED <<page, history>> PROVE AllMade
  BY <1>8, LeaseExpiresDoes, <1>99
<1>9. ASSUME Change, UNCHANGED <<page, history>> PROVE AllMade
  BY <1>9, <1>0 DEF Change, server, world, page, history, previews, lists
<1>10. ASSUME NEW d \in Draft \cup {Nothing}, Edit(d) PROVE AllMade
  BY <1>10, <1>0 DEF Edit, page, history, previews, lists, server, world, intents
<1>11. ASSUME RetryPreview PROVE AllMade
  BY <1>11, <1>0 DEF RetryPreview, page, history, previews, lists, server, world, intents
<1>12. ASSUME AnswerPreview PROVE AllMade
  BY <1>12, <1>0 DEF AnswerPreview, page, history, previews, lists, server, world, intents
<1>13. ASSUME ReceivePreview PROVE AllMade
  BY <1>13, <1>0 DEF ReceivePreview, page, history, previews, lists, server, world, intents
<1>14. ASSUME Poll PROVE AllMade
  BY <1>14, <1>0 DEF Poll, LoadRuns, page, history, previews, lists, server, world, intents
<1>15. ASSUME Refresh PROVE AllMade
  BY <1>15, <1>0 DEF Refresh, LoadRuns, page, history, previews, lists, server, world, intents
<1>16. ASSUME AnswerList PROVE AllMade
  BY <1>16, <1>0 DEF AnswerList, page, history, previews, lists, server, world, intents
<1>17. ASSUME ReceiveList PROVE AllMade
  BY <1>17, <1>0 DEF ReceiveList, page, history, previews, lists, server, world, intents
<1>18. ASSUME ListFails PROVE AllMade
  BY <1>18, <1>0 DEF ListFails, page, history, previews, lists, server, world, intents
<1>19. ASSUME NEW h \in Handler, Generate(h) PROVE AllMade
  BY <1>19, <1>0 DEF Generate, page, history, previews, lists, server, world, intents
<1>20. ASSUME NEW h \in Handler, Succeed(h) PROVE AllMade
  BY <1>20, <1>0 DEF Succeed, page, history, previews, lists, server, world, intents
<1>21. ASSUME NEW h \in Handler, Fail(h) PROVE AllMade
  BY <1>21, <1>0 DEF Fail, page, history, previews, lists, server, world, intents
<1>22. ASSUME NEW h \in Handler, NEW u \in RequestId, NEW op \in {"resume", "undo"}, MutateRun(h, u, op)
       PROVE  AllMade
  BY <1>22, <1>0 DEF MutateRun, page, history, previews, lists, server, world, intents
<1>23. ASSUME Mount PROVE AllMade
  BY <1>23, <1>0 DEF Mount, page, history, previews, lists, server, world, intents
<1>24. ASSUME Unmount PROVE AllMade
  BY <1>24, <1>0 DEF Unmount, page, history, previews, lists, server, world, intents
<1> QED BY <1>1, <1>2, <1>3, <1>4, <1>5, <1>6, <1>7, <1>8, <1>9, <1>10, <1>11, <1>12, <1>13,
           <1>14, <1>15, <1>16, <1>17, <1>18, <1>19, <1>20, <1>21, <1>22, <1>23, <1>24
     DEF Next, ServerNext, Work, Typing, Previewing, Listing, Acting

LEMMA DrawnGrows == IInv /\ [Next]_vars => drawn' >= drawn
<1> SUFFICES ASSUME ActionType, [Next]_vars
             PROVE  drawn' >= drawn
  BY DEF IInv, Typed
<1> USE DEF ActionType
<1>1. CASE UNCHANGED vars
  BY <1>1 DEF vars, server, world, page, history, previews, lists
<1>2. ASSUME NEW h \in Handler, LookUp(h), UNCHANGED <<page, history>> PROVE drawn' >= drawn
  BY <1>2 DEF LookUp, world, page, history, previews, lists
<1>3. ASSUME NEW h \in Handler, Fails(h), UNCHANGED <<page, history>> PROVE drawn' >= drawn
  BY <1>3 DEF Fails, world, page, history, previews, lists
<1>4. ASSUME NEW h \in Handler, Prepare(h), UNCHANGED <<page, history>> PROVE drawn' >= drawn
  BY <1>4 DEF Prepare, world, page, history, previews, lists
<1>5. ASSUME NEW h \in Handler, Claim(h), UNCHANGED <<page, history>> PROVE drawn' >= drawn
  BY <1>5 DEF Claim, world, page, history, previews, lists
<1>6. ASSUME NEW h \in Handler, Finish(h), UNCHANGED <<page, history>> PROVE drawn' >= drawn
  BY <1>6 DEF Finish, world, page, history, previews, lists
<1>7. ASSUME Crash, UNCHANGED <<page, history>> PROVE drawn' >= drawn
  BY <1>7 DEF Crash, world, page, history, previews, lists
<1>8. ASSUME NEW u \in RequestId, LeaseExpires(u), UNCHANGED <<page, history>> PROVE drawn' >= drawn
  BY <1>8 DEF LeaseExpires, world, page, history, previews, lists
<1>9. ASSUME Change, UNCHANGED <<page, history>> PROVE drawn' >= drawn
  BY <1>9 DEF Change, server, world, page, history, previews, lists
<1>10. ASSUME NEW d \in Draft \cup {Nothing}, Edit(d) PROVE drawn' >= drawn
  BY <1>10 DEF Edit, page, history, previews, lists, server, world, intents
<1>11. ASSUME RetryPreview PROVE drawn' >= drawn
  BY <1>11 DEF RetryPreview, page, history, previews, lists, server, world, intents
<1>12. ASSUME AnswerPreview PROVE drawn' >= drawn
  BY <1>12 DEF AnswerPreview, page, history, previews, lists, server, world, intents
<1>13. ASSUME ReceivePreview PROVE drawn' >= drawn
  BY <1>13 DEF ReceivePreview, page, history, previews, lists, server, world, intents
<1>14. ASSUME Poll PROVE drawn' >= drawn
  BY <1>14 DEF Poll, LoadRuns, page, history, previews, lists, server, world, intents
<1>15. ASSUME Refresh PROVE drawn' >= drawn
  BY <1>15 DEF Refresh, LoadRuns, page, history, previews, lists, server, world, intents
<1>16. ASSUME AnswerList PROVE drawn' >= drawn
  BY <1>16 DEF AnswerList, page, history, previews, lists, server, world, intents
<1>17. ASSUME ReceiveList PROVE drawn' >= drawn
  BY <1>17 DEF ReceiveList, page, history, previews, lists, server, world, intents
<1>18. ASSUME ListFails PROVE drawn' >= drawn
  BY <1>18 DEF ListFails, page, history, previews, lists, server, world, intents
<1>19. ASSUME NEW h \in Handler, Generate(h) PROVE drawn' >= drawn
  BY <1>19 DEF Generate, page, history, previews, lists, server, world, intents
<1>20. ASSUME NEW h \in Handler, Succeed(h) PROVE drawn' >= drawn
  BY <1>20 DEF Succeed, page, history, previews, lists, server, world, intents
<1>21. ASSUME NEW h \in Handler, Fail(h) PROVE drawn' >= drawn
  BY <1>21 DEF Fail, page, history, previews, lists, server, world, intents
<1>22. ASSUME NEW h \in Handler, NEW u \in RequestId, NEW op \in {"resume", "undo"}, MutateRun(h, u, op)
       PROVE  drawn' >= drawn
  BY <1>22 DEF MutateRun, page, history, previews, lists, server, world, intents
<1>23. ASSUME Mount PROVE drawn' >= drawn
  BY <1>23 DEF Mount, page, history, previews, lists, server, world, intents
<1>24. ASSUME Unmount PROVE drawn' >= drawn
  BY <1>24 DEF Unmount, page, history, previews, lists, server, world, intents
<1> QED BY <1>1, <1>2, <1>3, <1>4, <1>5, <1>6, <1>7, <1>8, <1>9, <1>10, <1>11, <1>12, <1>13,
           <1>14, <1>15, <1>16, <1>17, <1>18, <1>19, <1>20, <1>21, <1>22, <1>23, <1>24
     DEF Next, ServerNext, Work, Typing, Previewing, Listing, Acting

-----------------------------------------------------------------------------
(* Handlers work on what they were asked for. *)

LEMMA JobsStay == IInv /\ [Next]_vars => Jobs'
<1> SUFFICES ASSUME IInv, [Next]_vars PROVE Jobs'
  OBVIOUS
<1> USE DEF IInv, Typed
<1>goes. \A u \in RequestId : Exists(u) => Goes(u, runs'[u]) /\ runs'[u] # Nothing
  <2> SUFFICES ASSUME NEW u \in RequestId, Exists(u) PROVE Goes(u, runs'[u]) /\ runs'[u] # Nothing
    OBVIOUS
  <2>1. Goes(u, runs'[u])
    BY RunsGoOn
  <2>2. runs'[u] \in Run
    BY <2>1 DEF Goes
  <2> QED BY <2>1, <2>2, Constants DEF Exists
<1>types. RunsType' /\ JobsType' /\ ActionType'
  BY RunsTypeStays, JobsTypeStays, ActionTypeStays
<1>drawn. drawn' >= drawn
  BY DrawnGrows
<1>ids. \A u \in RequestId : u <= drawn => u <= drawn'
  <2>1. drawn \in Nat
    BY DEF ActionType
  <2>2. drawn' \in Nat
    BY <1>types DEF ActionType
  <2> QED BY <2>1, <2>2, <1>drawn, Constants
<1> DEFINE Good(g) == JobOK(job[g])' /\ AnswerOK(job[g])'
<1>idle. ASSUME NEW g \in Handler, job'[g] = Idle PROVE Good(g)
  BY <1>idle, IdleIsAJob DEF JobOK, AnswerOK
<1>same. ASSUME NEW g \in Handler, Same(job'[g], job[g]) PROVE Good(g)
  <2>1. JobOK(job[g]) /\ AnswerOK(job[g]) /\ job[g] \in Job
    BY DEF Jobs, JobsType
  <2>2. RequestHash(job'[g]) = RequestHash(job[g])
    BY <1>same DEF Same, RequestHash
  <2>3. JobOK(job[g])'
    <3>1. job'[g].op = "generate" =>
            job'[g].id \in RequestId /\ job'[g].draft \in Draft /\ job'[g].id <= drawn'
      BY <1>same, <1>ids, <2>1 DEF JobOK, Same
    <3>2. job'[g].stage \in {"claim", "work"} => job'[g].id \in RequestId /\ runs'[job'[g].id] # Nothing
      BY <1>same, <1>goes, <2>1 DEF JobOK, Same
    <3>3. job'[g].op = "generate" /\ job'[g].stage \in {"claim", "work"} =>
            runs'[job'[g].id].hash = RequestHash(job'[g])
      BY <1>same, <1>goes, <2>1, <2>2 DEF JobOK, Same, Goes
    <3> QED BY <1>same, <2>1, <3>1, <3>2, <3>3 DEF JobOK, Same, Exists
  <2>4. AnswerOK(job[g])'
    <3>1. SUFFICES ASSUME job'[g].stage = "answered", job'[g].answer # Failure
                   PROVE  /\ job'[g].answer.id \in RequestId /\ runs'[job'[g].answer.id] # Nothing
                          /\ job'[g].answer.version <= runs'[job'[g].answer.id].version
                          /\ job'[g].op = "generate" =>
                               runs'[job'[g].answer.id].hash = RequestHash(job'[g])
      BY DEF AnswerOK, Exists
    <3>2. /\ job[g].answer.id \in RequestId /\ Exists(job[g].answer.id)
          /\ job[g].answer.version <= runs[job[g].answer.id].version
          /\ job[g].op = "generate" => runs[job[g].answer.id].hash = RequestHash(job[g])
      BY <1>same, <2>1, <3>1 DEF AnswerOK, Same
    <3> DEFINE u == job[g].answer.id
    <3>3. Goes(u, runs'[u]) /\ runs'[u] # Nothing
      BY <1>goes, <3>2
    <3>4. job[g].answer.version \in Nat /\ runs[u].version \in Nat /\ runs'[u].version \in Nat
      BY <2>1, <3>2, <3>3 DEF Job, Answer, RunsType, Exists, Goes, Run
    <3>5. runs'[u].version >= job[g].answer.version /\ runs'[u].hash = runs[u].hash
      BY <3>2, <3>3, <3>4 DEF Goes
    <3> QED BY <1>same, <2>2, <3>2, <3>3, <3>5 DEF Same, Exists
  <2> QED BY <2>3, <2>4
<1>keep. ASSUME job' = job PROVE \A g \in Handler : Good(g)
  BY <1>keep, <1>same DEF Same
<1>one. ASSUME NEW h \in Handler, NEW n, job' = [job EXCEPT ![h] = n], Good(h)
        PROVE  \A g \in Handler : Good(g)
  <2> SUFFICES ASSUME NEW g \in Handler, g # h PROVE Good(g)
    BY <1>one
  <2>1. job'[g] = job[g]
    BY <1>one DEF JobsType
  <2> HIDE DEF Good
  <2> QED BY <2>1, <1>same DEF Same
<1> SUFFICES \A g \in Handler : Good(g)
  BY DEF Jobs
<1> DEFINE AllGood == \A g \in Handler : Good(g)
<1> SUFFICES AllGood
  OBVIOUS
<1>asked. ASSUME NEW h \in Handler, NEW op \in {"generate", "resume", "undo"}, NEW u \in RequestId,
                 NEW d \in Draft \cup {Nothing}, Accept(h, op, u, d),
                 op = "generate" => d \in Draft /\ u <= drawn', op # "generate" => Exists(u)
          PROVE  AllGood
  <2>1. PICK n \in Job :
           /\ job' = [job EXCEPT ![h] = n] /\ n.op = op /\ n.id = u /\ n.draft = d
           /\ n.stage = IF op = "generate" THEN "received" ELSE "claim"
    BY <1>asked, AcceptDoes
  <2>2. job'[h] = n
    BY <2>1 DEF JobsType
  <2>3. Exists(u) => runs'[u] # Nothing
    BY <1>goes
  <2>4. Good(h)
    BY <1>asked, <2>1, <2>2, <2>3 DEF JobOK, AnswerOK, Exists
  <2> HIDE DEF Good
  <2> QED BY <1>one, <2>1, <2>4
<1>told. ASSUME NEW h \in Handler, JobOK(job[h]), NEW n \in Job, job' = [job EXCEPT ![h] = n],
                n.op = job[h].op, n.id = job[h].id, n.draft = job[h].draft, n.stage = "answered",
                \/ n.answer = Failure
                \/ /\ n.answer.id \in RequestId /\ runs'[n.answer.id] # Nothing
                   /\ n.answer.version <= runs'[n.answer.id].version
                   /\ n.op = "generate" => runs'[n.answer.id].hash = RequestHash(n)
         PROVE  AllGood
  <2>1. job'[h] = n
    BY <1>told DEF JobsType
  <2>2. n.op = "generate" => n.id \in RequestId /\ n.draft \in Draft /\ n.id <= drawn'
    BY <1>told, <1>ids DEF JobOK
  <2>3. Good(h)
    BY <1>told, <2>1, <2>2 DEF JobOK, AnswerOK, Exists
  <2> HIDE DEF Good
  <2> QED BY <1>one, <1>told, <2>3
<1>onward. ASSUME NEW h \in Handler, JobOK(job[h]), NEW n \in Job, job' = [job EXCEPT ![h] = n],
                n.op = job[h].op, n.id = job[h].id, n.draft = job[h].draft,
                \/ n.stage = "prepare" /\ n.op = "generate" /\ n.bytes \in Pictures /\ n.tree \in Trees
                \/ /\ n.stage \in {"claim", "work"} /\ n.id \in RequestId /\ runs'[n.id] # Nothing
                   /\ n.op = "generate" => runs'[n.id].hash = RequestHash(n)
         PROVE  AllGood
  <2>1. job'[h] = n
    BY <1>onward DEF JobsType
  <2>2. n.op = "generate" => n.id \in RequestId /\ n.draft \in Draft /\ n.id <= drawn'
    BY <1>onward, <1>ids DEF JobOK
  <2>3. Good(h)
    BY <1>onward, <2>1, <2>2 DEF JobOK, AnswerOK, Exists
  <2> HIDE DEF Good
  <2> QED BY <1>one, <1>onward, <2>3
<1>free. ASSUME NEW h \in Handler, job' = [job EXCEPT ![h] = Idle] PROVE AllGood
  <2>1. job'[h] = Idle
    BY <1>free DEF JobsType
  <2>2. Good(h)
    BY <2>1, <1>idle
  <2> HIDE DEF Good
  <2> QED BY <1>one, <1>free, <2>2
<1>still. ASSUME NEW h \in Handler, NEW n \in Job, job' = [job EXCEPT ![h] = n], Same(n, job[h]) PROVE AllGood
  <2>1. job'[h] = n
    BY <1>still DEF JobsType
  <2>2. Good(h)
    BY <2>1, <1>same, <1>still
  <2> HIDE DEF Good
  <2> QED BY <1>one, <1>still, <2>2
<1> HIDE DEF AllGood, Good
<1>was. \A h \in Handler : JobOK(job[h])
  BY DEF Jobs
<1>1. CASE UNCHANGED vars
  BY <1>1, <1>keep DEF vars, server, AllGood
<1>2. ASSUME NEW h \in Handler, LookUp(h), UNCHANGED <<page, history>> PROVE AllGood
  <2>1. PICK n \in Job :
           /\ job' = [job EXCEPT ![h] = n] /\ job[h].op = "generate"
           /\ \/ n = Idle
              \/ /\ n.op = "generate" /\ n.id = job[h].id /\ n.draft = job[h].draft
                 /\ \/ n.stage = "answered" /\ n.answer = Failure
                    \/ /\ n.stage = "answered" /\ n.answer = Result(n.id)
                       /\ Exists(n.id) /\ runs[n.id].hash = RequestHash(n)
                    \/ n.stage = "prepare" /\ n.bytes \in Pictures /\ n.tree \in Trees
    BY <1>2, LookUpDoes
  <2>2. runs' = runs
    BY <1>2 DEF LookUp
  <2>3. CASE n = Idle
    BY <2>1, <2>3, <1>free
  <2>4. CASE n # Idle /\ n.stage = "answered" /\ n.answer = Failure
    BY <2>1, <2>4, <1>told, <1>was
  <2>5. CASE n # Idle /\ n.stage = "answered" /\ n.answer = Result(n.id) /\ n.answer # Failure
             /\ Exists(n.id) /\ runs[n.id].hash = RequestHash(n)
    <3>1. n.op = "generate" /\ n.id = job[h].id /\ n.draft = job[h].draft
      BY <2>1, <2>5
    <3>2. n.id \in RequestId
      BY <2>1, <3>1, <1>was DEF JobOK
    <3>3. n.answer.id = n.id /\ n.answer.version = runs[n.id].version /\ runs[n.id].version \in Nat
      BY <2>5, <3>2, Results DEF RunsType, Exists, Run
    <3>4. runs'[n.answer.id] # Nothing
      BY <2>5, <3>2, <3>3, <1>goes
    <3>5. /\ n.answer.version <= runs'[n.answer.id].version
          /\ n.op = "generate" => runs'[n.answer.id].hash = RequestHash(n)
      BY <2>2, <2>5, <3>3
    <3>6. job' = [job EXCEPT ![h] = n] /\ n.op = job[h].op /\ n.answer.id \in RequestId
      BY <2>1, <3>1, <3>2, <3>3
    <3> QED BY <2>5, <3>1, <3>4, <3>5, <3>6, <1>told, <1>was
  <2>6. CASE n # Idle /\ n.stage = "prepare" /\ n.bytes \in Pictures /\ n.tree \in Trees
    BY <2>1, <2>6, <1>onward, <1>was
  <2> QED BY <2>1, <2>3, <2>4, <2>5, <2>6
<1>3. ASSUME NEW h \in Handler, Fails(h), UNCHANGED <<page, history>> PROVE AllGood
  BY <1>3, FailsDoes, <1>free, <1>told, <1>was
<1>4. ASSUME NEW h \in Handler, Prepare(h), UNCHANGED <<page, history>> PROVE AllGood
  <2> DEFINE u == job[h].id
  <2>1. job[h].op = "generate" /\ u \in RequestId /\ job[h] \in Job
        /\ job[h].draft \in Draft /\ job[h].bytes \in Pictures /\ job[h].tree \in Trees
    BY <1>4, PrepareDoes DEF JobsType
  <2>2. PICK n \in Job :
              /\ job' = [job EXCEPT ![h] = n]
              /\ n = Idle \/ (n.op = "generate" /\ n.id = job[h].id /\ n.draft = job[h].draft)
              /\ \/ /\ runs' = runs
                    /\ n = Idle \/ (n.stage = "answered" /\ n.answer = Failure)
                 \/ /\ runs' = runs
                    /\ n.stage = "claim" /\ Exists(n.id) /\ runs[n.id].hash = RequestHash(n)
                 \/ /\ ~LimitReached /\ ~Exists(job[h].id)
                    /\ runs' = [runs EXCEPT ![job[h].id] = NewRun(job[h])]
                    /\ n.stage = "claim" /\ n.id = job[h].id /\ RequestHash(n) = RequestHash(job[h])
    BY <1>4, PrepareDoes
  <2>3. CASE n = Idle
    BY <2>2, <2>3, <1>free
  <2>4. CASE n # Idle /\ n.stage = "answered" /\ n.answer = Failure
    BY <2>1, <2>2, <2>4, <1>told, <1>was
  <2>5. CASE n # Idle /\ runs' = runs /\ n.stage = "claim" /\ Exists(n.id) /\ runs[n.id].hash = RequestHash(n)
    <3>1. runs'[n.id] # Nothing
      BY <2>1, <2>2, <2>5, <1>goes
    <3> QED BY <2>1, <2>2, <2>5, <3>1, <1>onward, <1>was
  <2>6. CASE n # Idle /\ runs' = [runs EXCEPT ![u] = NewRun(job[h])]
             /\ n.stage = "claim" /\ n.id = u /\ RequestHash(n) = RequestHash(job[h])
    <3>1. NewRun(job[h]) \in Run /\ NewRun(job[h]).hash = RequestHash(job[h])
      BY <2>1, NewRuns
    <3>2. runs'[u] = NewRun(job[h])
      BY <2>1, <2>6 DEF RunsType
    <3>3. runs'[n.id] # Nothing /\ runs'[n.id].hash = RequestHash(n)
      BY <2>6, <3>1, <3>2, Constants DEF Exists
    <3> QED BY <2>1, <2>2, <2>6, <3>3, <1>onward, <1>was
  <2> QED BY <2>2, <2>3, <2>4, <2>5, <2>6
<1>5. ASSUME NEW h \in Handler, Claim(h), UNCHANGED <<page, history>> PROVE AllGood
  <2> DEFINE u == job[h].id
  <2>1. u \in RequestId /\ Exists(u) /\ job[h].stage = "claim" /\ runs'[u] # Nothing /\ Goes(u, runs'[u])
    BY <1>5, ClaimDoes, <1>goes
  <2>2. PICK n \in Job :
              /\ job' = [job EXCEPT ![h] = n]
              /\ n = Idle \/ (n.op = job[h].op /\ n.id = job[h].id /\ n.draft = job[h].draft
                               /\ RequestHash(n) = RequestHash(job[h]))
              /\ \/ n = Idle \/ (n.stage = "answered" /\ n.answer \in {Failure, Result(job[h].id)} /\ runs' = runs)
                 \/ n.stage = "work"
    BY <1>5, ClaimDoes
  <2>3. job[h].op = "generate" => runs'[u].hash = RequestHash(job[h])
    BY <2>1, <1>was DEF JobOK, Goes
  <2>4. CASE n = Idle
    BY <2>2, <2>4, <1>free
  <2>5. CASE n # Idle /\ n.stage = "answered" /\ n.answer = Failure
    BY <2>2, <2>5, <1>told, <1>was
  <2>6. CASE n # Idle /\ n.stage = "answered" /\ n.answer = Result(u) /\ runs' = runs
    <3>1. n.answer.id = u /\ n.answer.version = runs[u].version /\ runs[u].version \in Nat
      BY <2>1, <2>6, Results DEF RunsType, Exists, Run
    <3>2. runs'[n.answer.id] # Nothing
      BY <2>1, <3>1
    <3>3. /\ n.answer.version <= runs'[n.answer.id].version /\ n.answer.id \in RequestId
          /\ n.op = "generate" => runs'[n.answer.id].hash = RequestHash(n)
      BY <2>1, <2>2, <2>3, <2>6, <3>1
    <3>4. job' = [job EXCEPT ![h] = n] /\ n.op = job[h].op /\ n.id = job[h].id /\ n.draft = job[h].draft
      BY <2>2, <2>6
    <3> QED BY <2>6, <3>2, <3>3, <3>4, <1>told, <1>was
  <2>7. CASE n # Idle /\ n.stage = "work"
    <3>1. runs'[n.id] # Nothing
      BY <2>1, <2>2, <2>7
    <3> QED BY <2>1, <2>2, <2>3, <2>7, <3>1, <1>onward, <1>was
  <2> QED BY <2>2, <2>4, <2>5, <2>6, <2>7
<1>6. ASSUME NEW h \in Handler, Finish(h), UNCHANGED <<page, history>> PROVE AllGood
  <2> DEFINE u == job[h].id
  <2>1. u \in RequestId /\ Exists(u) /\ job[h].stage = "work" /\ runs'[u] # Nothing /\ Goes(u, runs'[u])
    BY <1>6, FinishDoes, <1>goes
  <2>2. PICK n \in Job, r \in Run, a \in Answer :
              /\ job' = [job EXCEPT ![h] = n]
              /\ Goes(job[h].id, r) /\ runs' = [runs EXCEPT ![job[h].id] = r]
              /\ ~r.closed => r.status \in OpenStatus
              /\ a.id = job[h].id /\ a.version = r.version
              /\ n = Idle \/ (n.op = job[h].op /\ n.id = job[h].id /\ n.draft = job[h].draft
                               /\ RequestHash(n) = RequestHash(job[h])
                               /\ n.stage = "answered" /\ n.answer = a)
    BY <1>6, FinishDoes
  <2>3. runs'[u] = r /\ r.version \in Nat
    BY <2>1, <2>2 DEF RunsType, Run
  <2>4. job[h].op = "generate" => runs'[u].hash = RequestHash(job[h])
    BY <2>1, <1>was DEF JobOK, Goes
  <2>5. CASE n = Idle
    BY <2>2, <2>5, <1>free
  <2>6. CASE n # Idle
    <3>1. n.answer.id = u /\ n.answer.version <= runs'[u].version
      BY <2>2, <2>3, <2>6
    <3>2. runs'[n.answer.id] # Nothing
      BY <2>1, <3>1
    <3> QED BY <2>1, <2>2, <2>4, <2>6, <3>1, <3>2, <1>told, <1>was
  <2> QED BY <2>5, <2>6
<1>7. ASSUME Crash, UNCHANGED <<page, history>> PROVE AllGood
  <2> SUFFICES ASSUME NEW h \in Handler PROVE Good(h)
    BY DEF AllGood
  <2>1. \/ job'[h] = Idle
        \/ /\ job'[h].op = job[h].op /\ job'[h].id = job[h].id /\ job'[h].draft = job[h].draft
           /\ job'[h].stage = "answered" /\ job'[h].answer = Failure
    BY <1>7, CrashDoes
  <2>2. JobOK(job[h]) /\ drawn' = drawn
    BY <1>7, <1>was DEF page
  <2>3. CASE job'[h] # Idle
    BY <2>1, <2>2, <2>3 DEF Good, JobOK, AnswerOK
  <2> QED BY <2>3, <1>idle
<1>8. ASSUME NEW u \in RequestId, LeaseExpires(u), UNCHANGED <<page, history>> PROVE AllGood
  BY <1>8, <1>keep DEF LeaseExpires, world, page, history, previews, lists, AllGood
<1>9. ASSUME Change, UNCHANGED <<page, history>> PROVE AllGood
  BY <1>9, <1>keep DEF Change, server, world, page, history, previews, lists, AllGood
<1>10. ASSUME NEW d \in Draft \cup {Nothing}, Edit(d) PROVE AllGood
  BY <1>10, <1>keep DEF Edit, page, history, previews, lists, server, world, intents, AllGood
<1>11. ASSUME RetryPreview PROVE AllGood
  BY <1>11, <1>keep DEF RetryPreview, page, history, previews, lists, server, world, intents, AllGood
<1>12. ASSUME AnswerPreview PROVE AllGood
  BY <1>12, <1>keep DEF AnswerPreview, page, history, previews, lists, server, world, intents, AllGood
<1>13. ASSUME ReceivePreview PROVE AllGood
  BY <1>13, <1>keep DEF ReceivePreview, page, history, previews, lists, server, world, intents, AllGood
<1>14. ASSUME Poll PROVE AllGood
  BY <1>14, <1>keep DEF Poll, LoadRuns, page, history, previews, lists, server, world, intents, AllGood
<1>15. ASSUME Refresh PROVE AllGood
  BY <1>15, <1>keep DEF Refresh, LoadRuns, page, history, previews, lists, server, world, intents, AllGood
<1>16. ASSUME AnswerList PROVE AllGood
  BY <1>16, <1>keep DEF AnswerList, page, history, previews, lists, server, world, intents, AllGood
<1>17. ASSUME ReceiveList PROVE AllGood
  BY <1>17, <1>keep DEF ReceiveList, page, history, previews, lists, server, world, intents, AllGood
<1>18. ASSUME ListFails PROVE AllGood
  BY <1>18, <1>keep DEF ListFails, page, history, previews, lists, server, world, intents, AllGood
<1>19. ASSUME NEW h \in Handler, Generate(h) PROVE AllGood
  <2>1. draft \in Draft /\ RecoveredId \in RequestId /\ Accept(h, "generate", RecoveredId, draft)
    BY <1>19 DEF Generate, PreviewType
  <2>2. RecoveredId <= drawn'
    BY <1>19, <1>types DEF Generate, RecoveredId, Reusable, Wishes, ActionType, Saved
  <2> QED BY <2>1, <2>2, <1>asked
<1>20. ASSUME NEW h \in Handler, Succeed(h) PROVE AllGood
  BY <1>20, <1>free DEF Succeed, Become
<1>21. ASSUME NEW h \in Handler, Fail(h) PROVE AllGood
  BY <1>21, FailDoes, <1>free, <1>still
<1>22. ASSUME NEW h \in Handler, NEW u \in RequestId, NEW op \in {"resume", "undo"}, MutateRun(h, u, op)
       PROVE  AllGood
  <2>1. Accept(h, op, u, Nothing) /\ shown[u] # Nothing
    BY <1>22 DEF MutateRun, Offered
  <2>2. Exists(u)
    BY <2>1 DEF Told, Known
  <2> QED BY <2>1, <2>2, <1>asked
<1>23. ASSUME Mount PROVE AllGood
  BY <1>23, <1>keep DEF Mount, page, history, previews, lists, server, world, intents, AllGood
<1>24. ASSUME Unmount PROVE AllGood
  BY <1>24, UnmountDoes, <1>free, <1>still, <1>keep DEF AllGood
<1> QED BY <1>1, <1>2, <1>3, <1>4, <1>5, <1>6, <1>7, <1>8, <1>9, <1>10, <1>11, <1>12, <1>13,
           <1>14, <1>15, <1>16, <1>17, <1>18, <1>19, <1>20, <1>21, <1>22, <1>23, <1>24
     DEF Next, ServerNext, Work, Typing, Previewing, Listing, Acting

-----------------------------------------------------------------------------
(* What is told of a run is not newer than the run, nor older than what was told. *)

LEMMA ToldStays == IInv /\ [Next]_vars => Told'
<1> SUFFICES ASSUME IInv, [Next]_vars PROVE Told'
  OBVIOUS
<1>goes. \A u \in RequestId : Exists(u) => Goes(u, runs'[u]) /\ runs'[u] # Nothing
  BY RunsGoOn, Constants DEF Goes
<1> DEFINE NotNewer(list) ==
      \A u \in RequestId : list[u] # Nothing => runs'[u] # Nothing /\ list[u].version <= runs'[u].version
<1>known. ASSUME NEW list \in Lists, Known(list) PROVE NotNewer(list)
  <2> SUFFICES ASSUME NEW u \in RequestId, list[u] # Nothing
               PROVE  runs'[u] # Nothing /\ list[u].version <= runs'[u].version
    OBVIOUS
  <2>1. Exists(u) /\ list[u].version <= runs[u].version
    BY <1>known DEF Known
  <2>2. Goes(u, runs'[u]) /\ runs'[u] # Nothing
    BY <2>1, <1>goes
  <2>3. list[u].version \in Nat /\ runs[u].version \in Nat /\ runs'[u].version \in Nat
    BY <2>1, <2>2 DEF Lists, Answer, IInv, Typed, RunsType, Exists, Goes, Run
  <2> QED BY <2>1, <2>2, <2>3 DEF Goes
<1>told. /\ Known(shown) /\ (listBody # Nothing => Known(listBody.list))
         /\ Live(listBody) =>
              \A u \in RequestId :
                shown[u] # Nothing /\ listBody.list[u] # Nothing
                  => listBody.list[u].version >= shown[u].version
  BY DEF IInv, Told
<1>lists. shown \in Lists /\ (listBody # Nothing => listBody.list \in Lists)
  BY DEF IInv, Typed, ListType
<1> DEFINE Then ==
      /\ NotNewer(shown')
      /\ listBody' # Nothing => NotNewer(listBody'.list)
      /\ listBody' # Nothing /\ listBody'.live =>
           \A u \in RequestId :
             shown'[u] # Nothing /\ listBody'.list[u] # Nothing
               => listBody'.list[u].version >= shown'[u].version
<1> SUFFICES Then
  BY DEF Told, Known, Exists, Live
<1>shown. NotNewer(shown) /\ (listBody # Nothing => NotNewer(listBody.list))
  BY <1>known, <1>told, <1>lists
<1>aborted. Aborted(listBody) # Nothing =>
              listBody # Nothing /\ Aborted(listBody).list = listBody.list /\ ~Aborted(listBody).live
  BY <1>lists DEF Aborted, IInv, Typed, ListType
<1> HIDE DEF NotNewer
<1>same. ASSUME shown' = shown, listBody' = listBody PROVE Then
  BY <1>same, <1>shown, <1>told DEF Live
<1>abort. ASSUME shown' = shown, listBody' = Aborted(listBody) PROVE Then
  BY <1>abort, <1>shown, <1>aborted
<1> HIDE DEF Then
<1>1. CASE UNCHANGED vars
  BY <1>1, <1>same DEF vars, page, lists
<1>2. ASSUME NEW h \in Handler, LookUp(h), UNCHANGED <<page, history>> PROVE Then
  BY <1>2, <1>same DEF LookUp, world, page, history, previews, lists
<1>3. ASSUME NEW h \in Handler, Fails(h), UNCHANGED <<page, history>> PROVE Then
  BY <1>3, <1>same DEF Fails, world, page, history, previews, lists
<1>4. ASSUME NEW h \in Handler, Prepare(h), UNCHANGED <<page, history>> PROVE Then
  BY <1>4, <1>same DEF Prepare, world, page, history, previews, lists
<1>5. ASSUME NEW h \in Handler, Claim(h), UNCHANGED <<page, history>> PROVE Then
  BY <1>5, <1>same DEF Claim, world, page, history, previews, lists
<1>6. ASSUME NEW h \in Handler, Finish(h), UNCHANGED <<page, history>> PROVE Then
  BY <1>6, <1>same DEF Finish, world, page, history, previews, lists
<1>7. ASSUME Crash, UNCHANGED <<page, history>> PROVE Then
  BY <1>7, <1>same DEF Crash, world, page, history, previews, lists
<1>8. ASSUME NEW u \in RequestId, LeaseExpires(u), UNCHANGED <<page, history>> PROVE Then
  BY <1>8, <1>same DEF LeaseExpires, world, page, history, previews, lists
<1>9. ASSUME Change, UNCHANGED <<page, history>> PROVE Then
  BY <1>9, <1>same DEF Change, server, world, page, history, previews, lists
<1>10. ASSUME NEW d \in Draft \cup {Nothing}, Edit(d) PROVE Then
  BY <1>10, <1>same DEF Edit, page, history, previews, lists, server, world, intents
<1>11. ASSUME RetryPreview PROVE Then
  BY <1>11, <1>same DEF RetryPreview, page, history, previews, lists, server, world, intents
<1>12. ASSUME AnswerPreview PROVE Then
  BY <1>12, <1>same DEF AnswerPreview, page, history, previews, lists, server, world, intents
<1>13. ASSUME ReceivePreview PROVE Then
  BY <1>13, <1>same DEF ReceivePreview, page, history, previews, lists, server, world, intents
<1>14. ASSUME Poll PROVE Then
  BY <1>14, <1>abort DEF Poll, LoadRuns, page, history, previews, lists, server, world, intents
<1>15. ASSUME Refresh PROVE Then
  BY <1>15, <1>abort DEF Refresh, LoadRuns, page, history, previews, lists, server, world, intents
<1>16. ASSUME AnswerList PROVE Then
  <2>0. runs' = runs /\ shown' = shown /\ listBody' = [live |-> TRUE, list |-> List]
    BY <1>16 DEF AnswerList, server
  <2>1. \A u \in RequestId : List[u] # Nothing => Exists(u) /\ List[u].version = runs[u].version
                                                  /\ runs[u].version \in Nat
    BY Results DEF List, Listed, OpenRuns, Finished, IInv, Typed, RunsType, Exists, Run
  <2>2. NotNewer(List)
    BY <2>0, <2>1 DEF NotNewer, Exists
  <2>3. \A u \in RequestId : shown[u] # Nothing => shown[u].version <= runs[u].version
    BY <1>told DEF Known
  <2>4. \A u \in RequestId : shown[u] # Nothing => shown[u].version \in Nat
    BY <1>lists DEF Lists, Answer
  <2>5. \A u \in RequestId : shown[u] # Nothing /\ List[u] # Nothing => List[u].version >= shown[u].version
    BY <2>1, <2>3, <2>4
  <2> QED BY <2>0, <2>2, <2>5, <1>shown DEF Then
<1>17. ASSUME ReceiveList PROVE Then
  <2>1. listBody # Nothing /\ listBody' = Nothing /\ shown' \in {shown, listBody.list}
    BY <1>17 DEF ReceiveList, TakeList
  <2> QED BY <2>1, <1>shown DEF Then
<1>18. ASSUME ListFails PROVE Then
  BY <1>18, <1>same DEF ListFails, page, history, previews, lists, server, world, intents
<1>19. ASSUME NEW h \in Handler, Generate(h) PROVE Then
  BY <1>19, <1>same DEF Generate, page, history, previews, lists, server, world, intents
<1>20. ASSUME NEW h \in Handler, Succeed(h) PROVE Then
  <2> DEFINE a == job[h].answer
  <2>1. shown' = [shown EXCEPT ![a.id] = a] /\ listBody' = Aborted(listBody)
    BY <1>20 DEF Succeed, KeepRun
  <2>2. a.id \in RequestId /\ Exists(a.id) /\ a.version <= runs[a.id].version /\ runs' = runs
    BY <1>20 DEF Succeed, IInv, Jobs, AnswerOK
  <2>3. NotNewer(shown')
    BY <2>1, <2>2, <1>shown, <1>lists DEF NotNewer, Lists, Exists
  <2> QED BY <2>1, <2>3, <1>shown, <1>aborted DEF Then
<1>21. ASSUME NEW h \in Handler, Fail(h) PROVE Then
  BY <1>21, <1>abort DEF Fail, page, history, previews, lists, server, world, intents
<1>22. ASSUME NEW h \in Handler, NEW u \in RequestId, NEW op \in {"resume", "undo"}, MutateRun(h, u, op)
       PROVE  Then
  BY <1>22, <1>same DEF MutateRun, page, history, previews, lists, server, world, intents
<1>23. ASSUME Mount PROVE Then
  BY <1>23, <1>same DEF Mount, page, history, previews, lists, server, world, intents
<1>24. ASSUME Unmount PROVE Then
  <2>1. listBody' = Nothing /\ shown' = NothingShown
    BY <1>24 DEF Unmount
  <2>2. NotNewer(shown')
    BY <2>1 DEF NotNewer, NothingShown
  <2> QED BY <2>1, <2>2 DEF Then
<1> QED BY <1>1, <1>2, <1>3, <1>4, <1>5, <1>6, <1>7, <1>8, <1>9, <1>10, <1>11, <1>12, <1>13,
           <1>14, <1>15, <1>16, <1>17, <1>18, <1>19, <1>20, <1>21, <1>22, <1>23, <1>24
     DEF Next, ServerNext, Work, Typing, Previewing, Listing, Acting

-----------------------------------------------------------------------------
(* The limit on runs that never ended. *)

LEMMA UnclosedStays == IInv /\ [Next]_vars => Unclosed'
<1> SUFFICES ASSUME IInv, [Next]_vars PROVE Unclosed'
  OBVIOUS
<1> DEFINE W == {u \in OpenRuns : ~runs[u].closed}
           WNext == {u \in RequestId : runs'[u] # Nothing /\ runs'[u].status \in OpenStatus /\ ~runs'[u].closed}
<1>goes. \A u \in RequestId : Exists(u) => Goes(u, runs'[u]) /\ runs'[u] # Nothing
  BY RunsGoOn, Constants DEF Goes
<1>made. \A u \in RequestId : ~Exists(u) /\ runs'[u] # Nothing => Made(u)
  BY RunsAreMade
<1>new. ASSUME NEW u \in RequestId, Made(u)
        PROVE  /\ runs'[u].status \in OpenStatus /\ ~LimitReached
               /\ \A v \in RequestId \ {u} : runs'[v] = runs[v]
  <2>1. PICK h \in Handler :
          /\ ~LimitReached /\ job[h].draft \in Draft /\ job[h].bytes \in Pictures /\ job[h].tree \in Trees
          /\ runs' = [runs EXCEPT ![u] = NewRun(job[h])]
    BY <1>new DEF Made
  <2>2. job[h] \in Job /\ runs'[u] = NewRun(job[h])
    BY <2>1 DEF IInv, Typed, JobsType, RunsType
  <2>3. NewRun(job[h]).status \in OpenStatus
    BY <2>1, <2>2, NewRuns
  <2> QED BY <2>1, <2>2, <2>3 DEF IInv, Typed, RunsType
<1>open. \A u \in RequestId : Exists(u) /\ ~runs[u].closed => runs[u].status \in OpenStatus
  BY DEF IInv, Unclosed
<1>1. \A u \in RequestId : runs'[u] # Nothing /\ ~runs'[u].closed => runs'[u].status \in OpenStatus
  BY <1>goes, <1>made, <1>new, <1>open DEF Goes
<1>2. IsFiniteSet(W) /\ IsFiniteSet(OpenRuns) /\ Cardinality(W) <= Cardinality(OpenRuns)
      /\ Cardinality(W) \in Nat /\ Cardinality(OpenRuns) \in Nat
  <2>1. IsFiniteSet(OpenRuns)
    BY Constants, FS_Subset DEF OpenRuns
  <2> QED BY <2>1, FS_Subset, FS_CardinalityType
<1>3. Cardinality(W) <= MaxOpenRuns
  BY DEF IInv, Unclosed, UnfinishedRunsLimited
<1>4. \A u \in WNext : u \in W \/ Made(u)
  BY <1>goes, <1>made, <1>open DEF Goes, OpenRuns
<1>5. Cardinality(WNext) <= MaxOpenRuns
  <2>1. CASE WNext \subseteq W
    BY <2>1, <1>2, <1>3, FS_Subset, FS_CardinalityType, Constants
  <2>2. CASE ~(WNext \subseteq W)
    <3>1. PICK u \in WNext : u \notin W /\ Made(u)
      BY <2>2, <1>4
    <3>2. \A v \in WNext \ {u} : v \in W
      BY <3>1, <1>new DEF OpenRuns, Exists
    <3>3. WNext \subseteq W \cup {u}
      BY <3>2
    <3>4. IsFiniteSet(W \cup {u}) /\ Cardinality(W \cup {u}) = Cardinality(W) + 1
      BY <3>1, <1>2, FS_AddElement
    <3>5. Cardinality(WNext) <= Cardinality(W) + 1 /\ Cardinality(WNext) \in Nat
      BY <3>3, <3>4, FS_Subset, FS_CardinalityType
    <3>6. Cardinality(OpenRuns) < MaxOpenRuns
      BY <3>1, <1>new, <1>2, Constants DEF LimitReached
    <3> HIDE DEF W, WNext
    <3> QED BY <3>5, <3>6, <1>2, Constants
  <2> QED BY <2>1, <2>2
<1>6. {u \in OpenRuns : ~runs[u].closed}' = WNext
  BY DEF OpenRuns, Exists
<1> QED BY <1>1, <1>5, <1>6 DEF Unclosed, UnfinishedRunsLimited, Exists

-----------------------------------------------------------------------------
(* Wishes and their ids. *)

LEMMA WishesStay == IInv /\ [Next]_vars => Wishes'
<1> SUFFICES ASSUME IInv, [Next]_vars PROVE Wishes'
  OBVIOUS
<1>types. drawn \in Nat /\ drawn' \in Nat /\ drawn' >= drawn /\ \A u \in RequestId : u \in Nat
  BY ActionTypeStays, DrawnGrows, Constants DEF IInv, Typed, ActionType
<1>runs. \A u \in RequestId : runs'[u] # Nothing => u <= drawn
  <2> SUFFICES ASSUME NEW u \in RequestId, runs'[u] # Nothing PROVE u <= drawn
    OBVIOUS
  <2>1. CASE Exists(u)
    BY <2>1 DEF IInv, Wishes
  <2>2. CASE ~Exists(u)
    <3>1. Made(u)
      BY <2>2, RunsAreMade
    <3> QED BY <3>1 DEF Made, IInv, Jobs, JobOK
  <2> QED BY <2>1, <2>2
<1> DEFINE Rest ==
      /\ saved' # Nothing => saved'.id <= drawn'
      /\ wish'.open => saved' # Nothing /\ saved'.draft = wish'.draft
      /\ \A u \in RequestId : wishOf'[u] <= wish'.number
      /\ \A u, v \in RequestId : u <= drawn' /\ v <= drawn' /\ wishOf'[u] = wishOf'[v] => u = v
<1> SUFFICES Rest
  BY <1>runs, <1>types DEF Wishes, Exists
<1>was. /\ saved # Nothing => saved.id <= drawn /\ saved.id \in RequestId
        /\ wish.open => saved # Nothing /\ saved.draft = wish.draft
        /\ \A u \in RequestId : wishOf[u] <= wish.number
        /\ \A u, v \in RequestId : u <= drawn /\ v <= drawn /\ wishOf[u] = wishOf[v] => u = v
        /\ wish.number \in Nat /\ wishOf \in [RequestId -> Nat]
  BY DEF IInv, Wishes, Typed, WishType, ActionType, Saved
<1>same. ASSUME saved' = saved, drawn' = drawn, wish' = wish, wishOf' = wishOf PROVE Rest
  BY <1>same, <1>was
<1> HIDE DEF Rest
<1>1. CASE UNCHANGED vars
  BY <1>1, <1>same DEF vars, page, history
<1>2. ASSUME NEW h \in Handler, LookUp(h), UNCHANGED <<page, history>> PROVE Rest
  BY <1>2, <1>same DEF LookUp, world, page, history, previews, lists
<1>3. ASSUME NEW h \in Handler, Fails(h), UNCHANGED <<page, history>> PROVE Rest
  BY <1>3, <1>same DEF Fails, world, page, history, previews, lists
<1>4. ASSUME NEW h \in Handler, Prepare(h), UNCHANGED <<page, history>> PROVE Rest
  BY <1>4, <1>same DEF Prepare, world, page, history, previews, lists
<1>5. ASSUME NEW h \in Handler, Claim(h), UNCHANGED <<page, history>> PROVE Rest
  BY <1>5, <1>same DEF Claim, world, page, history, previews, lists
<1>6. ASSUME NEW h \in Handler, Finish(h), UNCHANGED <<page, history>> PROVE Rest
  BY <1>6, <1>same DEF Finish, world, page, history, previews, lists
<1>7. ASSUME Crash, UNCHANGED <<page, history>> PROVE Rest
  BY <1>7, <1>same DEF Crash, world, page, history, previews, lists
<1>8. ASSUME NEW u \in RequestId, LeaseExpires(u), UNCHANGED <<page, history>> PROVE Rest
  BY <1>8, <1>same DEF LeaseExpires, world, page, history, previews, lists
<1>9. ASSUME Change, UNCHANGED <<page, history>> PROVE Rest
  BY <1>9, <1>same DEF Change, server, world, page, history, previews, lists
<1>10. ASSUME NEW d \in Draft \cup {Nothing}, Edit(d) PROVE Rest
  BY <1>10, <1>same DEF Edit, page, history, previews, lists, server, world, intents
<1>11. ASSUME RetryPreview PROVE Rest
  BY <1>11, <1>same DEF RetryPreview, page, history, previews, lists, server, world, intents
<1>12. ASSUME AnswerPreview PROVE Rest
  BY <1>12, <1>same DEF AnswerPreview, page, history, previews, lists, server, world, intents
<1>13. ASSUME ReceivePreview PROVE Rest
  BY <1>13, <1>same DEF ReceivePreview, page, history, previews, lists, server, world, intents
<1>14. ASSUME Poll PROVE Rest
  BY <1>14, <1>same DEF Poll, LoadRuns, page, history, previews, lists, server, world, intents
<1>15. ASSUME Refresh PROVE Rest
  BY <1>15, <1>same DEF Refresh, LoadRuns, page, history, previews, lists, server, world, intents
<1>16. ASSUME AnswerList PROVE Rest
  BY <1>16, <1>same DEF AnswerList, page, history, previews, lists, server, world, intents
<1>17. ASSUME ReceiveList PROVE Rest
  BY <1>17, <1>same DEF ReceiveList, page, history, previews, lists, server, world, intents
<1>18. ASSUME ListFails PROVE Rest
  BY <1>18, <1>same DEF ListFails, page, history, previews, lists, server, world, intents
<1>19. ASSUME NEW h \in Handler, Generate(h) PROVE Rest
  <2>1. /\ saved' = [draft |-> draft, id |-> RecoveredId] /\ RecoveredId \in RequestId /\ draft \in Draft
        /\ wish' = Wished /\ drawn' = (IF Reusable THEN drawn ELSE drawn + 1)
        /\ wishOf' = IF Reusable THEN wishOf ELSE [wishOf EXCEPT ![RecoveredId] = Wished.number]
    BY <1>19 DEF Generate, IInv, Typed, PreviewType
  <2>2. saved' # Nothing /\ saved'.draft = draft /\ saved'.id = RecoveredId
    BY <2>1, Constants DEF Saved
  <2>3. Wished.open => Wished.draft = draft
    BY DEF Wished
  <2>4. CASE Reusable
    <3>1. RecoveredId = saved.id /\ RecoveredId <= drawn
      BY <2>4, <1>was DEF RecoveredId, Reusable
    <3>2. wish.number <= Wished.number /\ Wished.number \in Nat
      BY <1>was DEF Wished
    <3>3. \A u \in RequestId : wishOf[u] <= Wished.number
      BY <3>2, <1>was
    <3> QED BY <2>1, <2>2, <2>3, <2>4, <3>1, <3>3, <1>was DEF Rest
  <2>5. CASE ~Reusable
    <3>1. RecoveredId = drawn + 1
      BY <2>5 DEF RecoveredId
    <3>2. Wished = [draft |-> draft, number |-> wish.number + 1, open |-> TRUE]
      BY <2>5, <1>was DEF Wished, Reusable
    <3>3. \A u \in RequestId : wishOf'[u] = IF u = drawn + 1 THEN wish.number + 1 ELSE wishOf[u]
      BY <2>1, <2>5, <3>1, <3>2, <1>was
    <3>4. wish'.number = wish.number + 1 /\ drawn' = drawn + 1
      BY <2>1, <2>5, <3>2
    <3>5. \A u \in RequestId : wishOf'[u] <= wish'.number
      BY <3>3, <3>4, <1>was
    <3>6. ASSUME NEW u \in RequestId, NEW v \in RequestId, u <= drawn', v <= drawn', wishOf'[u] = wishOf'[v]
          PROVE  u = v
      <4>1. \A w \in RequestId : w <= drawn + 1 => w = drawn + 1 \/ w <= drawn
        BY <1>types
      <4>2. \A w \in RequestId : wishOf[w] # wish.number + 1
        BY <1>was
      <4> QED BY <3>3, <3>4, <3>6, <4>1, <4>2, <1>was
    <3>7. saved'.id <= drawn'
      BY <2>2, <3>1, <3>4, <1>types
    <3> QED BY <2>1, <2>2, <2>3, <3>5, <3>6, <3>7 DEF Rest
  <2> QED BY <2>4, <2>5
<1>20. ASSUME NEW h \in Handler, Succeed(h) PROVE Rest
  <2>1. CASE saved' = saved /\ wish' = wish
    BY <1>20, <2>1, <1>same DEF Succeed
  <2>2. CASE saved' = Nothing /\ wish' = [wish EXCEPT !.open = FALSE]
    <3>1. ~wish'.open /\ wish'.number = wish.number
      BY <2>2 DEF IInv, Typed, WishType
    <3>2. drawn' = drawn /\ wishOf' = wishOf
      BY <1>20 DEF Succeed
    <3> QED BY <2>2, <3>1, <3>2, <1>was DEF Rest
  <2> QED BY <1>20, <2>1, <2>2 DEF Succeed
<1>21. ASSUME NEW h \in Handler, Fail(h) PROVE Rest
  BY <1>21, <1>same DEF Fail, page, history, previews, lists, server, world, intents
<1>22. ASSUME NEW h \in Handler, NEW u \in RequestId, NEW op \in {"resume", "undo"}, MutateRun(h, u, op)
       PROVE  Rest
  BY <1>22, <1>same DEF MutateRun, page, history, previews, lists, server, world, intents
<1>23. ASSUME Mount PROVE Rest
  BY <1>23, <1>same DEF Mount, page, history, previews, lists, server, world, intents
<1>24. ASSUME Unmount PROVE Rest
  BY <1>24, <1>same DEF Unmount, page, history, previews, lists, server, world, intents
<1> QED BY <1>1, <1>2, <1>3, <1>4, <1>5, <1>6, <1>7, <1>8, <1>9, <1>10, <1>11, <1>12, <1>13,
           <1>14, <1>15, <1>16, <1>17, <1>18, <1>19, <1>20, <1>21, <1>22, <1>23, <1>24
     DEF Next, ServerNext, Work, Typing, Previewing, Listing, Acting

-----------------------------------------------------------------------------
(* Previews *)

LEMMA PreviewedStays == IInv /\ [Next]_vars => Previewed'
<1> SUFFICES ASSUME IInv, [Next]_vars PROVE Previewed'
  OBVIOUS
<1> DEFINE Then == /\ previewBody' # Nothing => FromDraft(previewBody')
                   /\ preview' # Nothing => FromDraft(preview')
<1> SUFFICES Then
  BY DEF Previewed, FromDraft
<1>was. (previewBody # Nothing => FromDraft(previewBody)) /\ (preview # Nothing => FromDraft(preview))
  BY DEF IInv, Previewed
<1>aborted. previewBody # Nothing => FromDraft(Aborted(previewBody))
  BY <1>was DEF Aborted, FromDraft, IInv, Typed, PreviewType, Preview
<1>same. ASSUME preview' \in {preview, Nothing}, previewBody' \in {previewBody, Nothing} PROVE Then
  BY <1>same, <1>was
<1>renewed. ASSUME NEW d, RenewPreview(d) PROVE Then
  <2>1. preview' = Nothing /\ previewBody' = Aborted(previewBody)
    BY <1>renewed DEF RenewPreview
  <2> QED BY <2>1, <1>aborted DEF Aborted
<1> HIDE DEF Then
<1>1. CASE UNCHANGED vars
  BY <1>1, <1>same DEF vars, page, previews
<1>2. ASSUME NEW h \in Handler, LookUp(h), UNCHANGED <<page, history>> PROVE Then
  BY <1>2, <1>same DEF LookUp, world, page, history, previews, lists
<1>3. ASSUME NEW h \in Handler, Fails(h), UNCHANGED <<page, history>> PROVE Then
  BY <1>3, <1>same DEF Fails, world, page, history, previews, lists
<1>4. ASSUME NEW h \in Handler, Prepare(h), UNCHANGED <<page, history>> PROVE Then
  BY <1>4, <1>same DEF Prepare, world, page, history, previews, lists
<1>5. ASSUME NEW h \in Handler, Claim(h), UNCHANGED <<page, history>> PROVE Then
  BY <1>5, <1>same DEF Claim, world, page, history, previews, lists
<1>6. ASSUME NEW h \in Handler, Finish(h), UNCHANGED <<page, history>> PROVE Then
  BY <1>6, <1>same DEF Finish, world, page, history, previews, lists
<1>7. ASSUME Crash, UNCHANGED <<page, history>> PROVE Then
  BY <1>7, <1>same DEF Crash, world, page, history, previews, lists
<1>8. ASSUME NEW u \in RequestId, LeaseExpires(u), UNCHANGED <<page, history>> PROVE Then
  BY <1>8, <1>same DEF LeaseExpires, world, page, history, previews, lists
<1>9. ASSUME Change, UNCHANGED <<page, history>> PROVE Then
  BY <1>9, <1>same DEF Change, server, world, page, history, previews, lists
<1>10. ASSUME NEW d \in Draft \cup {Nothing}, Edit(d) PROVE Then
  BY <1>10, <1>renewed DEF Edit, page, history, previews, lists, server, world, intents
<1>11. ASSUME RetryPreview PROVE Then
  BY <1>11, <1>renewed DEF RetryPreview, page, history, previews, lists, server, world, intents
<1>12. ASSUME AnswerPreview PROVE Then
  <2> DEFINE bytes == picture[draft.source]
  <2>1. PICK rows \in {RowsOf(draft, bytes), <<>>} :
          previewBody' = [draft |-> draft, live |-> TRUE, rows |-> rows, stamp |-> <<tree, bytes>>]
    BY <1>12 DEF AnswerPreview
  <2>2. rows # <<>> => rows = RowsOn(tree, draft, bytes)
    BY DEF RowsOf
  <2>3. FromDraft(previewBody')
    BY <2>1, <2>2 DEF FromDraft
  <2> QED BY <1>12, <2>3, <1>was DEF AnswerPreview, Then
<1>13. ASSUME ReceivePreview PROVE Then
  <2>1. previewBody # Nothing /\ previewBody' = Nothing /\ preview' \in {preview, previewBody}
    BY <1>13 DEF ReceivePreview, TakePreview
  <2> QED BY <2>1, <1>was DEF Then
<1>14. ASSUME Poll PROVE Then
  BY <1>14, <1>same DEF Poll, LoadRuns, page, history, previews, lists, server, world, intents
<1>15. ASSUME Refresh PROVE Then
  BY <1>15, <1>same DEF Refresh, LoadRuns, page, history, previews, lists, server, world, intents
<1>16. ASSUME AnswerList PROVE Then
  BY <1>16, <1>same DEF AnswerList, page, history, previews, lists, server, world, intents
<1>17. ASSUME ReceiveList PROVE Then
  BY <1>17, <1>same DEF ReceiveList, page, history, previews, lists, server, world, intents
<1>18. ASSUME ListFails PROVE Then
  BY <1>18, <1>same DEF ListFails, page, history, previews, lists, server, world, intents
<1>19. ASSUME NEW h \in Handler, Generate(h) PROVE Then
  BY <1>19, <1>same DEF Generate, page, history, previews, lists, server, world, intents
<1>20. ASSUME NEW h \in Handler, Succeed(h) PROVE Then
  BY <1>20, <1>same DEF Succeed, page, history, previews, lists, server, world, intents
<1>21. ASSUME NEW h \in Handler, Fail(h) PROVE Then
  BY <1>21, <1>same DEF Fail, page, history, previews, lists, server, world, intents
<1>22. ASSUME NEW h \in Handler, NEW u \in RequestId, NEW op \in {"resume", "undo"}, MutateRun(h, u, op)
       PROVE  Then
  BY <1>22, <1>same DEF MutateRun, page, history, previews, lists, server, world, intents
<1>23. ASSUME Mount PROVE Then
  BY <1>23, <1>same DEF Mount, page, history, previews, lists, server, world, intents
<1>24. ASSUME Unmount PROVE Then
  BY <1>24, <1>same DEF Unmount, page, history, previews, lists, server, world, intents
<1> QED BY <1>1, <1>2, <1>3, <1>4, <1>5, <1>6, <1>7, <1>8, <1>9, <1>10, <1>11, <1>12, <1>13,
           <1>14, <1>15, <1>16, <1>17, <1>18, <1>19, <1>20, <1>21, <1>22, <1>23, <1>24
     DEF Next, ServerNext, Work, Typing, Previewing, Listing, Acting

-----------------------------------------------------------------------------
(* All that has to do with one id has to do with one draft. *)

\* A handler keeps its request.
Keeps(h) ==
  job'[h].op = "generate" =>
    job[h].op = "generate" /\ job'[h].id = job[h].id /\ job'[h].draft = job[h].draft

LEMMA RequestsAreKept ==
  IInv /\ [Next]_vars => (\A h \in Handler : Keeps(h)) \/ (\E h \in Handler : Generate(h))
<1> DEFINE AllKept == (\A h \in Handler : Keeps(h)) \/ (\E h \in Handler : Generate(h))
<1> SUFFICES ASSUME JobsType, RunsType, WorldType, ActionType, Jobs, [Next]_vars PROVE AllKept
  BY DEF IInv, Typed
<1>keep. ASSUME job' = job PROVE AllKept
  BY <1>keep DEF Keeps
<1>one. ASSUME NEW h \in Handler, NEW n, job' = [job EXCEPT ![h] = n],
               n.op = "generate" => job[h].op = "generate" /\ n.id = job[h].id /\ n.draft = job[h].draft
        PROVE  AllKept
  BY <1>one DEF Keeps, JobsType
<1> HIDE DEF AllKept
<1>1. CASE UNCHANGED vars
  BY <1>1, <1>keep DEF vars, server
<1>2. ASSUME NEW h \in Handler, LookUp(h), UNCHANGED <<page, history>> PROVE AllKept
  BY <1>2, LookUpDoes, IdleIsAJob, <1>one
<1>3. ASSUME NEW h \in Handler, Fails(h), UNCHANGED <<page, history>> PROVE AllKept
  BY <1>3, FailsDoes, IdleIsAJob, <1>one
<1>4. ASSUME NEW h \in Handler, Prepare(h), UNCHANGED <<page, history>> PROVE AllKept
  BY <1>4, PrepareDoes, IdleIsAJob, <1>one
<1>5. ASSUME NEW h \in Handler, Claim(h), UNCHANGED <<page, history>> PROVE AllKept
  BY <1>5, ClaimDoes, IdleIsAJob, <1>one
<1>6. ASSUME NEW h \in Handler, Finish(h), UNCHANGED <<page, history>> PROVE AllKept
  BY <1>6, FinishDoes, IdleIsAJob, <1>one
<1>7. ASSUME Crash, UNCHANGED <<page, history>> PROVE AllKept
  BY <1>7, CrashDoes, IdleIsAJob DEF AllKept, Keeps
<1>8. ASSUME NEW u \in RequestId, LeaseExpires(u), UNCHANGED <<page, history>> PROVE AllKept
  BY <1>8, <1>keep DEF LeaseExpires, world, page, history, previews, lists
<1>9. ASSUME Change, UNCHANGED <<page, history>> PROVE AllKept
  BY <1>9, <1>keep DEF Change, server, world, page, history, previews, lists
<1>10. ASSUME NEW d \in Draft \cup {Nothing}, Edit(d) PROVE AllKept
  BY <1>10, <1>keep DEF Edit, page, history, previews, lists, server, world, intents
<1>11. ASSUME RetryPreview PROVE AllKept
  BY <1>11, <1>keep DEF RetryPreview, page, history, previews, lists, server, world, intents
<1>12. ASSUME AnswerPreview PROVE AllKept
  BY <1>12, <1>keep DEF AnswerPreview, page, history, previews, lists, server, world, intents
<1>13. ASSUME ReceivePreview PROVE AllKept
  BY <1>13, <1>keep DEF ReceivePreview, page, history, previews, lists, server, world, intents
<1>14. ASSUME Poll PROVE AllKept
  BY <1>14, <1>keep DEF Poll, LoadRuns, page, history, previews, lists, server, world, intents
<1>15. ASSUME Refresh PROVE AllKept
  BY <1>15, <1>keep DEF Refresh, LoadRuns, page, history, previews, lists, server, world, intents
<1>16. ASSUME AnswerList PROVE AllKept
  BY <1>16, <1>keep DEF AnswerList, page, history, previews, lists, server, world, intents
<1>17. ASSUME ReceiveList PROVE AllKept
  BY <1>17, <1>keep DEF ReceiveList, page, history, previews, lists, server, world, intents
<1>18. ASSUME ListFails PROVE AllKept
  BY <1>18, <1>keep DEF ListFails, page, history, previews, lists, server, world, intents
<1>19. ASSUME NEW h \in Handler, Generate(h) PROVE AllKept
  BY <1>19 DEF AllKept
<1>20. ASSUME NEW h \in Handler, Succeed(h) PROVE AllKept
  BY <1>20, IdleIsAJob, <1>one DEF Succeed, Become
<1>21. ASSUME NEW h \in Handler, Fail(h) PROVE AllKept
  BY <1>21, FailDoes, IdleIsAJob, <1>one DEF Same
<1>22. ASSUME NEW h \in Handler, NEW u \in RequestId, NEW op \in {"resume", "undo"}, MutateRun(h, u, op)
       PROVE  AllKept
  <2>1. Accept(h, op, u, Nothing)
    BY <1>22 DEF MutateRun
  <2>2. PICK n \in Job : job' = [job EXCEPT ![h] = n] /\ n.op = op
    BY <2>1, AcceptDoes
  <2> QED BY <2>2, <1>one
<1>23. ASSUME Mount PROVE AllKept
  BY <1>23, <1>keep DEF Mount, page, history, previews, lists, server, world, intents
<1>24. ASSUME Unmount PROVE AllKept
  BY <1>24, UnmountDoes, IdleIsAJob, <1>one, <1>keep DEF Same
<1> QED BY <1>1, <1>2, <1>3, <1>4, <1>5, <1>6, <1>7, <1>8, <1>9, <1>10, <1>11, <1>12, <1>13,
           <1>14, <1>15, <1>16, <1>17, <1>18, <1>19, <1>20, <1>21, <1>22, <1>23, <1>24
     DEF Next, ServerNext, Work, Typing, Previewing, Listing, Acting

LEMMA PromisesAreKept ==
  [Next]_vars => \/ promised' = promised /\ saved' \in {saved, Nothing} /\ drawn' = drawn
                 \/ \E h \in Handler : Generate(h)
<1> DEFINE AllKept == \/ promised' = promised /\ saved' \in {saved, Nothing} /\ drawn' = drawn
                      \/ \E h \in Handler : Generate(h)
<1> SUFFICES ASSUME [Next]_vars PROVE AllKept
  OBVIOUS
<1>1. CASE UNCHANGED vars
  BY <1>1 DEF vars, server, world, page, history, previews, lists
<1>2. ASSUME NEW h \in Handler, LookUp(h), UNCHANGED <<page, history>> PROVE AllKept
  BY <1>2 DEF LookUp, world, page, history, previews, lists
<1>3. ASSUME NEW h \in Handler, Fails(h), UNCHANGED <<page, history>> PROVE AllKept
  BY <1>3 DEF Fails, world, page, history, previews, lists
<1>4. ASSUME NEW h \in Handler, Prepare(h), UNCHANGED <<page, history>> PROVE AllKept
  BY <1>4 DEF Prepare, world, page, history, previews, lists
<1>5. ASSUME NEW h \in Handler, Claim(h), UNCHANGED <<page, history>> PROVE AllKept
  BY <1>5 DEF Claim, world, page, history, previews, lists
<1>6. ASSUME NEW h \in Handler, Finish(h), UNCHANGED <<page, history>> PROVE AllKept
  BY <1>6 DEF Finish, world, page, history, previews, lists
<1>7. ASSUME Crash, UNCHANGED <<page, history>> PROVE AllKept
  BY <1>7 DEF Crash, world, page, history, previews, lists
<1>8. ASSUME NEW u \in RequestId, LeaseExpires(u), UNCHANGED <<page, history>> PROVE AllKept
  BY <1>8 DEF LeaseExpires, world, page, history, previews, lists
<1>9. ASSUME Change, UNCHANGED <<page, history>> PROVE AllKept
  BY <1>9 DEF Change, server, world, page, history, previews, lists
<1>10. ASSUME NEW d \in Draft \cup {Nothing}, Edit(d) PROVE AllKept
  BY <1>10 DEF Edit, page, history, previews, lists, server, world, intents
<1>11. ASSUME RetryPreview PROVE AllKept
  BY <1>11 DEF RetryPreview, page, history, previews, lists, server, world, intents
<1>12. ASSUME AnswerPreview PROVE AllKept
  BY <1>12 DEF AnswerPreview, page, history, previews, lists, server, world, intents
<1>13. ASSUME ReceivePreview PROVE AllKept
  BY <1>13 DEF ReceivePreview, page, history, previews, lists, server, world, intents
<1>14. ASSUME Poll PROVE AllKept
  BY <1>14 DEF Poll, LoadRuns, page, history, previews, lists, server, world, intents
<1>15. ASSUME Refresh PROVE AllKept
  BY <1>15 DEF Refresh, LoadRuns, page, history, previews, lists, server, world, intents
<1>16. ASSUME AnswerList PROVE AllKept
  BY <1>16 DEF AnswerList, page, history, previews, lists, server, world, intents
<1>17. ASSUME ReceiveList PROVE AllKept
  BY <1>17 DEF ReceiveList, page, history, previews, lists, server, world, intents
<1>18. ASSUME ListFails PROVE AllKept
  BY <1>18 DEF ListFails, page, history, previews, lists, server, world, intents
<1>19. ASSUME NEW h \in Handler, Generate(h) PROVE AllKept
  BY <1>19 DEF AllKept
<1>20. ASSUME NEW h \in Handler, Succeed(h) PROVE AllKept
  BY <1>20 DEF Succeed, page, history, previews, lists, server, world, intents
<1>21. ASSUME NEW h \in Handler, Fail(h) PROVE AllKept
  BY <1>21 DEF Fail, page, history, previews, lists, server, world, intents
<1>22. ASSUME NEW h \in Handler, NEW u \in RequestId, NEW op \in {"resume", "undo"}, MutateRun(h, u, op)
       PROVE  AllKept
  BY <1>22 DEF MutateRun, page, history, previews, lists, server, world, intents
<1>23. ASSUME Mount PROVE AllKept
  BY <1>23 DEF Mount, page, history, previews, lists, server, world, intents
<1>24. ASSUME Unmount PROVE AllKept
  BY <1>24 DEF Unmount, page, history, previews, lists, server, world, intents
<1> QED BY <1>1, <1>2, <1>3, <1>4, <1>5, <1>6, <1>7, <1>8, <1>9, <1>10, <1>11, <1>12, <1>13,
           <1>14, <1>15, <1>16, <1>17, <1>18, <1>19, <1>20, <1>21, <1>22, <1>23, <1>24
     DEF Next, ServerNext, Work, Typing, Previewing, Listing, Acting

LEMMA DraftedStays == IInv /\ [Next]_vars => Drafted'
<1> SUFFICES ASSUME IInv, [Next]_vars PROVE Drafted'
  OBVIOUS
<1>runs. ASSUME NEW u \in RequestId, NEW d \in Draft, Concerns(u, d), runs'[u] # Nothing
         PROVE  runs'[u].rows = RowsOn(runs'[u].stamp[1], d, runs'[u].stamp[2])
  <2>1. CASE Exists(u)
    <3>1. Goes(u, runs'[u])
      BY <2>1, RunsGoOn
    <3> QED BY <1>runs, <2>1, <3>1 DEF Concerns, Goes
  <2>2. CASE ~Exists(u)
    <3>1. Made(u)
      BY <1>runs, <2>2, RunsAreMade
    <3>2. PICK h \in Handler :
            /\ job[h].op = "generate" /\ job[h].id = u
            /\ job[h].draft \in Draft /\ job[h].bytes \in Pictures /\ job[h].tree \in Trees
            /\ runs' = [runs EXCEPT ![u] = NewRun(job[h])]
      BY <3>1 DEF Made
    <3>3. job[h] \in Job /\ runs'[u] = NewRun(job[h])
      BY <3>2 DEF IInv, Typed, JobsType, RunsType
    <3>4. /\ NewRun(job[h]).rows = RowsOn(job[h].tree, job[h].draft, job[h].bytes)
          /\ NewRun(job[h]).stamp = <<job[h].tree, job[h].bytes>>
      BY <3>2, <3>3, NewRuns
    <3>5. job[h].draft = d
      BY <1>runs, <3>2 DEF Concerns
    <3> QED BY <3>3, <3>4, <3>5
  <2> QED BY <2>1, <2>2
<1>was. \A u \in RequestId : u <= drawn => \E d \in Draft : Concerns(u, d)
  BY DEF IInv, Drafted
<1>types. drawn \in Nat /\ \A u \in RequestId : u \in Nat
  BY Constants DEF IInv, Typed, ActionType
<1> DEFINE Then(u, d) ==
      /\ promised'[u] # Nothing =>
           promised'[u].rows = RowsOn(promised'[u].stamp[1], d, promised'[u].stamp[2])
      /\ runs'[u] # Nothing => runs'[u].rows = RowsOn(runs'[u].stamp[1], d, runs'[u].stamp[2])
      /\ \A h \in Handler : job'[h].op = "generate" /\ job'[h].id = u => job'[h].draft = d
      /\ saved' # Nothing /\ saved'.id = u => saved'.draft = d
<1> SUFFICES ASSUME NEW u \in RequestId, u <= drawn' PROVE \E d \in Draft : Then(u, d)
  BY DEF Drafted, Concerns, Exists
<1>1. CASE ~\E h \in Handler : Generate(h)
  <2>1. promised' = promised /\ saved' \in {saved, Nothing} /\ drawn' = drawn /\ \A h \in Handler : Keeps(h)
    BY <1>1, PromisesAreKept, RequestsAreKept
  <2>2. PICK d \in Draft : Concerns(u, d)
    BY <2>1, <1>was
  <2>3. \A h \in Handler : job'[h].op = "generate" /\ job'[h].id = u => job'[h].draft = d
    BY <2>1, <2>2 DEF Keeps, Concerns
  <2>4. Then(u, d)
    BY <2>1, <2>2, <2>3, <1>runs DEF Concerns
  <2> QED BY <2>4
<1>2. CASE \E h \in Handler : Generate(h)
  <2>1. PICK g \in Handler : Generate(g)
    BY <1>2
  <2> DEFINE v == RecoveredId
  <2>2. /\ saved' = [draft |-> draft, id |-> v] /\ v \in RequestId /\ draft \in Draft
        /\ drawn' = (IF Reusable THEN drawn ELSE drawn + 1) /\ runs' = runs
        /\ promised' = [promised EXCEPT ![v] = [rows |-> preview.rows, stamp |-> preview.stamp]]
        /\ Accept(g, "generate", v, draft) /\ Rows # <<>>
    BY <2>1 DEF Generate, IInv, Typed, PreviewType
  <2>3. PICK n \in Job : job' = [job EXCEPT ![g] = n] /\ n.op = "generate" /\ n.id = v /\ n.draft = draft
    BY <2>2, AcceptDoes
  <2>4. /\ job'[g] = n /\ \A h \in Handler \ {g} : job'[h] = job[h]
        /\ \A w \in RequestId \ {v} : promised'[w] = promised[w]
        /\ promised'[v].rows = preview.rows /\ promised'[v].stamp = preview.stamp
    BY <2>2, <2>3 DEF IInv, Typed, JobsType, WishType
  <2>5. preview.rows = RowsOn(preview.stamp[1], draft, preview.stamp[2])
    BY <2>2 DEF Rows, IInv, Previewed, FromDraft
  <2>6. CASE u # v
    <3>1. u <= drawn
      BY <2>2, <2>6, <1>types DEF RecoveredId
    <3>2. PICK d \in Draft : Concerns(u, d)
      BY <3>1, <1>was
    <3>3. \A h \in Handler : job'[h].op = "generate" /\ job'[h].id = u => job'[h].draft = d
      BY <2>3, <2>4, <2>6, <3>2 DEF Concerns
    <3>4. promised'[u] = promised[u] /\ saved'.id # u
      BY <2>2, <2>4, <2>6
    <3>5. Then(u, d)
      BY <3>2, <3>3, <3>4, <1>runs DEF Concerns
    <3> QED BY <3>5
  <2>7. CASE u = v /\ Reusable
    <3>1. saved # Nothing /\ saved.id = u /\ saved.draft = draft
      BY <2>7 DEF Reusable, RecoveredId
    <3>2. u <= drawn
      BY <2>2, <2>7
    <3>3. PICK d \in Draft : Concerns(u, d)
      BY <3>2, <1>was
    <3>4. d = draft
      BY <3>1, <3>3 DEF Concerns
    <3>5. \A h \in Handler : job'[h].op = "generate" /\ job'[h].id = u => job'[h].draft = draft
      BY <2>3, <2>4, <3>3, <3>4 DEF Concerns
    <3>6. runs'[u] # Nothing => runs'[u].rows = RowsOn(runs'[u].stamp[1], draft, runs'[u].stamp[2])
      BY <3>3, <3>4, <1>runs
    <3>7. Then(u, draft)
      BY <2>2, <2>4, <2>5, <2>7, <3>5, <3>6
    <3> QED BY <2>2, <3>7
  <2>8. CASE u = v /\ ~Reusable
    <3>1. u = drawn + 1
      BY <2>8 DEF RecoveredId
    <3>2. runs[u] = Nothing
      BY <3>1, <1>types DEF IInv, Wishes, Exists
    <3>3. \A h \in Handler : job[h].op = "generate" => job[h].id # u
      BY <3>1, <1>types DEF IInv, Jobs, JobOK
    <3>4. \A h \in Handler : job'[h].op = "generate" /\ job'[h].id = u => job'[h].draft = draft
      BY <2>3, <2>4, <3>3
    <3>5. Then(u, draft)
      BY <2>2, <2>4, <2>5, <2>8, <3>2, <3>4
    <3> QED BY <2>2, <3>5
  <2> QED BY <2>6, <2>7, <2>8
<1> QED BY <1>1, <1>2

-----------------------------------------------------------------------------
(* The theorems *)

LEMMA HoldsInitially == Init => IInv
<1> SUFFICES ASSUME Init PROVE IInv
  OBVIOUS
<1> USE Constants DEF Init, InitServer
<1>1. RunsType /\ WorldType
  BY DEF RunsType, WorldType
<1>2. JobsType
  BY IdleIsAJob DEF JobsType
<1>3. PreviewType /\ ListType /\ ActionType
  BY DEF PreviewType, ListType, ActionType, NothingShown, Lists
<1>4. WishType
  BY DEF WishType, NothingShown
<1>5. Jobs
  BY IdleIsAJob DEF Jobs, JobOK, AnswerOK
<1>6. Told /\ Previewed
  BY DEF Told, Known, NothingShown, Live, Previewed
<1>7. Unclosed
  <2>1. {u \in OpenRuns : ~runs[u].closed} = {}
    BY DEF OpenRuns, Exists
  <2>2. Cardinality({}) <= MaxOpenRuns
    BY FS_EmptySet
  <2> QED BY <2>1, <2>2 DEF Unclosed, UnfinishedRunsLimited, Exists
<1>8. Wishes
  BY DEF Wishes, Exists
<1>9. Drafted
  BY DEF Drafted
<1> QED BY <1>1, <1>2, <1>3, <1>4, <1>5, <1>6, <1>7, <1>8, <1>9 DEF IInv, Typed

LEMMA Invariance == Spec => []IInv
<1>1. IInv /\ [Next]_vars => IInv'
  BY RunsTypeStays, JobsTypeStays, WorldTypeStays, PreviewTypeStays, ListTypeStays, ActionTypeStays,
     WishTypeStays, JobsStay, ToldStays, UnclosedStays, WishesStay, PreviewedStays, DraftedStays
     DEF IInv, Typed
<1> QED BY <1>1, HoldsInitially, PTL DEF Spec

\* Whoever asks for a generation is told of a run made from the same bytes and
\* settings, whichever requests share an id, overlap, crash or are repeated.
THEOREM AnswersMatchRequests == Spec => []AnsweredAsAsked
<1>1. IInv => AnsweredAsAsked
  BY DEF IInv, Jobs, AnswerOK, AnsweredAsAsked, At
<1> QED BY <1>1, Invariance, PTL

\* The runs that never ended are never more than the limit.
THEOREM OpenRunsAreLimited == Spec => []UnfinishedRunsLimited
<1>1. IInv => UnfinishedRunsLimited
  BY DEF IInv, Unclosed
<1> QED BY <1>1, Invariance, PTL

\* Repeating a generation after whatever went wrong makes no second run of the
\* same wish, for any number of handlers, drafts and requests.
THEOREM GenerateIsIdempotent == Spec => []OneRunPerWish
<1>1. IInv => OneRunPerWish
  BY DEF IInv, Wishes, OneRunPerWish
<1> QED BY <1>1, Invariance, PTL

\* A run has the rows that were on the screen, unless the channels or the picture
\* changed: whatever the slices of a draft are, they are those of the preview.
THEOREM RunsAreAsPreviewed == Spec => []CreatedAsPreviewed
<1>1. ASSUME IInv PROVE CreatedAsPreviewed
  <2> SUFFICES ASSUME NEW u \in RequestId, Exists(u), promised[u] # Nothing, runs[u].stamp = promised[u].stamp
               PROVE  runs[u].rows = promised[u].rows
    BY DEF CreatedAsPreviewed
  <2>1. PICK d \in Draft : Concerns(u, d)
    BY <1>1 DEF IInv, Wishes, Drafted
  <2> QED BY <2>1 DEF Concerns
<1> QED BY <1>1, Invariance, PTL

\* A list never replaces what is shown of a run by something older.
THEOREM ShownListsNeverGoBack == Spec => ListsNeverGoBack
<1> DEFINE A ==
      waiting = waiting' =>
        \A u \in RequestId : shown[u] # Nothing /\ shown'[u] # Nothing
                              => shown'[u].version >= shown[u].version
<1>1. IInv /\ [Next]_vars => [A]_vars
  <2> SUFFICES ASSUME Typed, Told, [Next]_vars, waiting' = waiting PROVE A
    BY DEF IInv
  <2>0. ASSUME shown' = shown PROVE A
    <3>1. \A u \in RequestId : shown[u] # Nothing => shown[u].version \in Nat
      BY DEF Typed, ListType, Lists, Answer
    <3> QED BY <2>0, <3>1
  <2> HIDE DEF A
  <2>1. CASE UNCHANGED vars
    BY <2>0, <2>1 DEF vars, page, lists
  <2>2. ASSUME NEW h \in Handler, LookUp(h), UNCHANGED <<page, history>> PROVE A
    BY <2>2, <2>0 DEF LookUp, world, page, history, previews, lists
  <2>3. ASSUME NEW h \in Handler, Fails(h), UNCHANGED <<page, history>> PROVE A
    BY <2>3, <2>0 DEF Fails, world, page, history, previews, lists
  <2>4. ASSUME NEW h \in Handler, Prepare(h), UNCHANGED <<page, history>> PROVE A
    BY <2>4, <2>0 DEF Prepare, world, page, history, previews, lists
  <2>5. ASSUME NEW h \in Handler, Claim(h), UNCHANGED <<page, history>> PROVE A
    BY <2>5, <2>0 DEF Claim, world, page, history, previews, lists
  <2>6. ASSUME NEW h \in Handler, Finish(h), UNCHANGED <<page, history>> PROVE A
    BY <2>6, <2>0 DEF Finish, world, page, history, previews, lists
  <2>7. ASSUME Crash, UNCHANGED <<page, history>> PROVE A
    BY <2>7, <2>0 DEF Crash, world, page, history, previews, lists
  <2>8. ASSUME NEW u \in RequestId, LeaseExpires(u), UNCHANGED <<page, history>> PROVE A
    BY <2>8, <2>0 DEF LeaseExpires, world, page, history, previews, lists
  <2>9. ASSUME Change, UNCHANGED <<page, history>> PROVE A
    BY <2>9, <2>0 DEF Change, server, world, page, history, previews, lists
  <2>10. ASSUME NEW d \in Draft \cup {Nothing}, Edit(d) PROVE A
    BY <2>10, <2>0 DEF Edit, page, history, previews, lists, server, world, intents
  <2>11. ASSUME RetryPreview PROVE A
    BY <2>11, <2>0 DEF RetryPreview, page, history, previews, lists, server, world, intents
  <2>12. ASSUME AnswerPreview PROVE A
    BY <2>12, <2>0 DEF AnswerPreview, page, history, previews, lists, server, world, intents
  <2>13. ASSUME ReceivePreview PROVE A
    BY <2>13, <2>0 DEF ReceivePreview, page, history, previews, lists, server, world, intents
  <2>14. ASSUME Poll PROVE A
    BY <2>14, <2>0 DEF Poll, LoadRuns, page, history, previews, lists, server, world, intents
  <2>15. ASSUME Refresh PROVE A
    BY <2>15, <2>0 DEF Refresh, LoadRuns, page, history, previews, lists, server, world, intents
  <2>16. ASSUME AnswerList PROVE A
    BY <2>16, <2>0 DEF AnswerList, page, history, previews, lists, server, world, intents
  <2>17. ASSUME ReceiveList PROVE A
    <3>1. CASE shown' = shown
      BY <3>1, <2>0
    <3>2. CASE Live(listBody) /\ shown' = listBody.list
      BY <3>2 DEF A, Told
    <3> QED BY <2>17, <3>1, <3>2 DEF ReceiveList, TakeList, Live
  <2>18. ASSUME ListFails PROVE A
    BY <2>18, <2>0 DEF ListFails, page, history, previews, lists, server, world, intents
  <2>19. ASSUME NEW h \in Handler, Generate(h) PROVE A
    BY <2>19, <2>0 DEF Generate, page, history, previews, lists, server, world, intents
  <2>20. ASSUME NEW h \in Handler, Succeed(h) PROVE A
    BY <2>20, Constants DEF Succeed
  <2>21. ASSUME NEW h \in Handler, Fail(h) PROVE A
    BY <2>21, <2>0 DEF Fail, page, history, previews, lists, server, world, intents
  <2>22. ASSUME NEW h \in Handler, NEW u \in RequestId, NEW op \in {"resume", "undo"}, MutateRun(h, u, op)
         PROVE  A
    BY <2>22, <2>0 DEF MutateRun, page, history, previews, lists, server, world, intents
  <2>23. ASSUME Mount PROVE A
    BY <2>23, <2>0 DEF Mount, page, history, previews, lists, server, world, intents
  <2>24. ASSUME Unmount PROVE A
    BY <2>24 DEF Unmount, NothingShown, A
  <2> QED BY <2>1, <2>2, <2>3, <2>4, <2>5, <2>6, <2>7, <2>8, <2>9, <2>10, <2>11, <2>12,
             <2>13, <2>14, <2>15, <2>16, <2>17, <2>18, <2>19, <2>20, <2>21, <2>22, <2>23,
             <2>24
       DEF Next, ServerNext, Work, Typing, Previewing, Listing, Acting
<1> QED BY <1>1, Invariance, PTL DEF Spec, ListsNeverGoBack

-----------------------------------------------------------------------------
(* Where the slices lie: what MCWallpaper evaluates on small sizes *)

LEMMA Sizes == TargetWidth \in Nat \ {0} /\ TargetHeight \in Nat \ {0} /\ MaxRows \in Nat
               /\ MaxOutputPixels \in Nat /\ MaxOffset \in Nat
BY PlanAssumption

\* sharp is never asked for pixels outside the picture, nor to composite beyond
\* the row: extract() and composite() in renderWallpaper throw for either.
THEOREM PiecesLieInside ==
  ASSUME NEW x \in Int, NEW y \in Int, NEW width \in Nat, NEW height \in Nat,
         Drawn(Piece([x |-> x, y |-> y], width, height))
  PROVE  LET q == Piece([x |-> x, y |-> y], width, height)
         IN  /\ 0 <= q.left /\ q.left + q.width <= width
             /\ 0 <= q.top /\ q.top + q.height <= height
             /\ 0 <= q.atX /\ q.atX + q.width <= TargetWidth
             /\ 0 <= q.atY /\ q.atY + q.height <= TargetHeight
BY Sizes DEF Piece, Drawn, Greater, Lesser

\* A pixel of the row is drawn exactly when the window shows a pixel of the
\* picture there, and it is that pixel: neighbouring rows join without a seam.
THEOREM PiecesShowThePicture ==
  ASSUME NEW x \in Int, NEW y \in Int, NEW width \in Nat, NEW height \in Nat,
         NEW u \in 0 .. TargetWidth - 1, NEW v \in 0 .. TargetHeight - 1
  PROVE  LET q == Piece([x |-> x, y |-> y], width, height)
             covers == /\ Drawn(q) /\ q.atX <= u /\ u < q.atX + q.width
                       /\ q.atY <= v /\ v < q.atY + q.height
         IN  /\ covers <=> 0 <= x + u /\ x + u < width /\ 0 <= y + v /\ y + v < height
             /\ q.left + (u - q.atX) = x + u /\ q.top + (v - q.atY) = y + v
BY Sizes DEF Piece, Drawn, Greater, Lesser

\* The rows that are rendered are the first ones, and each fits whole.
THEOREM RowsAreAPrefix ==
  ASSUME NEW count \in Nat, NEW height \in Nat, NEW i \in Rendered(count, height), NEW k \in 1 .. i
  PROVE  k \in Rendered(count, height) /\ k * TargetHeight <= height
<1>1. i \in 1 .. count /\ i * TargetHeight <= height
  BY DEF Rendered
<1>2. k \in 1 .. count /\ k \in Nat /\ i \in Nat /\ k <= i
  BY <1>1
<1>3. k * TargetHeight <= i * TargetHeight
  BY <1>2, Sizes
<1>4. k * TargetHeight \in Nat /\ i * TargetHeight \in Nat
  BY <1>2, Sizes
<1> QED BY <1>1, <1>2, <1>3, <1>4 DEF Rendered

\* What is cut to the rows never has more pixels than what the limit let pass.
THEOREM KeptWithinTheLimit ==
  ASSUME NEW width \in Nat, NEW height \in Nat, NEW count \in Nat, NEW yOffset \in Int,
         ~OutputRefused(width, height)
  PROVE  /\ 1 <= KeptHeight(height, count, yOffset) /\ KeptHeight(height, count, yOffset) <= height
         /\ width * KeptHeight(height, count, yOffset) <= MaxOutputPixels
<1> DEFINE kept == KeptHeight(height, count, yOffset)
<1>1. height >= 1 /\ width * height <= MaxOutputPixels
  BY Sizes DEF OutputRefused
<1>2. count * TargetHeight \in Nat
  BY Sizes
<1>3. kept \in Nat /\ 1 <= kept /\ kept <= height
  BY <1>1, <1>2 DEF KeptHeight, Lesser, Greater
<1> HIDE DEF kept
<1>4. width * kept <= width * height
  BY <1>3
<1>5. width * kept \in Nat /\ width * height \in Nat
  BY <1>3
<1>6. width * kept <= MaxOutputPixels
  BY <1>1, <1>4, <1>5, Sizes
<1> QED BY <1>3, <1>6 DEF kept

\* A nested row lies right below a row that is not nested: its parent.
THEOREM NestedRowsHaveTheirParent ==
  ASSUME NEW mode \in Mode, NEW i \in 1 .. MaxRows, RowPlan(mode)[i].depth # 0
  PROVE  /\ RowPlan(mode)[i].depth = 1
         /\ i - 1 \in 1 .. MaxRows /\ RowPlan(mode)[i - 1].depth = 0
<1>1. i % 2 = 0 /\ RowPlan(mode)[i].depth = 1
  BY DEF RowPlan
<1>2. i - 1 \in 1 .. MaxRows /\ (i - 1) % 2 = 1
  BY <1>1, Sizes
<1>3. RowPlan(mode)[i - 1].depth = 0
  BY <1>2 DEF RowPlan
<1> QED BY <1>1, <1>2, <1>3

\* The form lets nothing pass that the server's validation refuses.
THEOREM FormIsNoLaxer == \A o : DtoRefuses(o) => FormRefuses(o)
BY DEF DtoRefuses, FormRefuses

=============================================================================
