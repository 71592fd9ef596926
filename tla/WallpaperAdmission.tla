-------------------------- MODULE WallpaperAdmission --------------------------
(***************************************************************************)
(* The server's side of wallpaper requests: ChannelWallpaperController and *)
(* prepare, existing, result, list and get of ChannelWallpaperService.     *)
(* A handler is one HTTP request at work; it advances one await at a time. *)
(* The life of a run is reduced to its status and its lease: what resume   *)
(* and undo do between their claim and their end, and the awaits on either *)
(* side of the claim, are module WallpaperRun.                             *)
(*                                                                         *)
(* A run is known by its requestId, which is unique in the database.       *)
(***************************************************************************)
EXTENDS WallpaperPlan

CONSTANTS
  Handler,      \* 1..n: slots for requests at work
  RequestId,    \* 1..n: UUIDs, in the order in which they are drawn
  Draft,        \* sets of settings with a source: what a form can send
  RemoteSource, \* the sources that are URLs: their bytes may change
  Trees,        \* the channel trees TeamSpeak may show
  Pictures,     \* what a URL may serve
  FirstTree, FirstPictures,
  Root,         \* above the top level
  Nothing,      \* null
  MaxOpenRuns,  \* MAX_OPEN_RUNS, 20
  MaxListed,    \* finished runs in the list, 50
  MaxFaults     \* bound on crashes of the process and changes of the world

VARIABLES
  runs,      \* WallpaperRun, by requestId
  job,       \* what each handler is doing
  tree,      \* TeamSpeak's channels: cid -> parent
  picture,   \* the bytes behind each source
  faults

server == <<runs, job>>
world  == <<tree, picture, faults>>

Fault == faults < MaxFaults /\ faults' = faults + 1

OpenStatus == {"pending", "running", "partial-failure", "undoing", "undo-partial"}
Failure == [id |-> 0, status |-> "failure", version |-> 0]
Idle == [op |-> "none", stage |-> "idle", id |-> 0, draft |-> Nothing, bytes |-> Nothing,
         tree |-> Nothing, heard |-> FALSE, answer |-> Failure]

InitServer ==
  /\ runs = [u \in RequestId |-> Nothing]
  /\ job = [h \in Handler |-> Idle]
  /\ tree = FirstTree
  /\ picture = FirstPictures
  /\ faults = 0

Exists(u) == runs[u] # Nothing
OpenRuns == {u \in RequestId : Exists(u) /\ runs[u].status \in OpenStatus}

-----------------------------------------------------------------------------
(* What requests are answered with *)

\* The process that had the run stopped.
Interrupted(run) == run.lease # "valid" /\ run.status \in {"running", "undoing"}

\* result(): what a client is told of a run.
Result(u) ==
  [id |-> u,
   status |-> IF ~Interrupted(runs[u]) THEN runs[u].status
              ELSE IF runs[u].status = "undoing" THEN "undo-partial" ELSE "partial-failure",
   version |-> runs[u].version]

\* list(): every open run and the latest of the finished ones.
Finished == {u \in RequestId : Exists(u)} \ OpenRuns
Listed == OpenRuns \cup
          {u \in Finished : Cardinality({v \in Finished : runs[v].at > runs[u].at}) < MaxListed}
List == [u \in RequestId |-> IF u \in Listed THEN Result(u) ELSE Nothing]

\* slices(): the rows of a draft on a tree of channels, with the pieces of the picture.
ParentMissing(channels, d) == d.parent # Root /\ d.parent \notin DOMAIN channels
RowsOn(channels, d, bytes) ==
  LET plan  == RowPlan(d.mode)
      cut   == Slices(bytes, AtDepth(plan, DepthOf(d.parent, channels, Root)), d)
  IN  IF ParentMissing(channels, d) \/ ~cut.ok THEN <<>>
      ELSE [i \in DOMAIN cut.rows |-> [row |-> plan[i], name |-> NameOf(plan, i), piece |-> cut.rows[i]]]
RowsOf(d, bytes) == RowsOn(tree, d, bytes)

\* wallpaperRequestHash: of the bytes and the settings.
Settings(d) == [d EXCEPT !.source = Nothing]
RequestHash(j) == <<j.bytes, Settings(j.draft)>>

\* The records of the database.
Run ==
  [hash : Pictures \X {Settings(d) : d \in Draft},
   rows : {RowsOn(t, d, b) : t \in Trees, d \in Draft, b \in Pictures}, stamp : Trees \X Pictures,
   status : OpenStatus \cup {"completed", "undone"}, lease : {"none", "valid", "expired"},
   version : Nat, closed : BOOLEAN, at : Nat]

Source == {d.source : d \in Draft}

ASSUME AdmissionAssumption ==
  /\ IsFiniteSet(RequestId) /\ RequestId \subseteq Nat \ {0} /\ Handler \subseteq Nat
  /\ MaxOpenRuns \in Nat
  /\ FirstTree \in Trees /\ FirstPictures \in [Source -> Pictures] /\ RemoteSource \subseteq Source
  /\ Nothing \notin Run /\ Nothing \notin Handler

-----------------------------------------------------------------------------
(* Handlers *)

Become(h, j) == job' = [job EXCEPT ![h] = j]
Move(h, stage) == Become(h, [job[h] EXCEPT !.stage = stage])

\* The response: it is kept for a client that still listens.
Respond(j, a) == IF j.heard THEN [j EXCEPT !.stage = "answered", !.answer = a] ELSE Idle
Reply(h, a) == Become(h, Respond(job[h], a))

At(h, op, stage) == job[h].op \in op /\ job[h].stage = stage

\* A request arrives at a handler (the client's actions call this).
Accept(h, op, id, draft) ==
  Become(h, [Idle EXCEPT !.op = op, !.id = id, !.draft = draft, !.heard = TRUE,
                         !.stage = IF op = "generate" THEN "received" ELSE "claim"])

\* mutant: an existing run is returned whatever was asked for.
ExistingUnchecked(u, hash) == Result(u)
\* existing(): the run of this id, unless it was made from something else.
Existing(u, hash) == IF runs[u].hash = hash THEN Result(u) ELSE Failure

\* generate: the source is read (a URL is fetched now), an earlier run looked up,
\* and without one the picture is sliced.
LookUp(h) ==
  /\ At(h, {"generate"}, "received")
  /\ LET j == [job[h] EXCEPT !.bytes = picture[job[h].draft.source]]
     IN  Become(h, CASE Exists(j.id) -> Respond(j, Existing(j.id, RequestHash(j)))
                     [] ~Exists(j.id) /\ RowsOf(j.draft, j.bytes) = <<>> -> Respond(j, Failure)
                     [] OTHER -> [j EXCEPT !.stage = "prepare", !.tree = tree])
  /\ UNCHANGED <<runs, world>>

\* The source cannot be fetched, TeamSpeak is unreachable, the gate is full,
\* the prepared rows are too large, a query fails.
Fails(h) ==
  /\ job[h].stage \in {"received", "prepare", "claim"}
  /\ Reply(h, Failure)
  /\ UNCHANGED <<runs, world>>

\* mutant: off by one.
LimitReachedLate == Cardinality(OpenRuns) > MaxOpenRuns
LimitReached == Cardinality(OpenRuns) >= MaxOpenRuns

\* The rows are sliced from the tree as it was when the request was looked up.
NewRun(j) ==
  [hash |-> RequestHash(j), rows |-> RowsOn(j.tree, j.draft, j.bytes), stamp |-> <<j.tree, j.bytes>>,
   status |-> "pending", lease |-> "none", version |-> 1, closed |-> FALSE,
   at |-> Cardinality({u \in RequestId : Exists(u)})]

\* prepare(): the limit, then the insertion; a duplicate key (P2002) means that
\* another request with this id was faster, and its run is taken instead.
Prepare(h) ==
  /\ At(h, {"generate"}, "prepare")
  /\ LET j == job[h]
     IN  CASE LimitReached -> Reply(h, Failure) /\ UNCHANGED runs
           [] ~LimitReached /\ Exists(j.id) ->
                /\ IF Existing(j.id, RequestHash(j)) = Failure THEN Reply(h, Failure) ELSE Move(h, "claim")
                /\ UNCHANGED runs
           [] ~LimitReached /\ ~Exists(j.id) ->
                runs' = [runs EXCEPT ![j.id] = NewRun(j)] /\ Move(h, "claim")
  /\ UNCHANGED world

\* What resume() and undo() aim at.
Done(op) == IF op = "undo" THEN "undone" ELSE "completed"

\* What they answer at once, without a claim.
Settled(h) ==
  IF job[h].op = "undo" THEN Result(job[h].id).status = "undone"
  ELSE Result(job[h].id).status \in {"completed", "undone", "undo-partial", "undoing"}

\* They look at the run and claim it; a run that somebody has is refused.
Claim(h) ==
  /\ At(h, {"generate", "resume", "undo"}, "claim")
  /\ LET u == job[h].id
     IN  CASE Settled(h) ->
                /\ Reply(h, IF Result(u).status = Done(job[h].op) THEN Result(u) ELSE Failure)
                /\ UNCHANGED runs
           [] ~Settled(h) /\ runs[u].lease = "valid" -> Reply(h, Failure) /\ UNCHANGED runs
           [] ~Settled(h) /\ runs[u].lease # "valid" ->
                /\ runs' = [runs EXCEPT ![u].lease = "valid", ![u].version = @ + 1,
                                        ![u].status = IF job[h].op = "undo" THEN "undoing" ELSE "running"]
                /\ Move(h, "work")
  /\ UNCHANGED world

\* They have done what they could: the final status is written and read, the
\* lease given back and the client answered.
Finish(h) ==
  /\ At(h, {"generate", "resume", "undo"}, "work")
  /\ \E st \in IF job[h].op = "undo" THEN {"undone", "undo-partial"} ELSE {"completed", "partial-failure"} :
       LET u == job[h].id
       IN  /\ runs' = [runs EXCEPT ![u].status = st, ![u].version = @ + 1, ![u].lease = "none",
                                   ![u].closed = @ \/ st \notin OpenStatus]
           /\ Reply(h, [id |-> u, status |-> st, version |-> runs[u].version + 1])
  /\ UNCHANGED world

\* The process dies: the runs stay as they are, clients see their connection end.
Crash ==
  /\ Fault
  /\ \E h \in Handler : job[h].stage \notin {"idle", "answered"}
  /\ job' = [h \in Handler |-> Respond(job[h], Failure)]
  /\ UNCHANGED <<runs, tree, picture>>

\* leaseUntil passes, nobody being left to renew it.
LeaseExpires(u) ==
  /\ Exists(u) /\ runs[u].lease = "valid"
  /\ ~\E h \in Handler : job[h].id = u /\ job[h].stage = "work"
  /\ runs' = [runs EXCEPT ![u].lease = "expired"]
  /\ UNCHANGED <<job, world>>

-----------------------------------------------------------------------------
(* The world: administrators change the channels, URLs serve other pictures *)

Change ==
  /\ Fault
  /\ \/ tree' \in Trees \ {tree} /\ UNCHANGED picture
     \/ \E s \in RemoteSource : \E p \in Pictures \ {picture[s]} :
          picture' = [picture EXCEPT ![s] = p] /\ UNCHANGED tree
  /\ UNCHANGED server

Work(h) == LookUp(h) \/ Prepare(h) \/ Claim(h) \/ Finish(h)

ServerNext ==
  \/ \E h \in Handler : Work(h) \/ Fails(h)
  \/ Crash
  \/ \E u \in RequestId : LeaseExpires(u)
  \/ Change

-----------------------------------------------------------------------------
(* Properties of the server alone *)

\* Runs that were never finished are limited, however requests overlap.  Undo
\* reopens finished runs, so the number of all open runs is not limited:
\* channel-wallpaper.service.ts counts when a run is prepared only.
UnfinishedRunsLimited ==
  Cardinality({u \in OpenRuns : ~runs[u].closed}) <= MaxOpenRuns

\* Whoever is told of a run after asking for a generation is told of one that
\* was prepared from the same bytes and the same settings.
AnsweredAsAsked ==
  \A h \in Handler :
    At(h, {"generate"}, "answered") /\ job[h].answer # Failure
      => runs[job[h].answer.id].hash = RequestHash(job[h])

=============================================================================
