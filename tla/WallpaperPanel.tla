---------------------------- MODULE WallpaperPanel ----------------------------
(***************************************************************************)
(* The page ChannelWallpaperGenerator.tsx in front of the server of module *)
(* WallpaperAdmission: the settings and their preview, the press of        *)
(* Generate with its request id, the list of recent operations with its    *)
(* polling, resume and undo, leaving and reopening the page.               *)
(*                                                                         *)
(* Fetches overlap.  A fetch that is aborted while it is on its way never  *)
(* arrives; one whose body is just being parsed does, with its signal      *)
(* aborted (live = FALSE), and has to be ignored.                          *)
(***************************************************************************)
EXTENDS WallpaperAdmission

CONSTANT MaxInputs  \* bound on what the user does

\* What sessionStorage keeps.
Saved == [draft : Draft, id : RequestId]

ASSUME PanelAssumption == MaxInputs \in Nat /\ Nothing \notin Saved

VARIABLES
  mounted,
  draft,         \* the settings, Nothing while they have no source or an issue
  preview,       \* the preview with the settings it was made for
  loading,       \* previewLoading
  previewBody,   \* the preview's answer that is being parsed, live until it is aborted
  shown,         \* the list of operations
  listing,       \* a load of the list has no answer yet
  listBody,      \* its answer that is being parsed, live until it is aborted
  waiting,       \* the handler of the action whose answer is awaited
  reloading,     \* the action failed and awaits loadRuns()
  saved,         \* sessionStorage: the draft and the id of an unconfirmed request
  drawn,         \* request ids drawn so far
  \* --- history
  inputs,
  wish,          \* what the user wants and has no confirmation of
  wishOf,        \* the wish a request id was drawn for
  promised       \* the rows on the screen when the id was last sent

previews == <<draft, preview, loading, previewBody>>
lists    == <<shown, listing, listBody>>
page    == <<mounted, previews, lists, waiting, reloading, saved, drawn>>
history == <<inputs, wish, wishOf, promised>>
vars    == <<server, world, page, history>>

NothingShown == [u \in RequestId |-> Nothing]

Init ==
  /\ InitServer
  /\ mounted = FALSE
  /\ draft = Nothing /\ preview = Nothing /\ loading = FALSE /\ previewBody = Nothing
  /\ shown = NothingShown /\ listing = FALSE /\ listBody = Nothing
  /\ waiting = Nothing /\ reloading = FALSE
  /\ saved = Nothing /\ drawn = 0
  /\ inputs = 0
  /\ wish = [draft |-> Nothing, number |-> 0, open |-> FALSE]
  /\ wishOf = [u \in RequestId |-> 0]
  /\ promised = NothingShown

\* locked: one action at a time.
Locked == waiting # Nothing \/ reloading

\* AbortController.abort() on the fetch of one kind: a body that is being parsed
\* is parsed to its end, with its signal aborted.
Aborted(body) == IF body = Nothing THEN Nothing ELSE [body EXCEPT !.live = FALSE]
Live(body) == body # Nothing /\ body.live

Input == inputs < MaxInputs /\ inputs' = inputs + 1
intents == <<wish, wishOf, promised>>

-----------------------------------------------------------------------------
(* Settings and preview *)

\* The preview's effect, whenever one of its inputs changes.
RenewPreview(d) ==
  /\ preview' = Nothing
  /\ loading' = (d # Nothing)
  /\ previewBody' = Aborted(previewBody)

\* A field, the file or the URL changes; all of them are disabled during an action.
Edit(d) ==
  /\ mounted /\ ~Locked /\ Input
  /\ d # draft
  /\ draft' = d
  /\ RenewPreview(d)
  /\ UNCHANGED <<server, world, mounted, lists, waiting, reloading, saved, drawn, intents>>

\* "Try again" and "Refresh preview".
RetryPreview ==
  /\ mounted /\ Input
  /\ draft # Nothing /\ ~loading /\ preview = Nothing
  /\ RenewPreview(draft)
  /\ UNCHANGED <<server, world, mounted, draft, lists, waiting, reloading, saved, drawn, intents>>

\* 500 ms later the request is sent, the server slices the picture as generate
\* would, and its answer arrives; no rows are an error.
AnswerPreview ==
  /\ mounted /\ loading /\ previewBody = Nothing
  /\ LET bytes == picture[draft.source]
     IN  \E rows \in {RowsOf(draft, bytes), <<>>} :
           previewBody' = [draft |-> draft, live |-> TRUE, rows |-> rows, stamp |-> <<tree, bytes>>]
  /\ UNCHANGED <<server, world, mounted, draft, preview, loading, lists, waiting, reloading,
                 saved, drawn, history>>

\* mutant: whatever arrives is the preview of what is on the screen.
TakePreviewLast ==
  /\ loading' = FALSE
  /\ preview' = IF previewBody.rows = <<>> THEN preview ELSE [previewBody EXCEPT !.draft = draft]
TakePreview ==
  IF Live(previewBody)
    THEN /\ loading' = FALSE
         /\ preview' = IF previewBody.rows = <<>> THEN preview ELSE previewBody
    ELSE UNCHANGED <<loading, preview>>

ReceivePreview ==
  /\ previewBody # Nothing
  /\ previewBody' = Nothing
  /\ TakePreview
  /\ UNCHANGED <<server, world, mounted, draft, lists, waiting, reloading, saved, drawn, history>>

-----------------------------------------------------------------------------
(* Recent operations *)

ActiveRuns ==
  \E u \in RequestId : shown[u] # Nothing /\ shown[u].status \in {"pending", "running", "undoing"}

\* loadRuns(): the load before it is aborted, and so is what waited for it.
LoadRuns ==
  /\ listing' = TRUE
  /\ listBody' = Aborted(listBody)
  /\ reloading' = FALSE
  /\ UNCHANGED <<server, world, mounted, previews, shown, waiting, saved, drawn, intents>>

\* Every three seconds while there is something to wait for.
Poll == mounted /\ (ActiveRuns \/ Locked) /\ LoadRuns /\ UNCHANGED inputs
\* "Refresh operations" and "Try again".
Refresh == mounted /\ LoadRuns /\ Input

AnswerList ==
  /\ listing /\ listBody = Nothing
  /\ listing' = FALSE
  /\ listBody' = [live |-> TRUE, list |-> List]
  /\ UNCHANGED <<server, world, mounted, previews, shown, waiting, reloading, saved, drawn, history>>

TakeList ==
  IF listBody.live THEN shown' = listBody.list /\ reloading' = FALSE
                   ELSE UNCHANGED <<shown, reloading>>

ReceiveList ==
  /\ listBody # Nothing
  /\ listBody' = Nothing
  /\ TakeList
  /\ UNCHANGED <<server, world, mounted, previews, listing, waiting, saved, drawn, history>>

ListFails ==
  /\ listing /\ listing' = FALSE
  /\ reloading' = FALSE
  /\ UNCHANGED <<server, world, mounted, previews, shown, listBody, waiting, saved, drawn, history>>

-----------------------------------------------------------------------------
(* Actions *)

\* rows: the preview counts only for the settings it was made for.
Rows == IF preview # Nothing /\ preview.draft = draft THEN preview.rows ELSE <<>>

\* mutant: every press draws an id.
ReusableNever == FALSE
\* recoverRequest(): the id of an unconfirmed request with the same settings.
Reusable == saved # Nothing /\ saved.draft = draft
RecoveredId == IF Reusable THEN saved.id ELSE drawn + 1

\* What the user means: pressing again without an answer is the same wish.
Wished ==
  IF wish.open /\ wish.draft = draft THEN wish
  ELSE [draft |-> draft, number |-> wish.number + 1, open |-> TRUE]

\* The first free slot; requests that nobody waits for any more may keep others busy.
Press(h) ==
  /\ mounted /\ ~Locked
  /\ job[h] = Idle /\ \A g \in Handler : g < h => job[g] # Idle
  /\ Input
  /\ waiting' = h

Generate(h) ==
  /\ Press(h)
  /\ draft # Nothing /\ Rows # <<>> /\ ~loading
  /\ RecoveredId \in RequestId
  /\ saved' = [draft |-> draft, id |-> RecoveredId]
  /\ drawn' = IF Reusable THEN drawn ELSE drawn + 1
  /\ Accept(h, "generate", RecoveredId, draft)
  /\ wish' = Wished
  /\ wishOf' = IF Reusable THEN wishOf ELSE [wishOf EXCEPT ![RecoveredId] = Wished.number]
  /\ promised' = [promised EXCEPT ![RecoveredId] = [rows |-> preview.rows, stamp |-> preview.stamp]]
  /\ UNCHANGED <<runs, world, mounted, previews, lists,
                 reloading>>

\* The buttons of a run; undo has been confirmed.
Offered(u, op) ==
  /\ shown[u] # Nothing
  /\ IF op = "resume" THEN shown[u].status \in {"pending", "partial-failure"}
                      ELSE shown[u].status \notin {"running", "undoing", "undone"}

MutateRun(h, u, op) ==
  /\ Press(h)
  /\ Offered(u, op)
  /\ Accept(h, op, u, Nothing)
  /\ UNCHANGED <<runs, world, mounted, previews, lists,
                 reloading, saved, drawn, wish, wishOf, promised>>

\* mutant: a list that is on its way is not aborted.
KeepRunKeepsLists(run) ==
  shown' = [shown EXCEPT ![run.id] = run] /\ UNCHANGED <<listing, listBody>>
\* keepRun(): the answer is the newest there is of its run, so a list that is on
\* its way is aborted.
KeepRun(run) ==
  /\ shown' = [shown EXCEPT ![run.id] = run]
  /\ listing' = FALSE
  /\ listBody' = Aborted(listBody)

\* The action's answer arrives.
Succeed(h) ==
  /\ waiting = h
  /\ job[h].stage = "answered" /\ job[h].answer # Failure
  /\ KeepRun(job[h].answer)
  /\ waiting' = Nothing
  /\ Become(h, Idle)
  /\ IF job[h].op = "generate"
       THEN saved' = Nothing /\ preview' = Nothing /\ wish' = [wish EXCEPT !.open = FALSE]
       ELSE UNCHANGED <<saved, preview, wish>>
  /\ UNCHANGED <<runs, world, mounted, draft, loading, previewBody, reloading, drawn,
                 inputs, wishOf, promised>>

\* The answer is an error, is lost, or takes longer than the client waits.
Fail(h) ==
  /\ waiting = h
  /\ job[h].stage = "answered" => job[h].answer = Failure
  /\ waiting' = Nothing
  /\ reloading' = TRUE
  /\ listing' = TRUE /\ listBody' = Aborted(listBody)
  /\ Become(h, IF job[h].stage = "answered" THEN Idle ELSE [job[h] EXCEPT !.heard = FALSE])
  /\ UNCHANGED <<runs, world, mounted, previews, shown, saved, drawn, history>>

\* The page is opened: it knows nothing but what the storage keeps.
Mount ==
  /\ ~mounted /\ mounted' = TRUE
  /\ listing' = TRUE
  /\ UNCHANGED <<server, world, previews, shown, listBody, waiting, reloading, saved, drawn, history>>

\* The page is left: everything is aborted but the action, whose answer is ignored.
Unmount ==
  /\ mounted /\ mounted' = FALSE /\ Input
  /\ draft' = Nothing /\ preview' = Nothing /\ loading' = FALSE /\ previewBody' = Nothing
  /\ shown' = NothingShown /\ listing' = FALSE /\ listBody' = Nothing
  /\ waiting' = Nothing /\ reloading' = FALSE
  /\ job' = IF waiting = Nothing THEN job
            ELSE [job EXCEPT ![waiting] = IF @.stage = "answered" THEN Idle ELSE [@ EXCEPT !.heard = FALSE]]
  /\ UNCHANGED <<runs, world, saved, drawn, intents>>

-----------------------------------------------------------------------------

Typing == (\E d \in Draft \cup {Nothing} : Edit(d)) \/ RetryPreview
Previewing == AnswerPreview \/ ReceivePreview
Listing == Poll \/ Refresh \/ AnswerList \/ ReceiveList \/ ListFails
Acting ==
  \E h \in Handler :
    \/ Generate(h) \/ Succeed(h) \/ Fail(h)
    \/ \E u \in RequestId, op \in {"resume", "undo"} : MutateRun(h, u, op)

Next ==
  \/ ServerNext /\ UNCHANGED <<page, history>>
  \/ Typing \/ Previewing \/ Listing \/ Acting \/ Mount \/ Unmount

Spec == Init /\ [][Next]_vars

-----------------------------------------------------------------------------
(* Properties *)

\* Pressing Generate again after an error, a lost answer, a timeout, a crash or
\* after reopening the page never makes a second run of the same wish.
OneRunPerWish ==
  \A u, v \in RequestId : Exists(u) /\ Exists(v) /\ wishOf[u] = wishOf[v] => u = v

\* Unless the channels or the picture changed after the preview, a run has
\* exactly the rows that were on the screen when Generate was pressed.
CreatedAsPreviewed ==
  \A u \in RequestId :
    Exists(u) /\ promised[u] # Nothing /\ runs[u].stamp = promised[u].stamp
      => runs[u].rows = promised[u].rows

\* Whichever of polls, reloads and answers come in between, a list never
\* replaces what the page shows of a run by something older.  (The answer of an
\* action may: it was read when the action ended, and is shown when it arrives.)
ListsNeverGoBack ==
  [][waiting = waiting' =>
       \A u \in RequestId : shown[u] # Nothing /\ shown'[u] # Nothing
                             => shown'[u].version >= shown[u].version]_vars

=============================================================================
