----------------------------- MODULE AdminConsole -----------------------------
(***************************************************************************)
(* The pages of the console and their requests: useChannels, the gallery,  *)
(* the spacer's base image, the banner URLs and the banner editor.  One    *)
(* page is open at a time; opening another one unmounts it.                *)
(*                                                                         *)
(* The server is a version per thing: the image of a channel, its banner   *)
(* URL, the base image.  What the images are is module ImageStore.         *)
(* A write is sent with the token of the moment (getToken), so the roles   *)
(* may have changed since the button was pressed.                          *)
(***************************************************************************)
EXTENDS AdminSession

CONSTANTS
  Channel,
  Nothing,
  Slot,      \* 1..n: writes under way
  MaxInputs, \* bound on what the user does outside of the editor's frame
  MaxChoices, \* and on the images chosen there
  Unusable   \* the choices that cannot be decoded, or have over 40 million pixels

VARIABLES
  content,   \* the server: thing -> [at |-> version, there |-> BOOLEAN]
  writes,    \* the requests that change something
  page,      \* the route, "none" for any other
  \* --- loaders: the list of channels (useChannels, load) and the base image (loadImage)
  loading,
  body,      \* an answer that is being parsed, live until it is aborted
  shown,     \* what was loaded last
  failed,    \* error
  fileError, \* the error of the file that was chosen as base image
  \* --- the editor
  choice,    \* number of the file or URL chosen last: sourceSequence
  reads,     \* choices that are still being read
  source,    \* the choice on the screen, 0 without one
  crop,      \* the source the cropper was made for, 0 without one
  starting,  \* croppers whose ready() is still to come: "current" or "old"
  ready,
  loadingImage,
  target,    \* cid
  saved,     \* savedRevision
  \* --- history
  inputs,
  confirmed  \* the newest version of each thing whose success the page reported

loaders == <<loading, body, shown, failed, fileError>>
editor  == <<choice, reads, source, crop, starting, ready, loadingImage, target, saved>>
vars    == <<session, content, writes, page, loaders, editor, inputs, confirmed>>

Base      == <<"base", Nothing>>
Image(c)  == <<"image", c>>
Banner(c) == <<"banner", c>>
Images  == {Image(c) : c \in Channel}
Banners == {Banner(c) : c \in Channel}
Thing   == {Base} \cup Images \cup Banners
Loader  == {"list", "base"}

Version == [at : Nat, there : BOOLEAN]
\* file: an upload, not a deletion; from: the page it was made on; heard: that page
\* still waits; roles: of the token it was sent with; at, things: what it changed.
Write ==
  [op : {"image", "base", "banner", "all", "notice"}, cid : Channel \cup {Nothing},
   file : BOOLEAN, from : Page \cup {"none"},
   stage : {"token", "answered", "list", "base", "awake"}, heard : BOOLEAN,
   roles : SUBSET {Admin, Editor}, result : {"none", "success", "failure", "forbidden"},
   at : Nat, things : SUBSET Thing]

\* A loader reads what its page is about.
Loads(l, p) == CASE l = "base" -> {Base}
                 [] l = "list" /\ p = "urls" -> Banners
                 [] OTHER -> Images

\* null is neither a request nor what one loads.
ASSUME ConsoleAssumption ==
  /\ Nothing \notin Write
  /\ \A l \in Loader, p \in Page : Nothing \notin [Loads(l, p) -> Version]

Now == 1 + (CHOOSE n \in {content[t].at : t \in Thing} : \A t \in Thing : content[t].at <= n)

Init ==
  /\ InitSession
  /\ content = [t \in Thing |-> [at |-> 0, there |-> t \in Images]]
  /\ writes = [s \in Slot |-> Nothing]
  /\ page = "none"
  /\ loading = [l \in Loader |-> FALSE] /\ body = [l \in Loader |-> Nothing]
  /\ shown = [l \in Loader |-> Nothing] /\ failed = [l \in Loader |-> FALSE]
  /\ fileError = FALSE
  /\ choice = 0 /\ reads = {} /\ source = 0 /\ crop = 0 /\ starting = {}
  /\ ready = FALSE /\ loadingImage = FALSE /\ target = Nothing /\ saved = 0
  /\ inputs = 0
  /\ confirmed = [t \in Thing |-> 0]

Input == inputs < MaxInputs /\ inputs' = inputs + 1

-----------------------------------------------------------------------------
(* Pages *)

\* Everything of a page that is unmounted is gone.  Its loads are aborted; its
\* writes go on without anyone to report to.
Mount(p) ==
  /\ page' = p
  /\ loading' = [l \in Loader |-> p # "none" /\ (l = "base" => p # "editor")]
  /\ body' = [l \in Loader |-> Nothing]
  /\ shown' = [l \in Loader |-> Nothing] /\ failed' = [l \in Loader |-> FALSE]
  /\ fileError' = FALSE
  /\ choice' = 0 /\ reads' = {} /\ source' = 0 /\ crop' = 0 /\ starting' = {}
  /\ ready' = FALSE /\ loadingImage' = FALSE /\ target' = Nothing /\ saved' = 0
  /\ writes' = [s \in Slot |->
                  IF writes[s] # Nothing /\ writes[s].stage = "token" THEN [writes[s] EXCEPT !.heard = FALSE]
                  ELSE Nothing]

Open(p) ==
  /\ screen = "app" /\ page # p
  /\ p # "none" => MayOpen(p, roles)
  /\ Input
  /\ Mount(p)
  /\ UNCHANGED <<session, content, confirmed>>

\* Every 30 seconds, and before every request: the page is replaced by
\* AccessDenied as soon as the roles no longer allow it.
Refresh ==
  /\ screen = "app"
  /\ \E r \in SUBSET {Admin, Editor} :
       /\ r # roles
       /\ Refreshed(r)
       /\ IF page = "none" \/ MayOpen(page, r) THEN UNCHANGED <<writes, page, loaders, editor>>
                                              ELSE Mount("none")
  /\ UNCHANGED <<content, inputs, confirmed>>

\* The token cannot be refreshed: what had no token yet is never sent.
SessionEnds ==
  /\ screen = "app"
  /\ LoginAgain
  /\ Mount("none")
  /\ UNCHANGED <<content, inputs, confirmed>>

SignIn == (Login \/ Return \/ AccountChanges)
          /\ UNCHANGED <<content, writes, page, loaders, editor, inputs, confirmed>>

Logout ==
  /\ KeycloakEnabled /\ screen = "app" /\ Input
  /\ screen' = "away" /\ alive' = FALSE
  /\ Mount("none")
  /\ UNCHANGED <<roles, granted, changes, content, confirmed>>

-----------------------------------------------------------------------------
(* Loading *)

Aborted(b) == IF b = Nothing THEN Nothing ELSE [b EXCEPT !.live = FALSE]
Live(l) == body[l] # Nothing /\ body[l].live

\* Whoever awaits a load goes on when it ends or is aborted.
Awake(l) ==
  [s \in Slot |-> IF writes[s] # Nothing /\ writes[s].stage = l THEN [writes[s] EXCEPT !.stage = "awake"]
                                                               ELSE writes[s]]

\* mutant: the load before is left to arrive.
ReloadOnTop(l) ==
  /\ loading' = [loading EXCEPT ![l] = TRUE]
  /\ failed' = [failed EXCEPT ![l] = FALSE]
  /\ UNCHANGED body
\* reload(), load(), loadImage(): the one before is aborted.
Reload(l) ==
  /\ loading' = [loading EXCEPT ![l] = TRUE]
  /\ failed' = [failed EXCEPT ![l] = FALSE]
  /\ body' = [body EXCEPT ![l] = Aborted(@)]

\* "Refresh" and "Try again".
PressRefresh(l) ==
  /\ page # "none" /\ (l = "base" => failed[l] /\ page # "editor")
  /\ Input
  /\ Reload(l)
  /\ writes' = Awake(l)
  /\ UNCHANGED <<session, content, page, shown, fileError, editor, confirmed>>

\* The server reads what is asked for, and the answer begins to arrive.
AnswerLoad(l) ==
  /\ loading[l] /\ body[l] = Nothing
  /\ body' = [body EXCEPT ![l] = [live |-> TRUE, seen |-> [t \in Loads(l, page) |-> content[t]]]]
  /\ UNCHANGED <<session, content, writes, page, loading, shown, failed, fileError, editor, inputs, confirmed>>

TakeBody(l) ==
  IF Live(l)
    THEN /\ shown' = [shown EXCEPT ![l] = body[l].seen]
         /\ loading' = [loading EXCEPT ![l] = FALSE]
         /\ writes' = Awake(l)
    ELSE UNCHANGED <<shown, loading, writes>>

ReceiveLoad(l) ==
  /\ body[l] # Nothing
  /\ body' = [body EXCEPT ![l] = Nothing]
  /\ TakeBody(l)
  /\ UNCHANGED <<session, content, page, failed, fileError, editor, inputs, confirmed>>

\* An error, or the deadline.
FailLoad(l) ==
  /\ loading[l]
  /\ loading' = [loading EXCEPT ![l] = FALSE]
  /\ failed' = [failed EXCEPT ![l] = TRUE]
  /\ body' = [body EXCEPT ![l] = IF Live(l) THEN Nothing ELSE @]
  /\ writes' = Awake(l)
  /\ UNCHANGED <<session, content, page, shown, fileError, editor, inputs, confirmed>>

-----------------------------------------------------------------------------
(* Writing *)

\* Writes the open page waits for.
Heard == {s \in Slot : writes[s] # Nothing /\ writes[s].heard}
Busy(op, c) == \E s \in Heard : writes[s].op = op /\ writes[s].cid = c
Uploading == \E s \in Heard : writes[s].op = "image" /\ page = "editor"

\* The locks: one write per channel in the gallery, one of everything else.
Free(op, c) ==
  CASE op = "image" /\ page = "gallery" -> ~Busy("image", c)
    [] op \in {"banner", "all"} -> ~\E s \in Heard : writes[s].op \in {"banner", "all"}
    [] OTHER -> ~\E s \in Heard : writes[s].op = op

\* changeImage, upload, apply: the first free slot is taken.
Press(s, op, c, file) ==
  /\ Input
  /\ writes[s] = Nothing /\ \A r \in Slot : r < s => writes[r] # Nothing
  /\ Free(op, c)
  /\ writes' = [writes EXCEPT ![s] =
       [op |-> op, cid |-> c, file |-> file, from |-> page, stage |-> "token", heard |-> TRUE,
        roles |-> {}, result |-> "none", at |-> 0, things |-> {}]]

ChangeImage(s, c, file) ==
  /\ page = "gallery"
  /\ ~loading["list"] /\ shown["list"] # Nothing
  /\ ~file => shown["list"][Image(c)].there
  /\ Press(s, "image", c, file)
  /\ UNCHANGED <<session, content, page, loaders, editor, confirmed>>

\* The errors on the screen go, that of a load that failed included.
UploadBase(s) ==
  /\ page \in {"gallery", "urls"}
  /\ Press(s, "base", Nothing, TRUE)
  /\ failed' = [failed EXCEPT !["base"] = FALSE] /\ fileError' = FALSE
  /\ UNCHANGED <<session, content, page, loading, body, shown, editor, confirmed>>

\* "Set for all channels" needs a list without an error, a row only its button.
Apply(s, c) ==
  /\ page = "urls" /\ ~loading["list"] /\ shown["list"] # Nothing
  /\ c = Nothing => ~failed["list"]
  /\ Press(s, IF c = Nothing THEN "all" ELSE "banner", c, TRUE)
  /\ failed' = [failed EXCEPT !["list"] = FALSE]
  /\ UNCHANGED <<session, content, page, loading, body, shown, fileError, editor, confirmed>>

\* "Crop & send image".
Upload(s) ==
  /\ page = "editor" /\ ready /\ crop # 0
  /\ target # Nothing /\ shown["list"] # Nothing
  /\ Press(s, "image", target, TRUE)
  /\ UNCHANGED <<session, content, page, loaders, editor, confirmed>>

\* What a write changes: banner URLs that are managed already are left alone,
\* and those that TeamSpeak refuses are reported.
Changed(w) ==
  CASE w.op = "base"   -> {{Base}}
    [] w.op = "image"  -> IF w.file \/ content[Image(w.cid)].there THEN {{Image(w.cid)}} ELSE {}
    [] w.op = "banner" -> {{Banner(w.cid)}}
    [] w.op = "all"    -> SUBSET {t \in Banners : ~content[t].there}

\* The request gets its token, is sent and handled.
Serve(s) ==
  /\ writes[s] # Nothing /\ writes[s].stage = "token" /\ screen = "app"
  /\ LET w == writes[s]
         end(result, things) ==
           writes' = [writes EXCEPT ![s] =
             IF w.heard THEN [w EXCEPT !.stage = "answered", !.roles = roles, !.result = result,
                                       !.at = Now, !.things = things]
             ELSE Nothing]
     IN  IF ~Served(w.op, roles) THEN end("forbidden", {}) /\ UNCHANGED content
         ELSE \/ end("failure", {}) /\ UNCHANGED content
              \/ \E things \in Changed(w) :
                   /\ content' = [t \in Thing |-> IF t \in things THEN [at |-> Now, there |-> w.file]
                                                                 ELSE content[t]]
                   /\ end("success", things)
  /\ UNCHANGED <<session, page, loaders, editor, inputs, confirmed>>

\* A write without anyone to report to may also never have been sent.
Drop(s) ==
  /\ writes[s] # Nothing /\ ~writes[s].heard
  /\ writes' = [writes EXCEPT ![s] = Nothing]
  /\ UNCHANGED <<session, content, page, loaders, editor, inputs, confirmed>>

Finish(s) == writes' = [writes EXCEPT ![s] = Nothing]
\* The slot awaits a load that the write has started.
Await(s, l) == Reload(l) /\ writes' = [Awake(l) EXCEPT ![s] = [writes[s] EXCEPT !.stage = l]]

\* The gallery shows a change at once, before the list is loaded again.
Patch(w) ==
  shown' = [shown EXCEPT !["list"] =
              [t \in DOMAIN @ |-> IF t \in w.things THEN [at |-> w.at, there |-> w.file] ELSE @[t]]]

HearSuccess(s) ==
  /\ writes[s] # Nothing /\ writes[s].stage = "answered" /\ writes[s].result = "success"
  /\ LET w == writes[s]
     IN  /\ confirmed' = [t \in Thing |-> IF t \in w.things /\ w.at > confirmed[t] THEN w.at ELSE confirmed[t]]
         /\ CASE page = "gallery" /\ w.op = "image" ->
                   Patch(w) /\ Await(s, "list") /\ UNCHANGED editor
              [] page = "urls" /\ w.op # "base" ->
                   Await(s, "list") /\ UNCHANGED <<shown, editor>>
              [] w.op = "base" ->
                   Await(s, "base") /\ UNCHANGED <<shown, editor>>
              [] OTHER ->  \* the editor
                   /\ Finish(s)
                   /\ saved' = w.at
                   /\ UNCHANGED <<loading, body, shown, failed, choice, reads, source, crop,
                                  starting, ready, loadingImage, target>>
  /\ UNCHANGED <<session, content, page, fileError, inputs>>

\* The awaited load is over: a new base image concerns the gallery's list as well.
GoOn(s) ==
  /\ writes[s] # Nothing /\ writes[s].stage = "awake"
  /\ IF writes[s].op = "base" /\ page = "gallery"
       THEN /\ Reload("list")
            /\ writes' = [Awake("list") EXCEPT ![s] = [writes[s] EXCEPT !.stage = "list", !.op = "notice"]]
       ELSE Finish(s) /\ UNCHANGED <<loading, body, failed>>
  /\ UNCHANGED <<session, content, page, shown, fileError, editor, inputs, confirmed>>

\* An error, a lost answer, or the deadline, after which the request may still
\* reach the server.  A base image that the server refuses may be reported beside
\* the file (413, 415, 422) and not as an error of the page.
HearFailure(s) ==
  /\ s \in Heard /\ writes[s].stage \in {"token", "answered"}
  /\ writes' = [writes EXCEPT ![s] =
                  IF @.stage = "token" THEN [@ EXCEPT !.heard = FALSE] ELSE Nothing]
  /\ IF writes[s].op = "base"
       THEN \E ofFile \in {FALSE, writes[s].result = "failure"} :
              failed' = [failed EXCEPT !["base"] = @ \/ ~ofFile] /\ fileError' = ofFile
       ELSE failed' = [failed EXCEPT !["list"] = @ \/ page = "urls"] /\ UNCHANGED fileError
  /\ UNCHANGED <<session, content, page, loading, body, shown, editor, inputs, confirmed>>

-----------------------------------------------------------------------------
(* The banner editor *)

outside == <<session, content, writes, page, loaders, inputs, confirmed>>

Choose ==
  /\ choice < MaxChoices /\ choice' = choice + 1
  /\ reads' = reads \cup {choice'}

\* Croppers that are destroyed may still call back.
Outdated == IF starting = {} THEN {} ELSE {"old"}

\* selectFile: the image on the screen goes at once.
SelectFile ==
  /\ page = "editor" /\ ~Uploading /\ Choose
  /\ source' = 0 /\ crop' = 0 /\ starting' = Outdated
  /\ ready' = FALSE /\ loadingImage' = TRUE
  /\ UNCHANGED <<target, saved, outside>>

\* loadUrl: it stays until the new one is there.
LoadUrl ==
  /\ page = "editor" /\ ~Uploading /\ ~loadingImage /\ Choose
  /\ ready' = FALSE /\ loadingImage' = TRUE
  /\ UNCHANGED <<source, crop, starting, target, saved, outside>>

\* mutant: whichever is read last is shown.
FrameLast(r) ==
  source' = r /\ crop' = 0 /\ starting' = Outdated /\ ready' = FALSE /\ UNCHANGED loadingImage
\* A file or a download that was replaced by another choice is ignored.
Frame(r) ==
  IF r = choice
    THEN source' = r /\ crop' = 0 /\ starting' = Outdated /\ ready' = FALSE /\ UNCHANGED loadingImage
    ELSE UNCHANGED <<source, crop, starting, ready, loadingImage>>

ReadDone(r) ==
  /\ r \in reads /\ reads' = reads \ {r}
  /\ Frame(r)
  /\ UNCHANGED <<choice, target, saved, outside>>

ReadFails(r) ==
  /\ r \in reads /\ reads' = reads \ {r}
  /\ loadingImage' = (loadingImage /\ r # choice)
  /\ UNCHANGED <<choice, source, crop, starting, ready, target, saved, outside>>

\* initialize: when the image is decoded, and whenever its box changes its size.
Initialize ==
  /\ source # 0
  /\ crop' = source
  /\ starting' = Outdated \cup {"current"}
  /\ ready' = FALSE
  /\ UNCHANGED <<choice, reads, source, loadingImage, target, saved, outside>>

Decode == crop = 0 /\ source \notin Unusable /\ Initialize
Resize == crop # 0 /\ Initialize

DecodeFails ==
  /\ source \in Unusable /\ loadingImage
  /\ loadingImage' = FALSE
  /\ UNCHANGED <<choice, reads, source, crop, starting, ready, target, saved, outside>>

CropperReady(g) ==
  IF g = "current" THEN ready' = TRUE /\ loadingImage' = FALSE ELSE UNCHANGED <<ready, loadingImage>>

Ready(g) ==
  /\ g \in starting /\ starting' = starting \ {g}
  /\ CropperReady(g)
  /\ UNCHANGED <<choice, reads, source, crop, target, saved, outside>>

\* mutant: the banner of one channel is announced for the next.
SelectKept(c) == target' = c /\ UNCHANGED saved
Select(c) == target' = c /\ saved' = 0

SelectChannel(c) ==
  /\ page = "editor" /\ ~loading["list"] /\ ~Uploading /\ shown["list"] # Nothing
  /\ c # target
  /\ Select(c)
  /\ UNCHANGED <<choice, reads, source, crop, starting, ready, loadingImage, outside>>

-----------------------------------------------------------------------------

Signing == SignIn \/ Refresh \/ SessionEnds \/ Logout
Loading == \E l \in Loader : PressRefresh(l) \/ AnswerLoad(l) \/ ReceiveLoad(l) \/ FailLoad(l)
Writing ==
  \E s \in Slot :
    \/ \E c \in Channel, file \in BOOLEAN : ChangeImage(s, c, file)
    \/ \E c \in Channel \cup {Nothing} : Apply(s, c)
    \/ UploadBase(s) \/ Upload(s)
    \/ Serve(s) \/ Drop(s) \/ HearSuccess(s) \/ HearFailure(s) \/ GoOn(s)
Editing ==
  \/ SelectFile \/ LoadUrl \/ \E r \in reads : ReadDone(r) \/ ReadFails(r)
  \/ Decode \/ Resize \/ DecodeFails \/ \E g \in starting : Ready(g)
  \/ \E c \in Channel \cup {Nothing} : SelectChannel(c)

Next == Signing \/ (\E p \in Page \cup {"none"} : Open(p)) \/ Loading \/ Writing \/ Editing

Spec == Init /\ [][Next]_vars

-----------------------------------------------------------------------------
(* Properties *)

\* Once a page has reported the success of a change, no list or image that it
\* has finished loading is from before the change, however many loads and changes
\* of other channels overlap, unless the page says so: it reports an error (the
\* load's, the change's or the file's) or is sending the next change, whose start
\* has cleared the error of the load.  The gallery holds this even while it loads;
\* the editor does not load its list again.
Sending(l) ==
  \E s \in Heard : /\ writes[s].stage \in {"token", "answered"}
                   /\ writes[s].op \in (IF l = "base" THEN {"base"} ELSE {"banner", "all"})
Settled(l) ==
  \/ page = "gallery" /\ l = "list"
  \/ ~loading[l] /\ ~failed[l] /\ ~Sending(l) /\ (l = "base" => ~fileError)
ListsAreCurrent ==
  \A l \in Loader :
    page # "editor" /\ shown[l] # Nothing /\ Settled(l) => \A t \in DOMAIN shown[l] : shown[l][t].at >= confirmed[t]

\* The routes of the client and the roles of the endpoints agree: the server
\* refuses what a page offers only to a token that no longer opens that page.
ForbiddenOnlyWithoutThePage ==
  \A s \in Slot :
    writes[s] # Nothing /\ writes[s].result = "forbidden" => ~MayOpen(writes[s].from, writes[s].roles)

\* "Saved banner ... Live" is shown for the channel it was saved for.
SavedBadgeIsTrue == saved # 0 => target # Nothing /\ confirmed[Image(target)] = saved

\* However reading, downloading, decoding and resizing overlap, the image that
\* appears is the one chosen last, and what can be sent is the image on the screen.
FramedIsNewest ==
  [][/\ source' \notin {0, source} => source' = choice
     /\ ready' => source' # 0 /\ crop' = source']_vars

=============================================================================
