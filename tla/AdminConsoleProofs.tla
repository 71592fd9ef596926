-------------------------- MODULE AdminConsoleProofs --------------------------
(***************************************************************************)
(* Proofs about the console, for every set of channels, every number of    *)
(* writes under way, with and without Keycloak: the lists are current once  *)
(* a change was reported, nobody is refused what the open page offers, the *)
(* saved badge tells the truth, and what is framed is what was chosen.     *)
(***************************************************************************)
EXTENDS AdminConsole, TLAPS

-----------------------------------------------------------------------------
(* The invariant *)

SessionType ==
  /\ screen \in {"splash", "failed", "app", "away"} /\ alive \in BOOLEAN
  /\ roles \in SUBSET {Admin, Editor} /\ granted \in SUBSET {Admin, Editor}
ServerType == content \in [Thing -> Version] /\ confirmed \in [Thing -> Nat]
WritesType == DOMAIN writes = Slot /\ \A s \in Slot : writes[s] # Nothing => writes[s] \in Write
PageType == page \in Page \cup {"none"} /\ target \in Channel \cup {Nothing}
Body(l, p) == [live : BOOLEAN, seen : [Loads(l, p) -> Version]]
LoadersType ==
  /\ loading \in [Loader -> BOOLEAN] /\ failed \in [Loader -> BOOLEAN]
  /\ DOMAIN body = Loader /\ DOMAIN shown = Loader
  /\ \A l \in Loader : body[l] # Nothing => body[l] \in Body(l, page)
  /\ \A l \in Loader : shown[l] # Nothing => shown[l] \in [Loads(l, page) -> Version]
EditorType ==
  /\ choice \in Nat /\ reads \in SUBSET Nat /\ source \in Nat /\ crop \in Nat /\ saved \in Nat
  /\ starting \in SUBSET {"current", "old"} /\ ready \in BOOLEAN /\ loadingImage \in BOOLEAN
ErrorType == fileError \in BOOLEAN
TypeOK == /\ SessionType /\ ServerType /\ WritesType /\ PageType
          /\ LoadersType /\ ErrorType /\ EditorType

\* Some thing has the newest version, so that Now is newer than all of them.
Newest == \E n \in Thing : \A t \in Thing : content[t].at <= content[n].at

\* What a write can change.
Reach(w) ==
  CASE w.op = "base"   -> {Base}
    [] w.op = "image"  -> {Image(w.cid)}
    [] w.op = "banner" -> {Banner(w.cid)}
    [] OTHER           -> Banners

Reported(w) == w.stage = "answered" /\ w.result = "success"

WriteOK(w) ==
  /\ w.op \in {"image", "banner"} => w.cid \in Channel
  /\ w.op \in {"banner", "all"} => w.from = "urls"
  /\ w.stage # "token" => w.heard
  /\ w.op = "notice" => w.stage \notin {"token", "answered"}
  /\ w.result = "forbidden" => ~MayOpen(w.from, w.roles)
  /\ Reported(w) => /\ w.things \subseteq Reach(w)
                    /\ w.op = "image" /\ w.file => w.things = {Image(w.cid)}
                    /\ \A t \in w.things : confirmed[t] < w.at /\ w.at <= content[t].at
WritesOK == \A s \in Slot : writes[s] # Nothing => WriteOK(writes[s])

\* What the open page waits for was started on it.
HeardOK(w) ==
  \/ page = "gallery" /\ w.op \in {"image", "base", "notice"}
     /\ (w.op = "image" => shown["list"] # Nothing)
  \/ page = "urls" /\ w.op \in {"banner", "all", "base"}
  \/ page = "editor" /\ w.op = "image" /\ w.file /\ w.cid = target /\ target # Nothing
HeardInv == \A s \in Heard : HeardOK(writes[s])

\* No two of them are about the same thing.
Clash(v, w) ==
  \/ v.op = "image" /\ w.op = "image" /\ v.cid = w.cid
  \/ v.op = "base" /\ w.op = "base"
  \/ v.op \in {"banner", "all"} /\ w.op \in {"banner", "all"}
Locked == \A r, s \in Heard : r # s => ~Clash(writes[r], writes[s])

ConfirmedIsThere == \A t \in Thing : confirmed[t] <= content[t].at

Current(seen) == \A t \in DOMAIN seen : seen[t].at >= confirmed[t]

\* An answer that will be shown is not older than what was reported since.
BodiesCurrent == \A l \in Loader : page # "editor" /\ Live(l) => Current(body[l].seen)

\* A list that is not current is being loaded, shows an error, or will do one of
\* both when a change that is being sent ends.
Unsettled(l) ==
  /\ page # "gallery" \/ l # "list"
  /\ loading[l] \/ failed[l] \/ Sending(l) \/ (l = "base" /\ fileError)
SendingKept == \A l \in Loader : Sending(l) => Sending(l)'
ShownCurrent ==
  \A l \in Loader : page # "editor" /\ shown[l] # Nothing => Current(shown[l]) \/ Unsettled(l)

\* Another page shows no badge.
SavedHere == saved # 0 => page = "editor"

ConsoleInv ==
  /\ TypeOK /\ Newest /\ WritesOK /\ HeardInv /\ Locked /\ ConfirmedIsThere
  /\ BodiesCurrent /\ ShownCurrent /\ SavedHere /\ SavedBadgeIsTrue

-----------------------------------------------------------------------------
(* What the operators are *)

LEMMA Things ==
  /\ Thing = {Base} \cup Images \cup Banners
  /\ \A t \in Images : t \notin Banners /\ t # Base
  /\ \A t \in Banners : t # Base
  /\ \A c, d : Image(c) = Image(d) <=> c = d
BY DEF Thing, Base, Images, Banners, Image, Banner

LEMMA LoadsOf ==
  /\ \A p : Loads("base", p) = {Base}
  /\ Loads("list", "urls") = Banners
  /\ \A p : p # "urls" => Loads("list", p) = Images
  /\ \A p : \A l \in Loader : Loads(l, p) \subseteq Thing
BY DEF Loads, Loader, Thing

LEMMA NowIsNewest ==
  ASSUME ServerType, Newest
  PROVE  Now \in Nat /\ \A t \in Thing : content[t].at \in Nat /\ content[t].at < Now
<1>1. \A t \in Thing : content[t].at \in Nat
  BY DEF ServerType, Version
<1>2. PICK n \in Thing : \A t \in Thing : content[t].at <= content[n].at
  BY DEF Newest
<1> DEFINE ats == {content[t].at : t \in Thing}
           most == CHOOSE m \in ats : \A t \in Thing : content[t].at <= m
<1>3. most \in ats /\ \A t \in Thing : content[t].at <= most
  BY <1>2
<1>4. Now = 1 + most
  BY DEF Now
<1> HIDE DEF most
<1> QED BY <1>1, <1>3, <1>4

\* The server refuses a kind of change only to a token without its role.
LEMMA RefusedRole ==
  ASSUME NEW op, NEW r, ~Served(op, r)
  PROVE  /\ ~IsAdmin(r)
         /\ op \notin {"banners", "banner", "all"} => ~CanUpload(r)
BY DEF Served, RequiredRole, IsAdmin, CanUpload, Admin, Editor

-----------------------------------------------------------------------------
(* The kinds of steps *)

Still == UNCHANGED <<content, writes, page, loaders, confirmed>>
Mounts == (\E p \in Page \cup {"none"} : Mount(p)) /\ UNCHANGED <<content, confirmed>>
Presses(s) ==
  \/ \E c \in Channel, file \in BOOLEAN : ChangeImage(s, c, file)
  \/ \E c \in Channel \cup {Nothing} : Apply(s, c)
  \/ UploadBase(s) \/ Upload(s)

LEMMA NextSteps ==
  ASSUME [Next]_vars
  PROVE  \/ Still /\ UNCHANGED <<target, saved>>
         \/ \E c \in Channel \cup {Nothing} : SelectChannel(c)
         \/ Mounts
         \/ \E l \in Loader : PressRefresh(l) \/ AnswerLoad(l) \/ ReceiveLoad(l) \/ FailLoad(l)
         \/ \E s \in Slot : \/ Presses(s) \/ Serve(s) \/ Drop(s)
                            \/ HearSuccess(s) \/ HearFailure(s) \/ GoOn(s)
<1>1. ASSUME Signing PROVE (Still /\ UNCHANGED <<target, saved>>) \/ Mounts
  BY <1>1 DEF Signing, SignIn, Refresh, SessionEnds, Logout, Still, Mounts, loaders, editor, Page
<1>2. ASSUME NEW p \in Page \cup {"none"}, Open(p) PROVE Mounts
  BY <1>2 DEF Open, Mounts
<1>3. ASSUME Editing
      PROVE  (Still /\ UNCHANGED <<target, saved>>) \/ \E c \in Channel \cup {Nothing} : SelectChannel(c)
  BY <1>3 DEF Editing, SelectFile, LoadUrl, ReadDone, ReadFails, Decode, Resize, Initialize,
              DecodeFails, Ready, Still, outside
<1>4. ASSUME UNCHANGED vars PROVE Still /\ UNCHANGED <<target, saved>>
  BY <1>4 DEF vars, Still, editor
<1> QED BY <1>1, <1>2, <1>3, <1>4 DEF Next, Loading, Writing, Presses

LEMMA SelectStill ==
  ASSUME NEW c, SelectChannel(c)
  PROVE  Still /\ page = "editor" /\ ~Uploading /\ target' = c /\ saved' = 0
BY DEF SelectChannel, Select, Still, outside

\* What becomes of a write unless it is sent: it ends, or is waited for no
\* longer, or waits for a load; what it is about and how it went stays.
Later(new, old) ==
  /\ new.cid = old.cid /\ new.file = old.file /\ new.from = old.from /\ new.roles = old.roles
  /\ new.result = old.result /\ new.at = old.at /\ new.things = old.things
  /\ new.op = old.op \/ (new.op = "notice" /\ new.stage = "list" /\ page = "gallery")
  /\ new.stage = old.stage \/ (new.stage \in {"list", "base", "awake"} /\ old.stage # "token")
  /\ new.heard => old.heard
  /\ new.stage # "token" => new.heard = old.heard

Continues(s) ==
  writes'[s] # Nothing =>
    writes[s] # Nothing /\ writes'[s] \in Write /\ Later(writes'[s], writes[s])

LEMMA LaterStage ==
  ASSUME NEW w \in Write, NEW l \in {"list", "base", "awake"}, w.stage # "token"
  PROVE  [w EXCEPT !.stage = l] \in Write /\ Later([w EXCEPT !.stage = l], w)
BY DEF Write, Later

LEMMA AwakeLater ==
  ASSUME WritesType, NEW l \in Loader, NEW r \in Slot, Awake(l)[r] # Nothing
  PROVE  /\ writes[r] # Nothing /\ Awake(l)[r] \in Write /\ Later(Awake(l)[r], writes[r])
<1>1. writes[r] # Nothing
  BY DEF Awake
<1>2. writes[r] \in Write
  BY <1>1 DEF WritesType
<1>3. CASE writes[r].stage = l
  <2>1. Awake(l)[r] = [writes[r] EXCEPT !.stage = "awake"]
    BY <1>1, <1>3 DEF Awake
  <2> QED BY <1>1, <1>2, <1>3, <2>1, LaterStage DEF Loader
<1>4. CASE writes[r].stage # l
  BY <1>1, <1>2, <1>4 DEF Awake, Later
<1> QED BY <1>3, <1>4

LEMMA AwaitLater ==
  ASSUME WritesType, NEW s \in Slot, NEW l \in Loader, Await(s, l),
         writes[s] # Nothing, writes[s].stage # "token"
  PROVE  DOMAIN writes' = Slot /\ \A r \in Slot : Continues(r)
<1>1. writes' = [Awake(l) EXCEPT ![s] = [writes[s] EXCEPT !.stage = l]]
  BY DEF Await
<1>2. DOMAIN Awake(l) = Slot
  BY DEF Awake
<1>3. writes[s] \in Write
  BY DEF WritesType
<1>4. writes'[s] = [writes[s] EXCEPT !.stage = l]
  BY <1>1, <1>2
<1>5. Continues(s)
  BY <1>3, <1>4, LaterStage DEF Continues, Loader
<1>6. ASSUME NEW r \in Slot, r # s PROVE Continues(r)
  <2>1. writes'[r] = Awake(l)[r]
    BY <1>1, <1>2, <1>6
  <2> QED BY <2>1, AwakeLater DEF Continues
<1> QED BY <1>1, <1>2, <1>5, <1>6

LEMMA SameLater == ASSUME NEW w \in Write PROVE Later(w, w)
BY DEF Later

\* Only a new write is new, and only Serve lets one go on to its answer.
LEMMA WritesContinue ==
  ASSUME WritesType,
         \/ Still \/ Mounts
         \/ \E l \in Loader : PressRefresh(l) \/ AnswerLoad(l) \/ ReceiveLoad(l) \/ FailLoad(l)
         \/ \E s \in Slot : Drop(s) \/ HearSuccess(s) \/ HearFailure(s) \/ GoOn(s)
  PROVE  DOMAIN writes' = Slot /\ \A r \in Slot : Continues(r)
<1> DEFINE Goal == DOMAIN writes' = Slot /\ \A r \in Slot : Continues(r)
<1>w. DOMAIN writes = Slot /\ \A s \in Slot : writes[s] # Nothing => writes[s] \in Write
  BY DEF WritesType
<1>1. CASE writes' = writes
  BY <1>1, <1>w, SameLater DEF Continues
<1>2. CASE Mounts
  <2>1. ASSUME NEW r \in Slot, writes'[r] # Nothing PROVE Continues(r)
    <3>1. writes[r] # Nothing /\ writes[r].stage = "token"
          /\ writes'[r] = [writes[r] EXCEPT !.heard = FALSE]
      BY <1>2, <2>1 DEF Mounts, Mount
    <3> QED BY <1>w, <3>1 DEF Continues, Later, Write
  <2>2. DOMAIN writes' = Slot
    BY <1>2 DEF Mounts, Mount
  <2> QED BY <2>1, <2>2 DEF Continues
<1>3. ASSUME NEW l \in Loader, writes' = Awake(l) PROVE Goal
  <2>1. DOMAIN writes' = Slot
    BY <1>3 DEF Awake
  <2> QED BY <1>3, <2>1, AwakeLater DEF Continues
<1>4. ASSUME NEW s \in Slot, writes' = [writes EXCEPT ![s] = Nothing] PROVE Goal
  BY <1>4, <1>w, SameLater DEF Continues
<1>5. ASSUME NEW s \in Slot, HearSuccess(s) PROVE Goal
  BY <1>5, <1>4, AwaitLater DEF HearSuccess, Finish, Loader
<1>6. ASSUME NEW s \in Slot, HearFailure(s) PROVE Goal
  <2>1. CASE writes[s].stage = "token"
    <3>1. writes' = [writes EXCEPT ![s] = [writes[s] EXCEPT !.heard = FALSE]]
      BY <1>6, <2>1 DEF HearFailure
    <3>2. writes[s] # Nothing
      BY <1>6 DEF HearFailure, Heard
    <3>3. Continues(s)
      BY <1>w, <2>1, <3>1, <3>2 DEF Continues, Later, Write
    <3> QED BY <1>w, <3>1, <3>3, SameLater DEF Continues
  <2>2. CASE writes[s].stage # "token"
    BY <1>4, <1>6, <2>2 DEF HearFailure
  <2> QED BY <2>1, <2>2
<1>7. ASSUME NEW s \in Slot, GoOn(s) PROVE Goal
  <2>1. CASE writes[s].op = "base" /\ page = "gallery"
    <3>1. writes' = [Awake("list") EXCEPT ![s] = [writes[s] EXCEPT !.stage = "list", !.op = "notice"]]
          /\ writes[s] # Nothing /\ writes[s].stage = "awake" /\ page = "gallery"
      BY <1>7, <2>1 DEF GoOn
    <3>2. DOMAIN Awake("list") = Slot
      BY DEF Awake
    <3>3. Continues(s)
      <4>1. writes'[s] = [writes[s] EXCEPT !.stage = "list", !.op = "notice"]
        BY <3>1, <3>2
      <4>2. PICK w \in Write : w = writes[s]
        BY <1>w, <3>1
      <4>3. PICK v : v = [w EXCEPT !.stage = "list", !.op = "notice"]
        OBVIOUS
      <4>4. v \in Write
        BY <4>2, <4>3 DEF Write
      <4>5. /\ v.cid = w.cid /\ v.file = w.file /\ v.from = w.from /\ v.roles = w.roles
            /\ v.result = w.result /\ v.at = w.at /\ v.things = w.things /\ v.heard = w.heard
            /\ v.op = "notice" /\ v.stage = "list"
        BY <4>3 DEF Write
      <4>6. Later(v, w)
        BY <3>1, <4>2, <4>5 DEF Later
      <4> QED BY <3>1, <4>1, <4>2, <4>3, <4>4, <4>6 DEF Continues
    <3>4. ASSUME NEW r \in Slot, r # s PROVE Continues(r)
      BY <3>1, <3>2, <3>4, AwakeLater DEF Continues, Loader
    <3> QED BY <3>1, <3>2, <3>3, <3>4
  <2>2. CASE ~(writes[s].op = "base" /\ page = "gallery")
    BY <1>4, <1>7, <2>2 DEF GoOn, Finish
  <2> QED BY <2>1, <2>2
<1> QED
  BY <1>1, <1>2, <1>3, <1>4, <1>5, <1>6, <1>7
  DEF Still, PressRefresh, AnswerLoad, ReceiveLoad, TakeBody, FailLoad, Drop

\* A write that is new is made on the open page, about a thing nobody else there
\* is changing.
NewWrite(s, w) ==
  /\ writes[s] = Nothing /\ writes' = [writes EXCEPT ![s] = w]
  /\ w.from = page /\ w.stage = "token" /\ w.heard /\ w.result = "none"
  /\ w.op \in {"image", "banner"} => w.cid \in Channel
  /\ \/ page = "gallery" /\ w.op = "image" /\ ~Busy("image", w.cid)
        /\ shown["list"] # Nothing
     \/ page \in {"gallery", "urls"} /\ w.op = "base" /\ \A r \in Heard : writes[r].op # "base"
     \/ page = "urls" /\ w.op \in {"banner", "all"}
        /\ \A r \in Heard : writes[r].op \notin {"banner", "all"}
     \/ page = "editor" /\ w.op = "image" /\ w.file /\ w.cid = target /\ target # Nothing
        /\ \A r \in Heard : writes[r].op # "image"
  /\ UNCHANGED <<content, page, loading, body, shown, target, saved, confirmed>>
  /\ \/ UNCHANGED <<failed, fileError>>
     \/ /\ w.op \in {"banner", "all"}
        /\ failed' = [failed EXCEPT !["list"] = FALSE] /\ fileError' = fileError
     \/ w.op = "base" /\ failed' = [failed EXCEPT !["base"] = FALSE] /\ fileError' = FALSE

LEMMA PressFacts ==
  ASSUME TypeOK, NEW s \in Slot, Presses(s)
  PROVE  \E w \in Write : NewWrite(s, w)
<1> DEFINE Made(op, c, file) ==
             [op |-> op, cid |-> c, file |-> file, from |-> page, stage |-> "token", heard |-> TRUE,
              roles |-> {}, result |-> "none", at |-> 0, things |-> {}]
<1>1. ASSUME NEW op \in {"image", "base", "banner", "all"}, NEW c \in Channel \cup {Nothing},
             NEW file \in BOOLEAN
      PROVE  Made(op, c, file) \in Write
  BY DEF Write, TypeOK, PageType
<1>2. ASSUME NEW c \in Channel, NEW file \in BOOLEAN, ChangeImage(s, c, file)
      PROVE  /\ writes' = [writes EXCEPT ![s] = Made("image", c, file)]
             /\ writes[s] = Nothing /\ page = "gallery" /\ ~Busy("image", c) /\ shown["list"] # Nothing
             /\ UNCHANGED <<content, page, loading, body, shown, failed, fileError, target, saved, confirmed>>
  BY <1>2 DEF ChangeImage, Press, Free, loaders, editor
<1>3. ASSUME UploadBase(s)
      PROVE  /\ writes' = [writes EXCEPT ![s] = Made("base", Nothing, TRUE)]
             /\ writes[s] = Nothing /\ page \in {"gallery", "urls"}
             /\ \A r \in Heard : writes[r].op # "base"
             /\ failed' = [failed EXCEPT !["base"] = FALSE] /\ fileError' = FALSE
             /\ UNCHANGED <<content, page, loading, body, shown, target, saved, confirmed>>
  BY <1>3 DEF UploadBase, Press, Free, editor
<1>4. ASSUME NEW c \in Channel \cup {Nothing}, Apply(s, c)
      PROVE  \E op \in {"banner", "all"} :
               /\ writes' = [writes EXCEPT ![s] = Made(op, c, TRUE)]
               /\ op = "banner" => c \in Channel
               /\ writes[s] = Nothing /\ page = "urls"
               /\ \A r \in Heard : writes[r].op \notin {"banner", "all"}
               /\ failed' = [failed EXCEPT !["list"] = FALSE]
               /\ UNCHANGED <<content, page, loading, body, shown, fileError, editor, confirmed>>
  <2>1. CASE c = Nothing
    BY <1>4, <2>1 DEF Apply, Press, Free
  <2>2. CASE c # Nothing
    BY <1>4, <2>2 DEF Apply, Press, Free
  <2> QED BY <2>1, <2>2
<1>5. ASSUME Upload(s)
      PROVE  /\ writes' = [writes EXCEPT ![s] = Made("image", target, TRUE)]
             /\ writes[s] = Nothing /\ page = "editor" /\ target # Nothing
             /\ \A r \in Heard : writes[r].op # "image"
             /\ UNCHANGED <<content, page, loading, body, shown, failed, fileError, target, saved, confirmed>>
  BY <1>5 DEF Upload, Press, Free, loaders, editor
<1> HIDE DEF Made
<1>7. CASE \E c \in Channel, file \in BOOLEAN : ChangeImage(s, c, file)
  <2>1. PICK c \in Channel, file \in BOOLEAN : ChangeImage(s, c, file)
    BY <1>7
  <2>2. PICK w \in Write : w = Made("image", c, file)
    BY <1>1
  <2>3. /\ w.op = "image" /\ w.cid = c /\ w.file = file /\ w.from = page
        /\ w.stage = "token" /\ w.heard /\ w.result = "none"
    BY <2>2 DEF Made
  <2>4. writes' = [writes EXCEPT ![s] = w]
    BY <1>2, <2>1, <2>2
  <2>5. NewWrite(s, w)
    BY <1>2, <2>1, <2>3, <2>4 DEF NewWrite
  <2> QED BY <2>2, <2>5
<1>8. CASE \E c \in Channel \cup {Nothing} : Apply(s, c)
  <2>1. PICK c \in Channel \cup {Nothing}, op \in {"banner", "all"} :
          /\ writes' = [writes EXCEPT ![s] = Made(op, c, TRUE)]
          /\ op = "banner" => c \in Channel
          /\ writes[s] = Nothing /\ page = "urls"
          /\ \A r \in Heard : writes[r].op \notin {"banner", "all"}
          /\ failed' = [failed EXCEPT !["list"] = FALSE]
          /\ UNCHANGED <<content, page, loading, body, shown, fileError, editor, confirmed>>
    BY <1>4, <1>8
  <2>2. PICK w \in Write : w = Made(op, c, TRUE)
    BY <1>1
  <2>3. /\ w.op = op /\ w.cid = c /\ w.file = TRUE /\ w.from = page
        /\ w.stage = "token" /\ w.heard /\ w.result = "none"
    BY <2>2 DEF Made
  <2>4. writes' = [writes EXCEPT ![s] = w]
    BY <2>1, <2>2
  <2>5. NewWrite(s, w)
    BY <2>1, <2>3, <2>4 DEF NewWrite, editor
  <2> QED BY <2>2, <2>5
<1>9. CASE UploadBase(s)
  <2>1. PICK w \in Write : w = Made("base", Nothing, TRUE)
    BY <1>1
  <2>2. /\ w.op = "base" /\ w.cid = Nothing /\ w.file = TRUE /\ w.from = page
        /\ w.stage = "token" /\ w.heard /\ w.result = "none"
    BY <2>1 DEF Made
  <2>3. writes' = [writes EXCEPT ![s] = w]
    BY <1>3, <1>9, <2>1
  <2>4. NewWrite(s, w)
    BY <1>3, <1>9, <2>2, <2>3 DEF NewWrite
  <2> QED BY <2>1, <2>4
<1>10. CASE Upload(s)
  <2>1. PICK w \in Write : w = Made("image", target, TRUE)
    BY <1>1 DEF TypeOK, PageType
  <2>2. /\ w.op = "image" /\ w.cid = target /\ w.file = TRUE /\ w.from = page
        /\ w.stage = "token" /\ w.heard /\ w.result = "none"
    BY <2>1 DEF Made
  <2>3. writes' = [writes EXCEPT ![s] = w]
    BY <1>5, <1>10, <2>1
  <2>4. target \in Channel
    BY <1>5, <1>10 DEF TypeOK, PageType
  <2>5. NewWrite(s, w)
    BY <1>5, <1>10, <2>2, <2>3, <2>4 DEF NewWrite
  <2> QED BY <2>1, <2>5
<1> QED
  BY <1>7, <1>8, <1>9, <1>10 DEF Presses

\* The server answers: it refuses, fails, or makes a newest version.
Answers(s, result, things) ==
  /\ writes[s] # Nothing /\ writes[s].stage = "token"
  /\ writes' = [writes EXCEPT ![s] =
       IF writes[s].heard
         THEN [writes[s] EXCEPT !.stage = "answered", !.roles = roles, !.result = result,
                                !.at = Now, !.things = things]
         ELSE Nothing]
  /\ result = "forbidden" => ~Served(writes[s].op, roles)
  /\ IF result = "success"
       THEN /\ things \in Changed(writes[s])
            /\ content' = [t \in Thing |-> IF t \in things
                             THEN [at |-> Now, there |-> writes[s].file] ELSE content[t]]
       ELSE content' = content
  /\ UNCHANGED <<page, loaders, target, saved, confirmed>>

LEMMA ServeFacts ==
  ASSUME TypeOK, WritesOK, NEW s \in Slot, Serve(s)
  PROVE  \E result \in {"forbidden", "failure", "success"}, things \in SUBSET Thing :
           Answers(s, result, things)
<1> DEFINE Ends(result, things) ==
             writes' = [writes EXCEPT ![s] =
               IF writes[s].heard
                 THEN [writes[s] EXCEPT !.stage = "answered", !.roles = roles, !.result = result,
                                        !.at = Now, !.things = things]
                 ELSE Nothing]
           Changes(things) ==
             content' = [t \in Thing |-> IF t \in things
                           THEN [at |-> Now, there |-> writes[s].file] ELSE content[t]]
<1>1. /\ writes[s] # Nothing /\ writes[s].stage = "token"
      /\ UNCHANGED <<page, loaders, target, saved, confirmed>>
      /\ \/ ~Served(writes[s].op, roles) /\ Ends("forbidden", {}) /\ UNCHANGED content
         \/ Ends("failure", {}) /\ UNCHANGED content
         \/ \E things \in Changed(writes[s]) : Changes(things) /\ Ends("success", things)
  BY DEF Serve, editor
<1>2. writes[s] \in Write
  BY <1>1 DEF TypeOK, WritesType
<1>3. Changed(writes[s]) \subseteq SUBSET Thing
  <2>1. writes[s].op \in {"image", "banner"} => writes[s].cid \in Channel
    BY <1>1 DEF WritesOK, WriteOK
  <2>2. writes[s].op \in {"image", "base", "banner", "all"}
    BY <1>1, <1>2 DEF WritesOK, WriteOK, Write
  <2>3. /\ Base \in Thing /\ Banners \subseteq Thing
        /\ \A c \in Channel : Image(c) \in Thing /\ Banner(c) \in Thing
    BY DEF Thing, Images, Banners
  <2> QED BY <2>1, <2>2, <2>3 DEF Changed
<1> HIDE DEF Ends, Changes
<1>4. {} \in SUBSET Thing
  OBVIOUS
<1>5. ASSUME NEW result \in {"forbidden", "failure"}, Ends(result, {}), UNCHANGED content,
             result = "forbidden" => ~Served(writes[s].op, roles)
      PROVE  \E r \in {"forbidden", "failure", "success"}, things \in SUBSET Thing :
               /\ Ends(r, things) /\ (r = "forbidden" => ~Served(writes[s].op, roles))
               /\ IF r = "success" THEN things \in Changed(writes[s]) /\ Changes(things)
                                   ELSE content' = content
  BY <1>4, <1>5
<1>6. \E r \in {"forbidden", "failure", "success"}, things \in SUBSET Thing :
        /\ Ends(r, things) /\ (r = "forbidden" => ~Served(writes[s].op, roles))
        /\ IF r = "success" THEN things \in Changed(writes[s]) /\ Changes(things)
                            ELSE content' = content
  BY <1>1, <1>3, <1>5
<1> QED BY <1>1, <1>6 DEF Ends, Changes, Answers

LEMMA AnswerOf ==
  ASSUME TypeOK, Newest, NEW s \in Slot, NEW result \in {"forbidden", "failure", "success"},
         NEW things \in SUBSET Thing, Answers(s, result, things)
  PROVE  /\ DOMAIN writes' = Slot /\ writes[s] # Nothing
         /\ \A r \in Slot : r # s => writes'[r] = writes[r]
         /\ writes'[s] # Nothing =>
              /\ writes[s].heard /\ writes'[s] \in Write
              /\ writes'[s].op = writes[s].op /\ writes'[s].cid = writes[s].cid
              /\ writes'[s].file = writes[s].file /\ writes'[s].from = writes[s].from
              /\ writes'[s].stage = "answered" /\ writes'[s].heard /\ writes'[s].roles = roles
              /\ writes'[s].result = result /\ writes'[s].at = Now /\ writes'[s].things = things
<1>1. DOMAIN writes' = Slot /\ \A r \in Slot : r # s => writes'[r] = writes[r]
  BY DEF Answers, TypeOK, WritesType
<1>2. Now \in Nat /\ roles \in SUBSET {Admin, Editor}
  BY NowIsNewest DEF TypeOK, SessionType
<1>3. PICK w \in Write : w = writes[s]
  BY DEF Answers, TypeOK, WritesType
<1>4. ASSUME writes'[s] # Nothing
      PROVE  /\ w.heard
             /\ writes'[s] = [w EXCEPT !.stage = "answered", !.roles = roles, !.result = result,
                                      !.at = Now, !.things = things]
  BY <1>3, <1>4 DEF Answers, TypeOK, WritesType
<1>5. PICK v : v = [w EXCEPT !.stage = "answered", !.roles = roles, !.result = result,
                            !.at = Now, !.things = things]
  OBVIOUS
<1>6. v \in Write
  BY <1>2, <1>5 DEF Write
<1>7. /\ v.op = w.op /\ v.cid = w.cid /\ v.file = w.file /\ v.from = w.from
      /\ v.stage = "answered" /\ v.heard = w.heard /\ v.roles = roles
      /\ v.result = result /\ v.at = Now /\ v.things = things
  BY <1>5 DEF Write
<1>8. writes[s] # Nothing
  BY DEF Answers
<1> QED BY <1>1, <1>3, <1>4, <1>5, <1>6, <1>7, <1>8

-----------------------------------------------------------------------------
(* The writes *)

LEMMA WriteSteps ==
  ASSUME TypeOK, WritesOK, [Next]_vars
  PROVE  \/ DOMAIN writes' = Slot /\ \A r \in Slot : Continues(r)
         \/ \E s \in Slot, w \in Write : NewWrite(s, w)
         \/ \E s \in Slot, result \in {"forbidden", "failure", "success"}, things \in SUBSET Thing :
              Answers(s, result, things)
<1>1. WritesType
  BY DEF TypeOK
<1>2. ASSUME NEW s \in Slot, Serve(s)
      PROVE  \E result \in {"forbidden", "failure", "success"}, things \in SUBSET Thing :
               Answers(s, result, things)
  BY <1>2, ServeFacts
<1>3. ASSUME NEW s \in Slot, Presses(s) PROVE \E w \in Write : NewWrite(s, w)
  BY <1>3, PressFacts
<1> QED BY <1>1, <1>2, <1>3, NextSteps, SelectStill, WritesContinue

LEMMA WritesTypeStep ==
  ASSUME TypeOK, WritesOK, Newest, [Next]_vars
  PROVE  WritesType'
<1>1. ASSUME DOMAIN writes' = Slot, \A r \in Slot : Continues(r) PROVE WritesType'
  BY <1>1 DEF Continues, WritesType
<1>2. ASSUME NEW s \in Slot, NEW w \in Write, NewWrite(s, w) PROVE WritesType'
  BY <1>2 DEF NewWrite, WritesType, TypeOK
<1>3. ASSUME NEW s \in Slot, NEW result \in {"forbidden", "failure", "success"},
             NEW things \in SUBSET Thing, Answers(s, result, things)
      PROVE  WritesType'
  <2>1. /\ DOMAIN writes' = Slot
        /\ \A r \in Slot : r # s => writes'[r] = writes[r]
        /\ writes'[s] # Nothing => writes'[s] \in Write
    BY <1>3, AnswerOf
  <2> QED BY <2>1 DEF WritesType, TypeOK
<1> QED BY <1>1, <1>2, <1>3, WriteSteps

\* Success is reported on the page it was pressed on, and of no older change.
LEMMA HearCases ==
  ASSUME ConsoleInv, NEW s \in Slot, HearSuccess(s), NEW w, w = writes[s]
  PROVE  /\ w # Nothing /\ w \in Write /\ WriteOK(w) /\ s \in Heard /\ HeardOK(w)
         /\ Reported(w) /\ w.at \in Nat /\ w.things \subseteq Reach(w)
         /\ UNCHANGED <<content, page, target>>
         /\ confirmed' = [t \in Thing |-> IF t \in w.things THEN w.at ELSE confirmed[t]]
         /\ \/ /\ page = "gallery" /\ w.op = "image" /\ shown["list"] # Nothing
               /\ Patch(w) /\ Await(s, "list") /\ UNCHANGED saved
            \/ /\ page = "urls" /\ w.op \in {"banner", "all"}
               /\ Await(s, "list") /\ UNCHANGED <<shown, saved>>
            \/ /\ page \in {"gallery", "urls"} /\ w.op = "base"
               /\ Await(s, "base") /\ UNCHANGED <<shown, saved>>
            \/ /\ page = "editor" /\ w.op = "image" /\ w.file /\ w.cid = target /\ target # Nothing
               /\ Finish(s) /\ saved' = w.at /\ UNCHANGED loaders
<1>1. /\ w # Nothing /\ w \in Write /\ Reported(w)
  BY DEF HearSuccess, ConsoleInv, TypeOK, WritesType, Reported
<1>2. WriteOK(w)
  BY <1>1 DEF ConsoleInv, WritesOK
<1>3. s \in Heard /\ HeardOK(w)
  BY <1>1, <1>2 DEF WriteOK, Reported, Heard, ConsoleInv, HeardInv
<1>4. w.op # "notice"
  BY <1>1, <1>2 DEF WriteOK, Reported
<1>5. w.at \in Nat /\ w.things \subseteq Reach(w) /\ w.things \subseteq Thing
  BY <1>1, <1>2 DEF WriteOK, Write
<1>6. \A t \in w.things : w.at > confirmed[t]
  <2>1. \A t \in Thing : confirmed[t] \in Nat
    BY DEF ConsoleInv, TypeOK, ServerType
  <2> QED BY <1>1, <1>2, <1>5, <2>1 DEF WriteOK
<1>7. confirmed' = [t \in Thing |-> IF t \in w.things THEN w.at ELSE confirmed[t]]
  <2>1. confirmed' = [t \in Thing |-> IF t \in w.things /\ w.at > confirmed[t] THEN w.at
                                                                            ELSE confirmed[t]]
    BY DEF HearSuccess
  <2> QED BY <1>6, <2>1
<1>8. UNCHANGED <<content, page>>
  BY DEF HearSuccess
<1>9. CASE page = "gallery" /\ w.op = "image"
  BY <1>1, <1>2, <1>3, <1>5, <1>7, <1>8, <1>9 DEF HearSuccess, editor, HeardOK
<1>10. CASE page = "urls" /\ w.op # "base"
  <2>1. w.op \in {"banner", "all"}
    BY <1>3, <1>10 DEF HeardOK
  <2>2. Await(s, "list") /\ UNCHANGED <<shown, editor>>
    BY <1>10 DEF HearSuccess
  <2> QED BY <1>1, <1>2, <1>3, <1>5, <1>7, <1>8, <1>10, <2>1, <2>2 DEF editor
<1>11. CASE w.op = "base"
  <2>1. page \in {"gallery", "urls"}
    BY <1>3, <1>11 DEF HeardOK
  <2>2. Await(s, "base") /\ UNCHANGED <<shown, editor>>
    BY <1>11 DEF HearSuccess
  <2> QED BY <1>1, <1>2, <1>3, <1>5, <1>7, <1>8, <1>11, <2>1, <2>2 DEF editor
<1>12. CASE /\ ~(page = "gallery" /\ w.op = "image") /\ ~(page = "urls" /\ w.op # "base")
            /\ w.op # "base"
  <2>1. page = "editor" /\ w.op = "image" /\ w.file /\ w.cid = target /\ target # Nothing
    BY <1>3, <1>4, <1>12 DEF HeardOK
  <2>2. Finish(s) /\ saved' = w.at /\ UNCHANGED <<loaders, target>>
    BY <1>12 DEF HearSuccess, loaders
  <2> QED BY <1>1, <1>2, <1>3, <1>5, <1>7, <1>8, <2>1, <2>2
<1> QED BY <1>9, <1>10, <1>11, <1>12

\* The kinds of changes touch different things.
LEMMA ReachOf ==
  ASSUME NEW w
  PROVE  /\ w.op = "base" => Reach(w) = {Base}
         /\ w.op = "image" => Reach(w) = {Image(w.cid)}
         /\ w.op = "image" /\ w.cid \in Channel => Reach(w) \subseteq Images
         /\ w.op = "banner" /\ w.cid \in Channel => Reach(w) \subseteq Banners
         /\ w.op = "all" => Reach(w) = Banners
BY DEF Reach, Images, Banners

-----------------------------------------------------------------------------
(* Types *)

LEMMA ServerStep ==
  ASSUME ConsoleInv, [Next]_vars
  PROVE  /\ ServerType' /\ Newest'
         /\ \A t \in Thing : content[t].at <= content'[t].at
         /\ \A t \in Thing : confirmed[t] <= confirmed'[t]
<1> DEFINE Goal == /\ ServerType' /\ Newest'
                   /\ \A t \in Thing : content[t].at <= content'[t].at
                   /\ \A t \in Thing : confirmed[t] <= confirmed'[t]
<1>1. /\ content \in [Thing -> Version] /\ confirmed \in [Thing -> Nat]
      /\ \A t \in Thing : content[t].at \in Nat /\ confirmed[t] \in Nat
  BY DEF ConsoleInv, TypeOK, ServerType, Version
<1>2. CASE UNCHANGED <<content, confirmed>>
  BY <1>1, <1>2 DEF ConsoleInv, TypeOK, ServerType, Newest
<1>3. ASSUME NEW s \in Slot, HearSuccess(s) PROVE Goal
  <2>1. PICK w : w = writes[s]
    OBVIOUS
  <2>2. /\ content' = content /\ w.at \in Nat /\ w \in Write /\ WriteOK(w) /\ Reported(w)
        /\ confirmed' = [t \in Thing |-> IF t \in w.things THEN w.at ELSE confirmed[t]]
    BY <1>3, <2>1, HearCases
  <2>3. \A t \in w.things : confirmed[t] < w.at
    BY <2>2 DEF WriteOK
  <2>4. confirmed' \in [Thing -> Nat] /\ \A t \in Thing : confirmed[t] <= confirmed'[t]
    BY <1>1, <2>2, <2>3
  <2> QED BY <1>1, <2>2, <2>4 DEF ConsoleInv, ServerType, Newest
<1>4. ASSUME NEW s \in Slot, NEW result \in {"forbidden", "failure", "success"},
             NEW things \in SUBSET Thing, Answers(s, result, things)
      PROVE  Goal
  <2>1. confirmed' = confirmed
    BY <1>4 DEF Answers
  <2>2. CASE content' = content
    BY <1>2, <2>1, <2>2
  <2>3. CASE content' = [t \in Thing |-> IF t \in things
                           THEN [at |-> Now, there |-> writes[s].file] ELSE content[t]]
    <3>1. Now \in Nat /\ \A t \in Thing : content[t].at < Now
      BY NowIsNewest DEF ConsoleInv, TypeOK
    <3>2. [at |-> Now, there |-> writes[s].file] \in Version
      BY <1>4, <3>1 DEF Answers, ConsoleInv, TypeOK, WritesType, Write, Version
    <3>3. content' \in [Thing -> Version]
      BY <1>1, <2>3, <3>2
    <3>4. \A t \in Thing : content'[t].at = IF t \in things THEN Now ELSE content[t].at
      BY <2>3
    <3>5. \A t \in Thing : content[t].at <= content'[t].at
      BY <1>1, <3>1, <3>4
    <3>6. Newest'
      <4>1. CASE things = {}
        BY <3>4, <4>1 DEF ConsoleInv, Newest
      <4>2. CASE things # {}
        <5>1. PICK n \in things : TRUE
          BY <4>2
        <5>2. \A t \in Thing : content'[t].at <= content'[n].at
          BY <1>1, <3>1, <3>4, <5>1
        <5> QED BY <5>1, <5>2 DEF Newest
      <4> QED BY <4>1, <4>2
    <3> QED BY <1>1, <2>1, <3>3, <3>5, <3>6 DEF ServerType
  <2> QED BY <1>4, <2>2, <2>3 DEF Answers
<1>5. ASSUME NEW s \in Slot, Presses(s) PROVE UNCHANGED <<content, confirmed>>
  BY <1>5 DEF Presses, ChangeImage, UploadBase, Apply, Upload
<1>6. ASSUME NEW s \in Slot, Serve(s) PROVE Goal
  BY <1>4, <1>6, ServeFacts DEF ConsoleInv
<1>7. ASSUME NEW s \in Slot, Drop(s) \/ HearFailure(s) \/ GoOn(s)
      PROVE  UNCHANGED <<content, confirmed>>
  BY <1>7 DEF Drop, HearFailure, GoOn
<1>8. ASSUME NEW l \in Loader, PressRefresh(l) \/ AnswerLoad(l) \/ ReceiveLoad(l) \/ FailLoad(l)
      PROVE  UNCHANGED <<content, confirmed>>
  BY <1>8 DEF PressRefresh, AnswerLoad, ReceiveLoad, FailLoad
<1> QED
  BY <1>2, <1>3, <1>5, <1>6, <1>7, <1>8, NextSteps, SelectStill DEF Still, Mounts

LEMMA SessionStep ==
  ASSUME TypeOK, [Next]_vars
  PROVE  SessionType'
<1>1. CASE UNCHANGED session
  BY <1>1 DEF session, SessionType, TypeOK
<1>2. CASE Signing
  BY <1>2 DEF Signing, SignIn, Refresh, SessionEnds, Logout, Login, Return, AccountChanges, Refreshed,
              LoginAgain, account, SessionType, TypeOK
<1>3. ASSUME (\E p \in Page \cup {"none"} : Open(p)) \/ Loading \/ Writing PROVE UNCHANGED session
  BY <1>3 DEF Open, Loading, PressRefresh, AnswerLoad, ReceiveLoad, FailLoad, Writing, ChangeImage,
              Apply, UploadBase, Upload, Serve, Drop, HearSuccess, HearFailure, GoOn
<1>4. ASSUME Editing PROVE UNCHANGED session
  BY <1>4 DEF Editing, SelectFile, LoadUrl, ReadDone, ReadFails, Decode, Resize, Initialize,
              DecodeFails, Ready, SelectChannel, outside
<1> QED BY <1>1, <1>2, <1>3, <1>4 DEF Next, vars

LEMMA PageStep ==
  ASSUME ConsoleInv, [Next]_vars
  PROVE  PageType'
<1>1. PageType
  BY DEF ConsoleInv, TypeOK
<1>2. ASSUME NEW s \in Slot, HearSuccess(s) PROVE UNCHANGED <<page, target>>
  <2>1. PICK w : w = writes[s]
    OBVIOUS
  <2> QED BY <1>2, <2>1, HearCases
<1>3. ASSUME NEW s \in Slot, Presses(s) PROVE UNCHANGED <<page, target>>
  BY <1>3 DEF Presses, ChangeImage, UploadBase, Apply, Upload, editor
<1>4. ASSUME NEW s \in Slot, Serve(s) \/ Drop(s) \/ HearFailure(s) \/ GoOn(s)
      PROVE  UNCHANGED <<page, target>>
  BY <1>4 DEF Serve, Drop, HearFailure, GoOn, editor
<1>5. ASSUME NEW l \in Loader, PressRefresh(l) \/ AnswerLoad(l) \/ ReceiveLoad(l) \/ FailLoad(l)
      PROVE  UNCHANGED <<page, target>>
  BY <1>5 DEF PressRefresh, AnswerLoad, ReceiveLoad, FailLoad, editor
<1>6. CASE Mounts
  BY <1>6 DEF Mounts, Mount, PageType
<1>7. ASSUME NEW c \in Channel \cup {Nothing}, SelectChannel(c) PROVE PageType'
  BY <1>1, <1>7, SelectStill DEF Still, PageType
<1>8. CASE UNCHANGED <<page, target>>
  BY <1>1, <1>8 DEF PageType
<1> QED
  BY <1>2, <1>3, <1>4, <1>5, <1>6, <1>7, <1>8, NextSteps DEF Still

LEMMA ReloadType ==
  ASSUME LoadersType, NEW l \in Loader, Reload(l)
  PROVE  /\ loading' \in [Loader -> BOOLEAN] /\ failed' \in [Loader -> BOOLEAN]
         /\ DOMAIN body' = Loader
         /\ \A k \in Loader : body'[k] # Nothing => body'[k] \in Body(k, page)
         /\ loading'[l] /\ \A k \in Loader : k # l => loading'[k] = loading[k] /\ failed'[k] = failed[k]
         /\ body'[l] # Nothing => ~body'[l].live
         /\ \A k \in Loader : k # l => body'[k] = body[k]
<1>1. /\ loading' = [loading EXCEPT ![l] = TRUE] /\ failed' = [failed EXCEPT ![l] = FALSE]
      /\ body' = [body EXCEPT ![l] = Aborted(body[l])]
  BY DEF Reload
<1>2. /\ loading' \in [Loader -> BOOLEAN] /\ failed' \in [Loader -> BOOLEAN]
      /\ DOMAIN body' = Loader
      /\ loading'[l] /\ \A k \in Loader : k # l => loading'[k] = loading[k] /\ failed'[k] = failed[k]
      /\ \A k \in Loader : k # l => body'[k] = body[k]
      /\ body'[l] = Aborted(body[l])
  BY <1>1 DEF LoadersType
<1>3. CASE body[l] = Nothing
  BY <1>2, <1>3 DEF LoadersType, Aborted
<1>4. CASE body[l] # Nothing
  <2>1. body[l] \in Body(l, page)
    BY <1>4 DEF LoadersType
  <2>2. PICK b \in Body(l, page) : b = body[l]
    BY <2>1
  <2>3. body'[l] = [b EXCEPT !.live = FALSE]
    BY <1>2, <1>4, <2>2 DEF Aborted
  <2>4. [b EXCEPT !.live = FALSE] \in Body(l, page) /\ ~[b EXCEPT !.live = FALSE].live
    BY DEF Body
  <2> QED BY <1>2, <2>3, <2>4 DEF LoadersType
<1> QED BY <1>3, <1>4

LEMMA PatchType ==
  ASSUME LoadersType, NEW w \in Write, page = "gallery", shown["list"] # Nothing, Patch(w)
  PROVE  /\ DOMAIN shown' = Loader /\ shown'["base"] = shown["base"]
         /\ shown["list"] \in [Images -> Version] /\ shown'["list"] \in [Images -> Version]
         /\ shown'["list"] = [t \in Images |-> IF t \in w.things
              THEN [at |-> w.at, there |-> w.file] ELSE shown["list"][t]]
         /\ shown'["list"] # Nothing
<1>1. DOMAIN shown' = Loader /\ shown'["base"] = shown["base"]
  BY DEF Patch, LoadersType, Loader
<1>2. shown["list"] \in [Images -> Version]
  BY LoadsOf DEF LoadersType, Loader
<1>3. shown'["list"] = [t \in Images |-> IF t \in w.things
                          THEN [at |-> w.at, there |-> w.file] ELSE shown["list"][t]]
  BY <1>2 DEF Patch, LoadersType, Loader
<1>4. [at |-> w.at, there |-> w.file] \in Version
  BY DEF Version, Write
<1>5. shown'["list"] \in [Images -> Version]
  BY <1>2, <1>3, <1>4
<1>6. Nothing \notin [Images -> Version]
  BY ConsoleAssumption, LoadsOf DEF Loader, Page
<1> QED BY <1>1, <1>2, <1>3, <1>5, <1>6

LEMMA LoadersStep ==
  ASSUME ConsoleInv, [Next]_vars
  PROVE  LoadersType'
<1>1. LoadersType /\ content \in [Thing -> Version]
  BY DEF ConsoleInv, TypeOK, ServerType
<1>2. CASE UNCHANGED <<page, loading, body, shown>> /\ failed' \in [Loader -> BOOLEAN]
  BY <1>1, <1>2 DEF LoadersType
<1>3. ASSUME NEW l \in Loader, Reload(l), UNCHANGED <<page, shown>> PROVE LoadersType'
  BY <1>1, <1>3, ReloadType DEF LoadersType
<1>4. CASE Mounts
  BY <1>4 DEF Mounts, Mount, LoadersType
<1>5. ASSUME NEW l \in Loader, AnswerLoad(l) PROVE LoadersType'
  <2>1. UNCHANGED <<page, loading, failed, shown>>
    BY <1>5 DEF AnswerLoad
  <2>2. PICK seen : seen = [t \in Loads(l, page) |-> content[t]]
    OBVIOUS
  <2>3. seen \in [Loads(l, page) -> Version]
    BY <1>1, <2>2, LoadsOf
  <2>4. PICK b : b = [live |-> TRUE, seen |-> seen]
    OBVIOUS
  <2>5. b \in Body(l, page)
    BY <2>3, <2>4 DEF Body
  <2>6. body' = [body EXCEPT ![l] = b]
    BY <1>5, <2>2, <2>4 DEF AnswerLoad
  <2>7. DOMAIN body' = Loader /\ \A k \in Loader : body'[k] # Nothing => body'[k] \in Body(k, page)
    BY <1>1, <2>5, <2>6 DEF LoadersType
  <2> QED BY <1>1, <2>1, <2>7 DEF LoadersType
<1>6. ASSUME NEW l \in Loader, ReceiveLoad(l) PROVE LoadersType'
  <2>1. /\ UNCHANGED <<page, failed>> /\ body[l] # Nothing
        /\ body' = [body EXCEPT ![l] = Nothing] /\ TakeBody(l)
    BY <1>6 DEF ReceiveLoad
  <2>2. body[l].seen \in [Loads(l, page) -> Version]
    BY <1>1, <2>1 DEF LoadersType, Body
  <2>3. CASE Live(l)
    BY <1>1, <2>1, <2>2, <2>3 DEF TakeBody, LoadersType
  <2>4. CASE ~Live(l)
    BY <1>1, <2>1, <2>4 DEF TakeBody, LoadersType
  <2> QED BY <2>3, <2>4
<1>7. ASSUME NEW l \in Loader, FailLoad(l) PROVE LoadersType'
  <2>1. /\ UNCHANGED <<page, shown>> /\ loading' = [loading EXCEPT ![l] = FALSE]
        /\ failed' = [failed EXCEPT ![l] = TRUE]
        /\ body' = [body EXCEPT ![l] = IF Live(l) THEN Nothing ELSE body[l]]
    BY <1>7 DEF FailLoad
  <2> QED BY <1>1, <2>1 DEF LoadersType
<1>8. ASSUME NEW s \in Slot, HearSuccess(s) PROVE LoadersType'
  <2>1. PICK w : w = writes[s]
    OBVIOUS
  <2>2. page' = page /\ w \in Write /\ w.at \in Nat
    BY <1>8, <2>1, HearCases
  <2>3. CASE page = "gallery" /\ w.op = "image" /\ shown["list"] # Nothing /\ Patch(w) /\ Await(s, "list")
    <3>1. /\ DOMAIN shown' = Loader /\ shown'["base"] = shown["base"]
          /\ shown'["list"] \in [Loads("list", page) -> Version]
      BY <1>1, <2>2, <2>3, PatchType, LoadsOf
    <3>6. \A l \in Loader : shown'[l] # Nothing => shown'[l] \in [Loads(l, page) -> Version]
      BY <1>1, <3>1 DEF LoadersType, Loader
    <3> QED BY <1>1, <2>2, <2>3, <3>1, <3>6, ReloadType DEF LoadersType, Await, Loader
  <2>4. CASE \E l \in Loader : Await(s, l) /\ shown' = shown
    BY <1>3, <2>2, <2>4 DEF Await
  <2>5. CASE UNCHANGED loaders
    BY <1>1, <1>2, <2>2, <2>5 DEF loaders, LoadersType
  <2> QED BY <1>8, <2>1, <2>3, <2>4, <2>5, HearCases DEF Loader
<1>9. ASSUME NEW s \in Slot, GoOn(s) PROVE LoadersType'
  BY <1>1, <1>2, <1>3, <1>9 DEF GoOn, Loader, LoadersType
<1>10. ASSUME NEW s \in Slot, HearFailure(s) PROVE LoadersType'
  BY <1>1, <1>2, <1>10 DEF HearFailure, LoadersType
<1>11. ASSUME NEW s \in Slot, NEW w \in Write, NewWrite(s, w) PROVE LoadersType'
  BY <1>1, <1>2, <1>11 DEF NewWrite, LoadersType
<1>12. ASSUME UNCHANGED <<page, loaders>> PROVE LoadersType'
  BY <1>1, <1>2, <1>12 DEF loaders, LoadersType
<1>13. ASSUME NEW l \in Loader, PressRefresh(l) PROVE LoadersType'
  BY <1>3, <1>13 DEF PressRefresh
<1> QED
  BY <1>4, <1>5, <1>6, <1>7, <1>8, <1>9, <1>10, <1>11, <1>12, <1>13, NextSteps, SelectStill, PressFacts
  DEF Still, Serve, Drop, ConsoleInv

LEMMA ErrorStep ==
  ASSUME ConsoleInv, [Next]_vars
  PROVE  ErrorType'
<1>1. fileError \in BOOLEAN
  BY DEF ConsoleInv, TypeOK, ErrorType
<1>2. ASSUME NEW s \in Slot, HearFailure(s) PROVE fileError' \in BOOLEAN
  BY <1>1, <1>2 DEF HearFailure
<1>3. ASSUME NEW s \in Slot, Serve(s) \/ Drop(s) \/ GoOn(s) \/ HearSuccess(s)
      PROVE  fileError' = fileError
  BY <1>3 DEF Serve, Drop, GoOn, HearSuccess, loaders
<1>4. ASSUME NEW l \in Loader, PressRefresh(l) \/ AnswerLoad(l) \/ ReceiveLoad(l) \/ FailLoad(l)
      PROVE  fileError' = fileError
  BY <1>4 DEF PressRefresh, AnswerLoad, ReceiveLoad, FailLoad
<1>5. ASSUME NEW s \in Slot, Presses(s) PROVE fileError' \in BOOLEAN
  BY <1>1, <1>5, PressFacts DEF NewWrite, ConsoleInv
<1>6. ASSUME Mounts PROVE fileError' \in BOOLEAN
  BY <1>6 DEF Mounts, Mount
<1>7. ASSUME Still PROVE fileError' = fileError
  BY <1>7 DEF Still, loaders
<1> QED
  BY <1>1, <1>2, <1>3, <1>4, <1>5, <1>6, <1>7, NextSteps, SelectStill DEF ErrorType

LEMMA EditorStep ==
  ASSUME ConsoleInv, [Next]_vars
  PROVE  EditorType'
<1>1. EditorType
  BY DEF ConsoleInv, TypeOK
<1>2. ASSUME UNCHANGED editor PROVE EditorType'
  BY <1>1, <1>2 DEF editor, EditorType
<1>3. ASSUME NEW p, Mount(p) PROVE EditorType'
  BY <1>3 DEF Mount, EditorType
<1>4. CASE Editing
  <2>0. Choose => choice' \in Nat /\ reads' \in SUBSET Nat
    BY <1>1 DEF Choose, EditorType
  <2>1. CASE SelectFile \/ LoadUrl
    <3>1. CASE SelectFile
      BY <1>1, <2>0, <3>1 DEF SelectFile, Outdated, EditorType
    <3>2. CASE LoadUrl
      BY <1>1, <2>0, <3>2 DEF LoadUrl, EditorType
    <3> QED BY <2>1, <3>1, <3>2
  <2>2. CASE \E r \in reads : ReadDone(r) \/ ReadFails(r)
    <3>1. ASSUME NEW r \in reads, ReadDone(r) PROVE EditorType'
      <4>1. CASE r = choice
        <5>1. /\ reads' = reads \ {r} /\ source' = r /\ crop' = 0 /\ starting' = Outdated
              /\ ready' = FALSE /\ UNCHANGED <<loadingImage, choice, saved>>
          BY <3>1, <4>1 DEF ReadDone, Frame
        <5>2. r \in Nat /\ reads \ {r} \in SUBSET Nat
          BY <1>1, <3>1 DEF EditorType
        <5>3. Outdated \in SUBSET {"current", "old"}
          BY DEF Outdated
        <5> QED BY <1>1, <5>1, <5>2, <5>3 DEF EditorType
      <4>2. CASE r # choice
        BY <1>1, <3>1, <4>2 DEF ReadDone, Frame, EditorType
      <4> QED BY <4>1, <4>2
    <3>2. ASSUME NEW r \in reads, ReadFails(r) PROVE EditorType'
      BY <1>1, <3>2 DEF ReadFails, EditorType
    <3> QED BY <2>2, <3>1, <3>2
  <2>3. CASE Initialize \/ DecodeFails
    BY <1>1, <2>3 DEF Initialize, DecodeFails, Outdated, EditorType
  <2>4. CASE \E g \in starting : Ready(g)
    BY <1>1, <2>4 DEF Ready, CropperReady, EditorType
  <2>5. CASE \E c \in Channel \cup {Nothing} : SelectChannel(c)
    BY <1>1, <2>5 DEF SelectChannel, Select, EditorType
  <2> QED BY <1>4, <2>1, <2>2, <2>3, <2>4, <2>5 DEF Editing, Decode, Resize
<1>5. ASSUME NEW s \in Slot, HearSuccess(s) PROVE EditorType'
  <2>1. UNCHANGED editor \/ (saved' = writes[s].at
        /\ UNCHANGED <<choice, reads, source, crop, starting, ready, loadingImage>>)
    BY <1>5 DEF HearSuccess
  <2>2. writes[s].at \in Nat
    BY <1>5 DEF HearSuccess, ConsoleInv, TypeOK, WritesType, Write
  <2> QED BY <1>1, <1>2, <2>1, <2>2 DEF EditorType
<1>6. ASSUME NEW s \in Slot, Presses(s) \/ Serve(s) \/ Drop(s) \/ HearFailure(s) \/ GoOn(s)
      PROVE  UNCHANGED editor
  BY <1>6 DEF Presses, ChangeImage, UploadBase, Apply, Upload, Serve, Drop, HearFailure, GoOn
<1>7. ASSUME Loading PROVE UNCHANGED editor
  BY <1>7 DEF Loading, PressRefresh, AnswerLoad, ReceiveLoad, FailLoad
<1>8. ASSUME Writing PROVE EditorType'
  BY <1>2, <1>5, <1>6, <1>8 DEF Writing, Presses
<1>9. ASSUME Signing PROVE EditorType'
  BY <1>2, <1>3, <1>9 DEF Signing, SignIn, Refresh, SessionEnds, Logout
<1>10. ASSUME NEW p \in Page \cup {"none"}, Open(p) PROVE EditorType'
  BY <1>3, <1>10 DEF Open
<1>11. ASSUME UNCHANGED vars PROVE UNCHANGED editor
  BY <1>11 DEF vars
<1> QED BY <1>2, <1>4, <1>7, <1>8, <1>9, <1>10, <1>11 DEF Next

LEMMA TypeStep == ASSUME ConsoleInv, [Next]_vars PROVE TypeOK'
BY SessionStep, ServerStep, WritesTypeStep, PageStep, LoadersStep, ErrorStep, EditorStep DEF ConsoleInv, TypeOK

-----------------------------------------------------------------------------
(* The writes are in order *)

\* What a write reports stays true while it continues.
LEMMA ContinuesOK ==
  ASSUME ConsoleInv, [Next]_vars, NEW s \in Slot, Continues(s), writes'[s] # Nothing,
         NEW v, v = writes'[s],
         \A t \in Thing : Reported(v) /\ t \in v.things => confirmed'[t] = confirmed[t]
  PROVE  WriteOK(v)'
<1>1. PICK w : w = writes[s]
  OBVIOUS
<1>3. w # Nothing /\ v \in Write /\ Later(v, w)
  BY <1>1 DEF Continues
<1>4. w \in Write /\ WriteOK(w)
  BY <1>1, <1>3 DEF ConsoleInv, TypeOK, WritesType, WritesOK
<1>5. /\ v.op \in {"image", "banner"} => v.cid \in Channel
      /\ v.op \in {"banner", "all"} => v.from = "urls"
      /\ v.stage # "token" => v.heard
      /\ v.op = "notice" => v.stage \notin {"token", "answered"}
      /\ v.result = "forbidden" => ~MayOpen(v.from, v.roles)
  BY <1>3, <1>4 DEF WriteOK, Later
<1>6. ASSUME Reported(v)
      PROVE  /\ v.things \subseteq Reach(v)
             /\ v.op = "image" /\ v.file => v.things = {Image(v.cid)}
             /\ \A t \in v.things : confirmed'[t] < v.at /\ v.at <= content'[t].at
  <2>1. Reported(w) /\ v.op = w.op /\ v.cid = w.cid /\ v.file = w.file /\ v.things = w.things
        /\ v.at = w.at
    BY <1>3, <1>6 DEF Later, Reported
  <2>2. /\ w.things \subseteq Reach(w)
        /\ w.op = "image" /\ w.file => w.things = {Image(w.cid)}
        /\ \A t \in w.things : confirmed[t] < w.at /\ w.at <= content[t].at
    BY <1>4, <2>1 DEF WriteOK
  <2>3. v.things \subseteq Reach(v)
    BY <2>1, <2>2 DEF Reach
  <2>4. ASSUME NEW t \in v.things PROVE confirmed'[t] < v.at /\ v.at <= content'[t].at
    <3>1. t \in Thing /\ w.at \in Nat
      BY <1>4, <2>1, <2>4 DEF Write
    <3>2. confirmed'[t] = confirmed[t]
      BY <1>6, <2>4, <3>1
    <3>3. content[t].at <= content'[t].at
      BY <3>1, ServerStep
    <3>4. content[t].at \in Nat /\ content'[t].at \in Nat
      BY <3>1, ServerStep DEF ConsoleInv, TypeOK, ServerType, Version
    <3> QED BY <2>1, <2>2, <2>4, <3>1, <3>2, <3>3, <3>4
  <2> QED BY <2>1, <2>2, <2>3, <2>4
<1>7. Reported(v)' <=> Reported(v)
  BY DEF Reported
<1> QED BY <1>5, <1>6, <1>7 DEF WriteOK

\* Only a success that is heard is reported.
LEMMA ConfirmedSteps ==
  ASSUME [Next]_vars
  PROVE  confirmed' = confirmed \/ \E s \in Slot : HearSuccess(s)
<1>1. ASSUME NEW s \in Slot, Presses(s) \/ Serve(s) \/ Drop(s) \/ HearFailure(s) \/ GoOn(s)
      PROVE  confirmed' = confirmed
  BY <1>1 DEF Presses, ChangeImage, UploadBase, Apply, Upload, Serve, Drop, HearFailure, GoOn
<1>2. ASSUME NEW l \in Loader, PressRefresh(l) \/ AnswerLoad(l) \/ ReceiveLoad(l) \/ FailLoad(l)
      PROVE  confirmed' = confirmed
  BY <1>2 DEF PressRefresh, AnswerLoad, ReceiveLoad, FailLoad
<1> QED BY <1>1, <1>2, NextSteps, SelectStill DEF Still, Mounts

LEMMA Disjoint ==
  ASSUME ConsoleInv, NEW r \in Heard, NEW s \in Heard, r # s,
         Reported(writes[r]), Reported(writes[s])
  PROVE  writes[r].things \cap writes[s].things = {}
<1>1. PICK v \in Write : v = writes[r]
  BY DEF Heard, ConsoleInv, TypeOK, WritesType
<1>2. PICK w \in Write : w = writes[s]
  BY DEF Heard, ConsoleInv, TypeOK, WritesType
<1>3. /\ WriteOK(v) /\ WriteOK(w) /\ Reported(v) /\ Reported(w) /\ ~Clash(v, w)
  BY <1>1, <1>2 DEF Heard, ConsoleInv, WritesOK, Locked
<1>4. /\ v.things \subseteq Reach(v) /\ w.things \subseteq Reach(w)
      /\ v.op \in {"image", "base", "banner", "all"} /\ w.op \in {"image", "base", "banner", "all"}
      /\ v.op \in {"image", "banner"} => v.cid \in Channel
      /\ w.op \in {"image", "banner"} => w.cid \in Channel
  BY <1>3 DEF WriteOK, Reported, Write
<1>5. Reach(v) \cap Reach(w) = {}
  <2>1. CASE v.op = "base"
    <3>1. w.op # "base"
      BY <1>3, <2>1 DEF Clash
    <3> QED BY <1>4, <2>1, <3>1, ReachOf, Things
  <2>2. CASE v.op = "image"
    <3>1. w.op # "image" \/ v.cid # w.cid
      BY <1>3, <2>2 DEF Clash
    <3>2. CASE w.op = "image"
      BY <2>2, <3>1, <3>2, ReachOf, Things
    <3>3. CASE w.op # "image"
      BY <1>4, <2>2, <3>3, ReachOf, Things
    <3> QED BY <3>2, <3>3
  <2>3. CASE v.op \in {"banner", "all"}
    <3>1. w.op \notin {"banner", "all"}
      BY <1>3, <2>3 DEF Clash
    <3> QED BY <1>4, <2>3, <3>1, ReachOf, Things
  <2> QED BY <1>4, <2>1, <2>2, <2>3
<1> QED BY <1>1, <1>2, <1>4, <1>5

\* The one that is heard has been reported, and is not reported again.
LEMMA HeardOnce ==
  ASSUME ConsoleInv, NEW s \in Slot, HearSuccess(s), writes'[s] # Nothing
  PROVE  writes'[s].stage \in {"list", "base"}
<1>1. PICK w \in Write : w = writes[s]
  BY HearCases
<1>2. ASSUME NEW l \in Loader, Await(s, l) PROVE writes'[s].stage = l
  <2>1. writes' = [Awake(l) EXCEPT ![s] = [w EXCEPT !.stage = l]] /\ DOMAIN Awake(l) = Slot
    BY <1>1, <1>2 DEF Await, Awake
  <2> QED BY <2>1 DEF Write
<1>3. ASSUME Finish(s) PROVE writes'[s] = Nothing
  BY <1>3 DEF Finish, ConsoleInv, TypeOK, WritesType
<1> QED BY <1>1, <1>2, <1>3, HearCases DEF Loader

LEMMA WritesOKStep ==
  ASSUME ConsoleInv, [Next]_vars
  PROVE  WritesOK'
<1> DEFINE Good(s) == \A v : v = writes'[s] /\ v # Nothing => WriteOK(v)'
<1>1. ASSUME \A s \in Slot : Good(s) PROVE WritesOK'
  BY <1>1 DEF WritesOK, WriteOK
<1>2. ASSUME NEW s \in Slot, Continues(s) PROVE Good(s)
  <2>1. SUFFICES ASSUME NEW v, v = writes'[s], v # Nothing PROVE WriteOK(v)'
    OBVIOUS
  <2>2. CASE confirmed' = confirmed
    BY <1>2, <2>1, <2>2, ContinuesOK
  <2>3. CASE \E h \in Slot : HearSuccess(h)
    <3>1. PICK h \in Slot : HearSuccess(h)
      BY <2>3
    <3>2. PICK w : w = writes[h]
      OBVIOUS
    <3>3. /\ h \in Heard /\ Reported(w)
          /\ confirmed' = [t \in Thing |-> IF t \in w.things THEN w.at ELSE confirmed[t]]
      BY <3>1, <3>2, HearCases
    <3>4. ASSUME NEW t \in Thing, Reported(v), t \in v.things PROVE confirmed'[t] = confirmed[t]
      <4>1. s # h
        BY <2>1, <3>1, <3>4, HeardOnce DEF Reported
      <4>2. writes[s] # Nothing /\ Reported(writes[s]) /\ v.things = writes[s].things
        BY <1>2, <2>1, <3>4 DEF Continues, Later, Reported
      <4>3. s \in Heard
        BY <4>2 DEF ConsoleInv, WritesOK, WriteOK, Reported, Heard
      <4>4. t \notin w.things
        BY <3>2, <3>3, <3>4, <4>1, <4>2, <4>3, Disjoint
      <4> QED BY <3>3, <4>4
    <3> QED BY <1>2, <2>1, <3>4, ContinuesOK
  <2> QED BY <2>2, <2>3, ConfirmedSteps
<1>3. ASSUME NEW r \in Slot, writes'[r] = writes[r] PROVE Continues(r)
  BY <1>3, SameLater DEF Continues, ConsoleInv, TypeOK, WritesType
<1>4. ASSUME NEW s \in Slot, NEW w \in Write, NewWrite(s, w) PROVE \A r \in Slot : Good(r)
  <2>1. writes'[s] = w /\ \A r \in Slot : r # s => writes'[r] = writes[r]
    BY <1>4 DEF NewWrite, ConsoleInv, TypeOK, WritesType
  <2>2. WriteOK(w)'
    BY <1>4 DEF NewWrite, WriteOK, Reported
  <2> QED BY <1>2, <1>3, <2>1, <2>2
<1>5. ASSUME NEW s \in Slot, NEW result \in {"forbidden", "failure", "success"},
             NEW things \in SUBSET Thing, Answers(s, result, things)
      PROVE  \A r \in Slot : Good(r)
  <2>1. \A r \in Slot : r # s => Good(r)
    BY <1>2, <1>3, <1>5, AnswerOf DEF ConsoleInv
  <2>2. ASSUME NEW v, v = writes'[s], v # Nothing PROVE WriteOK(v)'
    <3>1. PICK w \in Write : w = writes[s] /\ w # Nothing /\ w.stage = "token"
      BY <1>5 DEF Answers, ConsoleInv, TypeOK, WritesType
    <3>2. WriteOK(w)
      BY <3>1 DEF ConsoleInv, WritesOK
    <3>3. /\ v.op = w.op /\ v.cid = w.cid /\ v.file = w.file /\ v.from = w.from
          /\ v.stage = "answered" /\ v.heard /\ v.roles = roles
          /\ v.result = result /\ v.at = Now /\ v.things = things
      BY <1>5, <2>2, <3>1, AnswerOf DEF ConsoleInv
    <3>4. w.op \in {"image", "base", "banner", "all"}
      BY <3>1, <3>2 DEF WriteOK, Write
    <3>5. result = "forbidden" => ~MayOpen(w.from, roles)
      <4>1. result = "forbidden" => ~Served(w.op, roles)
        BY <1>5, <3>1 DEF Answers
      <4>2. w.op \in {"banner", "all"} => w.from = "urls"
        BY <3>2 DEF WriteOK
      <4> QED BY <3>4, <4>1, <4>2, RefusedRole DEF MayOpen
    <3>6. ASSUME result = "success"
          PROVE  /\ things \subseteq Reach(w)
                 /\ w.op = "image" /\ w.file => things = {Image(w.cid)}
                 /\ \A t \in things : confirmed'[t] < Now /\ Now <= content'[t].at
      <4>1. things \in Changed(w) /\ confirmed' = confirmed
        BY <1>5, <3>1, <3>6 DEF Answers
      <4>2. /\ things \subseteq Reach(w)
            /\ w.op = "image" /\ w.file => things = {Image(w.cid)}
        BY <3>4, <4>1 DEF Changed, Reach
      <4>3. Now \in Nat /\ \A t \in Thing : content[t].at \in Nat /\ content[t].at < Now
        BY NowIsNewest DEF ConsoleInv, TypeOK
      <4>4. \A t \in things : content'[t].at = Now
        BY <1>5, <3>1, <3>6 DEF Answers
      <4>5. \A t \in Thing : confirmed[t] \in Nat /\ confirmed[t] <= content[t].at
        BY DEF ConsoleInv, TypeOK, ServerType, ConfirmedIsThere
      <4> QED BY <4>1, <4>2, <4>3, <4>4, <4>5
    <3>7. Reach(v) = Reach(w)
      BY <3>3 DEF Reach
    <3>8. Reported(v)' <=> Reported(v)
      BY DEF Reported
    <3>9. v.op \in {"image", "banner"} => v.cid \in Channel
      BY <3>2, <3>3 DEF WriteOK
    <3>10. v.op \in {"banner", "all"} => v.from = "urls"
      BY <3>2, <3>3 DEF WriteOK
    <3>11. Reported(v) => result = "success"
      BY <3>3 DEF Reported
    <3>12. v.result = "forbidden" => ~MayOpen(v.from, v.roles)
      BY <3>3, <3>5
    <3> HIDE DEF Good
    <3> QED BY <3>3, <3>4, <3>6, <3>7, <3>8, <3>9, <3>10, <3>11, <3>12 DEF WriteOK
  <2> QED BY <2>1, <2>2
<1> HIDE DEF Good
<1> QED BY <1>1, <1>2, <1>4, <1>5, WriteSteps DEF ConsoleInv

-----------------------------------------------------------------------------
(* Who is heard *)

\* Unless another page is mounted, the page keeps its list, and its channel while
\* anyone there is uploading.
LEMMA PageKept ==
  ASSUME ConsoleInv, [Next]_vars
  PROVE  \/ Mounts
         \/ /\ page' = page
            /\ page = "gallery" /\ shown["list"] # Nothing => shown'["list"] # Nothing
            /\ target' = target \/ (page = "editor" /\ ~Uploading)
<1> DEFINE Goal == /\ page' = page
                   /\ page = "gallery" /\ shown["list"] # Nothing => shown'["list"] # Nothing
                   /\ target' = target \/ (page = "editor" /\ ~Uploading)
<1>1. LoadersType
  BY DEF ConsoleInv, TypeOK
<1>2. CASE UNCHANGED <<page, shown, target>>
  BY <1>2
<1>3. ASSUME NEW c, SelectChannel(c) PROVE Goal
  BY <1>3, SelectStill DEF Still, loaders
<1>4. ASSUME NEW l \in Loader, PressRefresh(l) \/ AnswerLoad(l) \/ FailLoad(l)
      PROVE  UNCHANGED <<page, shown, target>>
  BY <1>4 DEF PressRefresh, AnswerLoad, FailLoad, editor
<1>5. ASSUME NEW l \in Loader, ReceiveLoad(l) PROVE Goal
  <2>1. UNCHANGED <<page, target>> /\ TakeBody(l) /\ body[l] # Nothing
    BY <1>5 DEF ReceiveLoad, editor
  <2>2. CASE Live(l) /\ l = "list" /\ page = "gallery"
    <3>1. body["list"].seen \in [Loads("list", "gallery") -> Version]
      BY <1>1, <2>1, <2>2 DEF LoadersType, Body, Loader
    <3>2. shown'["list"] # Nothing
      BY <1>1, <2>1, <2>2, <3>1, ConsoleAssumption DEF TakeBody, LoadersType, Loader, Page
    <3> QED BY <2>1, <3>2
  <2>3. CASE Live(l) /\ l # "list"
    BY <1>1, <2>1, <2>3 DEF TakeBody, LoadersType, Loader
  <2>4. CASE ~Live(l)
    BY <2>1, <2>4 DEF TakeBody
  <2> QED BY <2>1, <2>2, <2>3, <2>4
<1>6. ASSUME NEW s \in Slot, Presses(s) PROVE UNCHANGED <<page, shown, target>>
  BY <1>6 DEF Presses, ChangeImage, UploadBase, Apply, Upload, loaders, editor
<1>7. ASSUME NEW s \in Slot, Serve(s) \/ Drop(s) \/ HearFailure(s) \/ GoOn(s)
      PROVE  UNCHANGED <<page, shown, target>>
  BY <1>7 DEF Serve, Drop, HearFailure, GoOn, loaders, editor
<1>8. ASSUME NEW s \in Slot, HearSuccess(s) PROVE Goal
  <2>1. PICK w : w = writes[s]
    OBVIOUS
  <2>2. UNCHANGED <<page, target>> /\ w \in Write
    BY <1>8, <2>1, HearCases
  <2>3. CASE page = "gallery" /\ shown["list"] # Nothing /\ Patch(w)
    BY <1>1, <2>2, <2>3, PatchType
  <2>4. CASE shown' = shown
    BY <2>2, <2>4
  <2> QED BY <1>8, <2>1, <2>3, <2>4, HearCases DEF loaders
<1> HIDE DEF Goal
<1>9. Still /\ UNCHANGED <<target, saved>> => UNCHANGED <<page, shown, target>>
  BY DEF Still, loaders
<1>10. Mounts \/ Goal
  BY <1>3, <1>4, <1>5, <1>6, <1>7, <1>8, <1>9, NextSteps, <1>2 DEF Goal
<1> QED BY <1>10 DEF Goal

LEMMA HeardStep ==
  ASSUME ConsoleInv, [Next]_vars
  PROVE  HeardInv'
<1> DEFINE Good(s) == \A v : v = writes'[s] /\ v # Nothing /\ v.heard => HeardOK(v)'
<1>1. ASSUME \A s \in Slot : Good(s) PROVE HeardInv'
  BY <1>1 DEF HeardInv, HeardOK, Heard
<1>2. CASE Mounts
  <2>1. ASSUME NEW s \in Slot, writes'[s] # Nothing PROVE ~writes'[s].heard
    <3>1. writes[s] # Nothing /\ writes'[s] = [writes[s] EXCEPT !.heard = FALSE]
      BY <1>2, <2>1 DEF Mounts, Mount
    <3> QED BY <3>1 DEF ConsoleInv, TypeOK, WritesType, Write
  <2> QED BY <1>1, <2>1
<1>3. CASE ~Mounts
  <2>1. /\ page' = page
        /\ page = "gallery" /\ shown["list"] # Nothing => shown'["list"] # Nothing
        /\ target' = target \/ (page = "editor" /\ ~Uploading)
    BY <1>3, PageKept
  <2>2. ASSUME NEW s \in Slot, Continues(s) PROVE Good(s)
    <3>1. SUFFICES ASSUME NEW v, v = writes'[s], v # Nothing, v.heard PROVE HeardOK(v)'
      OBVIOUS
    <3>2. PICK w : w = writes[s]
      OBVIOUS
    <3>3. w # Nothing /\ Later(v, w) /\ w.heard
      BY <2>2, <3>1, <3>2 DEF Continues, Later
    <3>4. s \in Heard /\ HeardOK(w)
      BY <3>2, <3>3 DEF Heard, ConsoleInv, HeardInv
    <3>5. page = "editor" => target' = target
      BY <2>1, <3>2, <3>4 DEF Uploading, HeardOK
    <3> QED BY <2>1, <3>3, <3>4, <3>5 DEF HeardOK, Later
  <2>3. ASSUME NEW r \in Slot, writes'[r] = writes[r] PROVE Continues(r)
    BY <2>3, SameLater DEF Continues, ConsoleInv, TypeOK, WritesType
  <2>4. ASSUME NEW s \in Slot, NEW w \in Write, NewWrite(s, w) PROVE \A r \in Slot : Good(r)
    <3>1. writes'[s] = w /\ \A r \in Slot : r # s => writes'[r] = writes[r]
      BY <2>4 DEF NewWrite, ConsoleInv, TypeOK, WritesType
    <3>2. HeardOK(w)'
      BY <2>4 DEF NewWrite, HeardOK
    <3> QED BY <2>2, <2>3, <3>1, <3>2
  <2>5. ASSUME NEW s \in Slot, NEW result \in {"forbidden", "failure", "success"},
               NEW things \in SUBSET Thing, Answers(s, result, things)
        PROVE  \A r \in Slot : Good(r)
    <3>1. \A r \in Slot : r # s => Good(r)
      BY <2>2, <2>3, <2>5, AnswerOf DEF ConsoleInv
    <3>2. ASSUME NEW v, v = writes'[s], v # Nothing, v.heard PROVE HeardOK(v)'
      <4>1. PICK w : w = writes[s]
        OBVIOUS
      <4>2. v.op = w.op /\ v.cid = w.cid /\ v.file = w.file /\ w # Nothing /\ w.heard
        BY <2>5, <3>2, <4>1, AnswerOf DEF ConsoleInv
      <4>3. HeardOK(w)
        BY <4>1, <4>2 DEF Heard, ConsoleInv, HeardInv
      <4>4. UNCHANGED <<page, shown, target>>
        BY <2>5 DEF Answers, loaders
      <4> QED BY <4>2, <4>3, <4>4 DEF HeardOK
    <3> QED BY <3>1, <3>2
  <2> HIDE DEF Good
  <2> QED BY <1>1, <2>2, <2>4, <2>5, WriteSteps DEF ConsoleInv
<1> QED BY <1>2, <1>3

LEMMA LockedStep ==
  ASSUME ConsoleInv, [Next]_vars
  PROVE  Locked'
<1> DEFINE Apart(r, s) == \A v, w : /\ v = writes'[r] /\ v # Nothing /\ v.heard
                                    /\ w = writes'[s] /\ w # Nothing /\ w.heard
                                    => ~Clash(v, w)
<1>1. ASSUME \A r, s \in Slot : r # s => Apart(r, s) PROVE Locked'
  BY <1>1 DEF Locked, Heard, Clash
<1>2. ASSUME NEW r \in Slot, NEW s \in Slot, r # s, Continues(r), Continues(s) PROVE Apart(r, s)
  <2>1. SUFFICES ASSUME NEW v, NEW w, v = writes'[r], v # Nothing, v.heard,
                        w = writes'[s], w # Nothing, w.heard
                 PROVE  ~Clash(v, w)
    OBVIOUS
  <2>2. /\ writes[r] # Nothing /\ Later(v, writes[r]) /\ writes[r].heard
        /\ writes[s] # Nothing /\ Later(w, writes[s]) /\ writes[s].heard
    BY <1>2, <2>1 DEF Continues, Later
  <2>3. ~Clash(writes[r], writes[s])
    BY <1>2, <2>2 DEF Heard, ConsoleInv, Locked
  <2> QED BY <2>2, <2>3 DEF Clash, Later
<1>3. ASSUME NEW r \in Slot, writes'[r] = writes[r] PROVE Continues(r)
  BY <1>3, SameLater DEF Continues, ConsoleInv, TypeOK, WritesType
<1>4. ASSUME NEW s \in Slot, NEW w \in Write, NewWrite(s, w)
      PROVE  \A q, r \in Slot : q # r => Apart(q, r)
  <2>1. writes'[s] = w /\ \A r \in Slot : r # s => writes'[r] = writes[r]
    BY <1>4 DEF NewWrite, ConsoleInv, TypeOK, WritesType
  <2>2. ASSUME NEW r \in Slot, r # s, writes[r] # Nothing, writes[r].heard
        PROVE  ~Clash(writes[r], w) /\ ~Clash(w, writes[r])
    <3>1. r \in Heard /\ HeardOK(writes[r])
      BY <2>2 DEF Heard, ConsoleInv, HeardInv
    <3> QED BY <1>4, <3>1 DEF NewWrite, Busy, Clash
  <2> QED BY <1>2, <1>3, <2>1, <2>2
<1>5. ASSUME NEW s \in Slot, NEW result \in {"forbidden", "failure", "success"},
             NEW things \in SUBSET Thing, Answers(s, result, things)
      PROVE  \A q, r \in Slot : q # r => Apart(q, r)
  <2>1. SUFFICES ASSUME NEW q \in Slot, NEW r \in Slot, q # r, NEW v, NEW w,
                        v = writes'[q], v # Nothing, v.heard,
                        w = writes'[r], w # Nothing, w.heard
                 PROVE  ~Clash(v, w)
    OBVIOUS
  <2>2. /\ writes[q] # Nothing /\ v.op = writes[q].op /\ v.cid = writes[q].cid /\ writes[q].heard
        /\ writes[r] # Nothing /\ w.op = writes[r].op /\ w.cid = writes[r].cid /\ writes[r].heard
    <3>1. ASSUME NEW k \in Slot, NEW u, u = writes'[k], u # Nothing, u.heard
          PROVE  writes[k] # Nothing /\ u.op = writes[k].op /\ u.cid = writes[k].cid /\ writes[k].heard
      <4>1. CASE k = s
        BY <1>5, <3>1, <4>1, AnswerOf DEF ConsoleInv
      <4>2. CASE k # s
        BY <1>5, <3>1, <4>2, AnswerOf DEF ConsoleInv
      <4> QED BY <4>1, <4>2
    <3> QED BY <2>1, <3>1
  <2>3. ~Clash(writes[q], writes[r])
    BY <2>1, <2>2 DEF Heard, ConsoleInv, Locked
  <2> QED BY <2>2, <2>3 DEF Clash
<1> HIDE DEF Apart
<1> QED BY <1>1, <1>2, <1>4, <1>5, WriteSteps DEF ConsoleInv

LEMMA ConfirmedThereStep ==
  ASSUME ConsoleInv, [Next]_vars
  PROVE  ConfirmedIsThere'
<1>1. /\ \A t \in Thing : confirmed[t] \in Nat /\ content[t].at \in Nat /\ content'[t].at \in Nat
      /\ \A t \in Thing : confirmed[t] <= content[t].at /\ content[t].at <= content'[t].at
  BY ServerStep DEF ConsoleInv, TypeOK, ServerType, Version, ConfirmedIsThere
<1>2. CASE confirmed' = confirmed
  BY <1>1, <1>2 DEF ConfirmedIsThere
<1>3. ASSUME NEW s \in Slot, HearSuccess(s) PROVE ConfirmedIsThere'
  <2>1. PICK w : w = writes[s]
    OBVIOUS
  <2>2. /\ content' = content /\ w.at \in Nat /\ WriteOK(w) /\ Reported(w)
        /\ confirmed' = [t \in Thing |-> IF t \in w.things THEN w.at ELSE confirmed[t]]
    BY <1>3, <2>1, HearCases
  <2>3. \A t \in w.things : w.at <= content[t].at
    BY <2>2 DEF WriteOK
  <2> QED BY <1>1, <2>2, <2>3 DEF ConfirmedIsThere
<1> QED BY <1>2, <1>3, ConfirmedSteps

-----------------------------------------------------------------------------
(* The lists are current *)

\* What is reported is not among the things that another list is about.
LEMMA OtherThings ==
  ASSUME ConsoleInv, NEW s \in Slot, HearSuccess(s), NEW l \in Loader,
         IF writes[s].op = "base" THEN l = "list" ELSE l = "base"
  PROVE  \A t \in Loads(l, page) : confirmed'[t] = confirmed[t]
<1>1. PICK w : w = writes[s]
  OBVIOUS
<1>2. /\ w.op \in {"image", "base", "banner", "all"} /\ w.things \subseteq Reach(w)
      /\ w.op \in {"image", "banner"} => w.cid \in Channel
      /\ confirmed' = [t \in Thing |-> IF t \in w.things THEN w.at ELSE confirmed[t]]
  BY <1>1, HearCases DEF WriteOK
<1>3. Loads(l, page) \subseteq Thing
  BY LoadsOf
<1>4. Loads(l, page) \cap Reach(w) = {}
  <2>1. CASE w.op = "base"
    BY <1>1, <2>1, ReachOf, LoadsOf, Things
  <2>2. CASE w.op # "base"
    BY <1>1, <1>2, <2>2, ReachOf, LoadsOf, Things
  <2> QED BY <2>1, <2>2
<1> QED BY <1>2, <1>3, <1>4

LEMMA BodiesStep ==
  ASSUME ConsoleInv, [Next]_vars
  PROVE  BodiesCurrent'
<1> DEFINE Good(l) == \A b : page' # "editor" /\ b = body'[l] /\ b # Nothing /\ b.live
                             => Current(b.seen)'
<1>1. ASSUME \A l \in Loader : Good(l) PROVE BodiesCurrent'
  BY <1>1 DEF BodiesCurrent, Live, Current
<1>2. LoadersType
  BY DEF ConsoleInv, TypeOK
<1>3. ASSUME NEW l \in Loader, page' = page, body'[l] = body[l],
             page # "editor" => \A t \in Loads(l, page) : confirmed'[t] = confirmed[t]
      PROVE  Good(l)
  <2>1. SUFFICES ASSUME NEW b, page' # "editor", b = body'[l], b # Nothing, b.live
                 PROVE  Current(b.seen)'
    OBVIOUS
  <2>2. DOMAIN b.seen = Loads(l, page)
    BY <1>2, <1>3, <2>1 DEF LoadersType, Body
  <2>3. Current(b.seen)
    BY <1>3, <2>1 DEF ConsoleInv, BodiesCurrent, Live
  <2> QED BY <1>3, <2>1, <2>2, <2>3 DEF Current
<1>4. ASSUME UNCHANGED <<page, body, confirmed>> PROVE \A l \in Loader : Good(l)
  BY <1>3, <1>4
<1>5. ASSUME NEW l \in Loader, Reload(l) PROVE Good(l)
  BY <1>2, <1>5, ReloadType
<1>6. ASSUME NEW l \in Loader, Reload(l), UNCHANGED <<page, confirmed>>
      PROVE  \A k \in Loader : Good(k)
  <2>1. \A k \in Loader : k # l => body'[k] = body[k]
    BY <1>2, <1>6, ReloadType
  <2> QED BY <1>3, <1>5, <1>6, <2>1
<1>7. ASSUME Mounts PROVE \A l \in Loader : Good(l)
  BY <1>7 DEF Mounts, Mount
<1>8. ASSUME NEW l \in Loader, AnswerLoad(l) PROVE \A k \in Loader : Good(k)
  <2>1. /\ UNCHANGED <<page, confirmed>>
        /\ body' = [body EXCEPT ![l] = [live |-> TRUE, seen |-> [t \in Loads(l, page) |-> content[t]]]]
    BY <1>8 DEF AnswerLoad
  <2>2. \A k \in Loader : k # l => Good(k)
    BY <1>2, <1>3, <2>1 DEF LoadersType
  <2>3. ASSUME NEW b, b = body'[l] PROVE Current(b.seen)'
    <3>1. b.seen = [t \in Loads(l, page) |-> content[t]]
      BY <1>2, <2>1, <2>3 DEF LoadersType
    <3>2. \A t \in Loads(l, page) : content[t].at >= confirmed[t]
      BY LoadsOf DEF ConsoleInv, ConfirmedIsThere, TypeOK, ServerType, Version
    <3> QED BY <2>1, <3>1, <3>2 DEF Current
  <2> QED BY <2>2, <2>3
<1>9. ASSUME NEW l \in Loader, ReceiveLoad(l) \/ FailLoad(l) PROVE \A k \in Loader : Good(k)
  <2>1. /\ UNCHANGED <<page, confirmed>>
        /\ body'[l] \in {Nothing, body[l]} /\ \A k \in Loader : k # l => body'[k] = body[k]
    BY <1>2, <1>9 DEF ReceiveLoad, FailLoad, LoadersType
  <2>2. \A k \in Loader : body'[k] = body[k] => Good(k)
    BY <1>3, <2>1
  <2>3. \A k \in Loader : body'[k] = Nothing => Good(k)
    OBVIOUS
  <2> HIDE DEF Good
  <2> QED BY <2>1, <2>2, <2>3
<1>10. ASSUME NEW s \in Slot, HearSuccess(s) PROVE \A k \in Loader : Good(k)
  <2>1. PICK w : w = writes[s]
    OBVIOUS
  <2>2. page' = page
    BY <1>10 DEF HearSuccess
  <2>3. ASSUME NEW l \in Loader, Await(s, l), NEW k \in Loader, k # l,
               IF w.op = "base" THEN k = "list" ELSE k = "base"
        PROVE  Good(k)
    <3>1. body'[k] = body[k]
      BY <1>2, <2>3, ReloadType DEF Await
    <3>2. \A t \in Loads(k, page) : confirmed'[t] = confirmed[t]
      BY <1>10, <2>1, <2>3, OtherThings
    <3> QED BY <1>3, <2>2, <3>1, <3>2
  <2>4. CASE page = "editor"
    BY <2>2, <2>4
  <2>5. CASE w.op = "base" /\ Await(s, "base")
    BY <1>5, <2>3, <2>5 DEF Await, Loader
  <2>6. CASE w.op # "base" /\ Await(s, "list")
    BY <1>5, <2>3, <2>6 DEF Await, Loader
  <2> HIDE DEF Good
  <2> QED BY <1>10, <2>1, <2>4, <2>5, <2>6, HearCases
<1>11. ASSUME NEW s \in Slot, Presses(s) \/ Serve(s) \/ Drop(s) \/ HearFailure(s)
       PROVE  UNCHANGED <<page, body, confirmed>>
  BY <1>11 DEF Presses, ChangeImage, UploadBase, Apply, Upload, Serve, Drop, HearFailure, loaders
<1>12. ASSUME NEW s \in Slot, GoOn(s) PROVE \A k \in Loader : Good(k)
  <2>1. UNCHANGED <<page, confirmed>> /\ (Reload("list") \/ body' = body)
    BY <1>12 DEF GoOn
  <2> HIDE DEF Good
  <2> QED BY <1>4, <1>6, <2>1 DEF Loader
<1>13. ASSUME NEW l \in Loader, PressRefresh(l) PROVE \A k \in Loader : Good(k)
  BY <1>6, <1>13 DEF PressRefresh
<1> HIDE DEF Good
<1>14. ASSUME Still PROVE UNCHANGED <<page, body, confirmed>>
  BY <1>14 DEF Still, loaders
<1> QED
  BY <1>1, <1>4, <1>7, <1>8, <1>9, <1>10, <1>11, <1>12, <1>13, <1>14, NextSteps, SelectStill

\* A change that is being sent stays so until it is heard.
LEMMA PendingKept ==
  ASSUME \A r \in Slot :
           /\ writes[r] # Nothing /\ writes[r].heard
           /\ writes[r].op \in {"base", "banner", "all"}
           /\ writes[r].stage \in {"token", "answered"}
           => writes'[r] = writes[r]
  PROVE  SendingKept
<1>1. SUFFICES ASSUME NEW l \in Loader, Sending(l) PROVE Sending(l)'
  BY DEF SendingKept
<1>2. PICK r \in Slot :
        /\ writes[r] # Nothing /\ writes[r].heard
        /\ writes[r].op \in (IF l = "base" THEN {"base"} ELSE {"banner", "all"})
        /\ writes[r].stage \in {"token", "answered"}
  BY <1>1 DEF Sending, Heard
<1>3. writes'[r] = writes[r]
  BY <1>2
<1> QED BY <1>2, <1>3 DEF Sending, Heard

LEMMA AwakeKeeps ==
  ASSUME WritesType, NEW l \in Loader, NEW r \in Slot,
         writes[r] # Nothing, writes[r].stage \in {"token", "answered"}
  PROVE  DOMAIN Awake(l) = Slot /\ Awake(l)[r] = writes[r]
BY DEF Awake, Loader

\* What becomes of a list that stays as it is.
Stays(l) ==
  /\ page' = page /\ shown'[l] = shown[l]
  /\ page # "editor" => \A t \in Loads(l, page) : confirmed'[t] = confirmed[t]
  /\ page # "editor" /\ Unsettled(l) => Unsettled(l)'

Shows(l) == \A v : page' # "editor" /\ v = shown'[l] /\ v # Nothing => Current(v)' \/ Unsettled(l)'

LEMMA StaysShown ==
  ASSUME ConsoleInv, NEW l \in Loader, Stays(l)
  PROVE  Shows(l)
<1>1. SUFFICES ASSUME NEW v, page' # "editor", v = shown'[l], v # Nothing
               PROVE  Current(v)' \/ Unsettled(l)'
  BY DEF Shows
<1>2. DOMAIN v = Loads(l, page)
  BY <1>1 DEF Stays, ConsoleInv, TypeOK, LoadersType
<1>3. Current(v) \/ Unsettled(l)
  BY <1>1 DEF Stays, ConsoleInv, ShownCurrent
<1> QED BY <1>1, <1>2, <1>3 DEF Stays, Current

\* A step that is not heard about changes the lists in these ways.
LEMMA QuietStep ==
  ASSUME ConsoleInv, NEW l \in Loader, UNCHANGED <<page, confirmed>>, shown'[l] = shown[l],
         loading'[l] = loading[l] \/ loading'[l] \/ (page = "gallery" /\ l = "list"),
         failed'[l] = failed[l] \/ loading'[l] \/ (page = "gallery" /\ l = "list"),
         l = "base" => fileError' = fileError, Sending(l) => Sending(l)'
  PROVE  Stays(l)
BY DEF Stays, Unsettled

LEMMA ShownStep ==
  ASSUME ConsoleInv, [Next]_vars
  PROVE  ShownCurrent'
<1> DEFINE Goal == \A l \in Loader : Shows(l)
<1>1. ASSUME Goal PROVE ShownCurrent'
  BY <1>1 DEF ShownCurrent, Shows, Current, Unsettled, Sending, Heard
<1>2. /\ LoadersType /\ WritesType
      /\ loading \in [Loader -> BOOLEAN] /\ failed \in [Loader -> BOOLEAN]
      /\ DOMAIN shown = Loader /\ DOMAIN writes = Slot
  BY DEF ConsoleInv, TypeOK, LoadersType, WritesType
<1>3. ASSUME UNCHANGED <<page, confirmed, shown, loading, failed, fileError>>, SendingKept PROVE Goal
  BY <1>3, QuietStep, StaysShown DEF SendingKept
<1>4. ASSUME writes' = writes PROVE SendingKept
  BY <1>4 DEF SendingKept, Sending, Heard
<1>5. ASSUME NEW l \in Loader, writes' = Awake(l) PROVE SendingKept
  BY <1>2, <1>5, AwakeKeeps, PendingKept
<1>6. CASE Still
  BY <1>1, <1>3, <1>4, <1>6 DEF Still, loaders
<1>7. ASSUME Mounts PROVE Goal
  BY <1>7 DEF Mounts, Mount, Shows
<1>8. ASSUME NEW l \in Loader, PressRefresh(l) PROVE Goal
  <2>1. UNCHANGED <<page, shown, fileError, confirmed>> /\ Reload(l) /\ writes' = Awake(l)
    BY <1>8 DEF PressRefresh
  <2>2. \A k \in Loader : loading'[k] \/ (loading'[k] = loading[k] /\ failed'[k] = failed[k])
    BY <1>2, <2>1, ReloadType
  <2>3. SendingKept
    BY <1>5, <2>1
  <2> QED BY <2>1, <2>2, <2>3, QuietStep, StaysShown DEF SendingKept
<1>9. ASSUME NEW l \in Loader, AnswerLoad(l) PROVE Goal
  BY <1>3, <1>4, <1>9 DEF AnswerLoad
<1>10. ASSUME NEW l \in Loader, ReceiveLoad(l) PROVE Goal
  <2>1. UNCHANGED <<page, failed, fileError, confirmed>> /\ TakeBody(l) /\ body[l] # Nothing
    BY <1>10 DEF ReceiveLoad
  <2>2. CASE Live(l)
    <3>1. /\ shown' = [shown EXCEPT ![l] = body[l].seen] /\ loading' = [loading EXCEPT ![l] = FALSE]
          /\ writes' = Awake(l)
      BY <2>1, <2>2 DEF TakeBody
    <3>2. SendingKept
      BY <1>5, <3>1
    <3>3. \A k \in Loader : k # l => shown'[k] = shown[k] /\ loading'[k] = loading[k]
      BY <1>2, <3>1
    <3>4. \A k \in Loader : k # l => Shows(k)
      BY <2>1, <3>2, <3>3, QuietStep, StaysShown DEF SendingKept
    <3>5. page # "editor" => Current(body[l].seen)
      BY <2>2 DEF ConsoleInv, BodiesCurrent
    <3>6. shown'[l] = body[l].seen
      BY <1>2, <3>1
    <3>7. Shows(l)
      BY <2>1, <3>5, <3>6 DEF Shows, Current
    <3> QED BY <3>4, <3>7
  <2>3. CASE ~Live(l)
    BY <1>3, <1>4, <2>1, <2>3 DEF TakeBody
  <2> QED BY <2>2, <2>3
<1>11. ASSUME NEW l \in Loader, FailLoad(l) PROVE Goal
  <2>1. /\ UNCHANGED <<page, shown, fileError, confirmed>> /\ writes' = Awake(l)
        /\ loading' = [loading EXCEPT ![l] = FALSE] /\ failed' = [failed EXCEPT ![l] = TRUE]
    BY <1>11 DEF FailLoad
  <2>2. SendingKept
    BY <1>5, <2>1
  <2>3. failed'[l] /\ \A k \in Loader : k # l => loading'[k] = loading[k] /\ failed'[k] = failed[k]
    BY <1>2, <2>1
  <2>4. \A k \in Loader : k # l => Shows(k)
    BY <2>1, <2>2, <2>3, QuietStep, StaysShown DEF SendingKept
  <2>5. CASE page = "gallery" /\ l = "list"
    BY <2>1, <2>2, <2>4, <2>5, QuietStep, StaysShown DEF SendingKept
  <2>6. CASE ~(page = "gallery" /\ l = "list")
    BY <2>1, <2>3, <2>4, <2>6 DEF Shows, Unsettled
  <2> QED BY <2>5, <2>6
<1>12. ASSUME NEW s \in Slot, Presses(s) PROVE Goal
  <2>1. PICK w \in Write : NewWrite(s, w)
    BY <1>12, PressFacts DEF ConsoleInv
  <2>2. /\ UNCHANGED <<page, loading, shown, confirmed>>
        /\ writes[s] = Nothing /\ writes' = [writes EXCEPT ![s] = w]
        /\ w.heard /\ w.stage = "token"
    BY <2>1 DEF NewWrite
  <2>3. SendingKept
    BY <1>2, <2>2, PendingKept
  <2>4. CASE UNCHANGED <<failed, fileError>>
    BY <1>3, <2>2, <2>3, <2>4
  <2>5. writes'[s] = w /\ w # Nothing
    BY <1>2, <2>2, ConsoleAssumption
  <2>6. CASE /\ w.op \in {"banner", "all"}
             /\ failed' = [failed EXCEPT !["list"] = FALSE] /\ fileError' = fileError
    <3>1. failed'["base"] = failed["base"]
      BY <1>2, <2>6 DEF Loader
    <3>2. Shows("base")
      BY <2>2, <2>3, <2>6, <3>1, QuietStep, StaysShown DEF Loader, SendingKept
    <3>3. Sending("list")'
      BY <2>2, <2>5, <2>6 DEF Sending, Heard
    <3>4. page = "urls"
      BY <2>1, <2>6 DEF NewWrite
    <3>5. Shows("list")
      BY <2>2, <3>3, <3>4 DEF Shows, Unsettled
    <3> QED BY <3>2, <3>5 DEF Loader
  <2>7. CASE w.op = "base" /\ failed' = [failed EXCEPT !["base"] = FALSE] /\ fileError' = FALSE
    <3>1. failed'["list"] = failed["list"]
      BY <1>2, <2>7 DEF Loader
    <3>2. Shows("list")
      BY <2>2, <2>3, <3>1, QuietStep, StaysShown DEF Loader, SendingKept
    <3>3. Sending("base")'
      BY <2>2, <2>5, <2>7 DEF Sending, Heard
    <3>4. Shows("base")
      BY <2>2, <3>3 DEF Shows, Unsettled
    <3> QED BY <3>2, <3>4 DEF Loader
  <2> QED BY <2>1, <2>4, <2>6, <2>7 DEF NewWrite
<1>13. ASSUME NEW s \in Slot, Serve(s) PROVE Goal
  <2>1. PICK result \in {"forbidden", "failure", "success"}, things \in SUBSET Thing :
          Answers(s, result, things)
    BY <1>13, ServeFacts DEF ConsoleInv
  <2>2. UNCHANGED <<page, loading, failed, fileError, shown, confirmed>>
    BY <2>1 DEF Answers, loaders
  <2>3. SendingKept
    <3>1. SUFFICES ASSUME NEW l \in Loader, Sending(l) PROVE Sending(l)'
      BY DEF SendingKept
    <3> DEFINE Sent(w) == /\ w.op \in (IF l = "base" THEN {"base"} ELSE {"banner", "all"})
                          /\ w.stage \in {"token", "answered"}
    <3>2. PICK r \in Slot : writes[r] # Nothing /\ writes[r].heard /\ Sent(writes[r])
      BY <3>1 DEF Sending, Heard
    <3>3. CASE r # s
      <4>1. writes'[r] = writes[r]
        BY <1>2, <2>1, <3>3 DEF Answers
      <4>2. writes'[r] # Nothing /\ writes'[r].heard /\ Sent(writes'[r])
        BY <3>2, <4>1
      <4> QED BY <4>2 DEF Sending, Heard
    <3>4. CASE r = s
      <4>1. writes'[s] # Nothing
        <5>1. PICK w \in Write : w = writes[s] /\ w.heard
          BY <1>2, <3>2, <3>4 DEF WritesType
        <5>2. writes'[s] = [w EXCEPT !.stage = "answered", !.roles = roles, !.result = result,
                                    !.at = Now, !.things = things]
          BY <1>2, <2>1, <5>1 DEF Answers
        <5>3. Now \in Nat /\ roles \in SUBSET {Admin, Editor}
          BY NowIsNewest DEF ConsoleInv, TypeOK, SessionType
        <5>4. writes'[s] \in Write
          BY <5>2, <5>3 DEF Write
        <5> QED BY <5>4, ConsoleAssumption
      <4>2. writes'[s].heard /\ writes'[s].op = writes[s].op /\ writes'[s].stage = "answered"
        BY <2>1, <4>1, AnswerOf DEF ConsoleInv
      <4>3. Sent(writes'[s])
        BY <3>2, <3>4, <4>2
      <4> QED BY <4>1, <4>2, <4>3 DEF Sending, Heard
    <3> QED BY <3>3, <3>4
  <2> QED BY <1>3, <2>2, <2>3
<1>14. ASSUME NEW s \in Slot, Drop(s) PROVE Goal
  <2>1. /\ UNCHANGED <<page, loading, failed, fileError, shown, confirmed>> /\ ~writes[s].heard
        /\ writes' = [writes EXCEPT ![s] = Nothing]
    BY <1>14 DEF Drop, loaders
  <2>2. SendingKept
    BY <1>2, <2>1, PendingKept
  <2> QED BY <1>3, <2>1, <2>2
<1>15. ASSUME NEW s \in Slot, GoOn(s) PROVE Goal
  <2>1. UNCHANGED <<page, shown, fileError, confirmed>> /\ writes[s].stage = "awake"
    BY <1>15 DEF GoOn
  <2>2. CASE writes[s].op = "base" /\ page = "gallery"
    <3>1. /\ Reload("list")
          /\ writes' = [Awake("list") EXCEPT ![s] = [writes[s] EXCEPT !.stage = "list", !.op = "notice"]]
      BY <1>15, <2>2 DEF GoOn
    <3>2. SendingKept
      BY <1>2, <2>1, <3>1, AwakeKeeps, PendingKept DEF Loader
    <3>3. \A k \in Loader : loading'[k] \/ (loading'[k] = loading[k] /\ failed'[k] = failed[k])
      BY <1>2, <3>1, ReloadType DEF Loader
    <3> QED BY <2>1, <3>2, <3>3, QuietStep, StaysShown DEF SendingKept
  <2>3. CASE ~(writes[s].op = "base" /\ page = "gallery")
    <3>1. UNCHANGED <<loading, failed>> /\ writes' = [writes EXCEPT ![s] = Nothing]
      BY <1>15, <2>3 DEF GoOn, Finish
    <3>2. SendingKept
      BY <1>2, <2>1, <3>1, PendingKept
    <3> QED BY <1>3, <2>1, <3>1, <3>2
  <2> QED BY <2>2, <2>3
<1>16. ASSUME NEW s \in Slot, HearFailure(s) PROVE Goal
  <2>1. /\ UNCHANGED <<page, loading, shown, confirmed>> /\ s \in Heard
        /\ \A r \in Slot : r # s => writes'[r] = writes[r]
    BY <1>2, <1>16 DEF HearFailure
  <2>2. HeardOK(writes[s])
    BY <2>1 DEF ConsoleInv, HeardInv
  <2>3. ASSUME NEW l \in Loader, UNCHANGED fileError \/ l = "list", failed'[l] = failed[l],
               writes[s].op \notin (IF l = "base" THEN {"base"} ELSE {"banner", "all"})
        PROVE  Shows(l)
    <3>1. Sending(l) => Sending(l)'
      <4>1. SUFFICES ASSUME Sending(l) PROVE Sending(l)'
        OBVIOUS
      <4>2. PICK r \in Slot :
              /\ writes[r] # Nothing /\ writes[r].heard
              /\ writes[r].op \in (IF l = "base" THEN {"base"} ELSE {"banner", "all"})
              /\ writes[r].stage \in {"token", "answered"}
        BY <4>1 DEF Sending, Heard
      <4>3. writes'[r] = writes[r]
        BY <2>1, <2>3, <4>2
      <4> QED BY <4>2, <4>3 DEF Sending, Heard
    <3> QED BY <2>1, <2>3, <3>1, QuietStep, StaysShown
  <2>4. ASSUME NEW l \in Loader, failed'[l] \/ (l = "base" /\ fileError')
        PROVE  (page = "gallery" /\ l = "list") \/ Shows(l)
    BY <2>1, <2>4 DEF Shows, Unsettled
  <2>5. CASE writes[s].op = "base"
    <3>1. PICK ofFile \in BOOLEAN :
            failed' = [failed EXCEPT !["base"] = failed["base"] \/ ~ofFile] /\ fileError' = ofFile
      BY <1>16, <2>5 DEF HearFailure
    <3>2. failed'["list"] = failed["list"] /\ (failed'["base"] \/ fileError')
      BY <1>2, <3>1 DEF Loader
    <3>3. Shows("list")
      BY <2>3, <2>5, <3>2 DEF Loader
    <3>4. Shows("base")
      BY <2>4, <3>2 DEF Loader
    <3> QED BY <3>3, <3>4 DEF Loader
  <2>6. CASE writes[s].op # "base"
    <3>1. /\ failed' = [failed EXCEPT !["list"] = failed["list"] \/ page = "urls"]
          /\ fileError' = fileError
      BY <1>16, <2>6 DEF HearFailure
    <3>2. failed'["base"] = failed["base"]
      BY <1>2, <3>1 DEF Loader
    <3>3. Shows("base")
      BY <2>3, <2>6, <3>1, <3>2 DEF Loader
    <3>4. CASE page = "urls"
      <4>1. failed'["list"]
        BY <1>2, <3>1, <3>4 DEF Loader
      <4>2. Shows("list")
        BY <2>4, <3>4, <4>1 DEF Loader
      <4> QED BY <3>3, <4>2 DEF Loader
    <3>5. CASE page # "urls"
      <4>1. failed'["list"] = failed["list"]
        BY <1>2, <3>1, <3>5 DEF Loader
      <4>2. writes[s].op \notin {"banner", "all"}
        BY <2>2, <3>5 DEF HeardOK
      <4>3. Shows("list")
        BY <2>3, <4>1, <4>2 DEF Loader
      <4> QED BY <3>3, <4>3 DEF Loader
    <3> QED BY <3>4, <3>5
  <2> QED BY <2>5, <2>6
<1>17. ASSUME NEW s \in Slot, HearSuccess(s) PROVE Goal
  <2>0. fileError' = fileError
    BY <1>17 DEF HearSuccess
  <2>1. PICK w : w = writes[s]
    OBVIOUS
  <2>2. /\ page' = page /\ Reported(w) /\ w \in Write /\ w.at \in Nat /\ WriteOK(w)
        /\ confirmed' = [t \in Thing |-> IF t \in w.things THEN w.at ELSE confirmed[t]]
    BY <1>17, <2>1, HearCases
  <2>3. ASSUME NEW l \in Loader, Await(s, l)
        PROVE  /\ loading'[l] /\ \A k \in Loader : k # l => loading'[k] = loading[k] /\ failed'[k] = failed[k]
               /\ \A k \in Loader :
                    writes[s].op \notin (IF k = "base" THEN {"base"} ELSE {"banner", "all"})
                      => (Sending(k) => Sending(k)')
    <3>1. Reload(l) /\ writes' = [Awake(l) EXCEPT ![s] = [writes[s] EXCEPT !.stage = l]]
      BY <2>3 DEF Await
    <3>2. ASSUME NEW k \in Loader, Sending(k),
                 writes[s].op \notin (IF k = "base" THEN {"base"} ELSE {"banner", "all"})
          PROVE  Sending(k)'
      <4>1. PICK r \in Slot :
              /\ writes[r] # Nothing /\ writes[r].heard
              /\ writes[r].op \in (IF k = "base" THEN {"base"} ELSE {"banner", "all"})
              /\ writes[r].stage \in {"token", "answered"}
        BY <3>2 DEF Sending, Heard
      <4>2. writes'[r] = writes[r]
        BY <1>2, <3>1, <3>2, <4>1, AwakeKeeps
      <4> QED BY <4>1, <4>2 DEF Sending, Heard
    <3> QED BY <1>2, <3>1, <3>2, ReloadType
  <2>4. CASE page = "gallery" /\ w.op = "image" /\ shown["list"] # Nothing /\ Patch(w) /\ Await(s, "list")
    <3>1. /\ shown'["base"] = shown["base"] /\ shown["list"] \in [Images -> Version]
          /\ shown'["list"] = [t \in Images |-> IF t \in w.things
               THEN [at |-> w.at, there |-> w.file] ELSE shown["list"][t]]
      BY <1>2, <2>2, <2>4, PatchType
    <3>2. Current(shown["list"])
      BY <2>4 DEF ConsoleInv, ShownCurrent, Unsettled, Loader
    <3>3. \A t \in Images : t \in Thing /\ shown["list"][t].at >= confirmed[t]
      BY <3>1, <3>2 DEF Current, Thing
    <3>4. \A t \in Images : shown'["list"][t].at = IF t \in w.things THEN w.at ELSE shown["list"][t].at
      BY <3>1
    <3>5. DOMAIN shown'["list"] = Images
      BY <3>1
    <3>6. \A t \in Images : shown'["list"][t].at >= confirmed'[t]
      BY <2>2, <3>3, <3>4
    <3>7. Shows("list")
      BY <3>5, <3>6 DEF Shows, Current
    <3>8. \A t \in Loads("base", page) : confirmed'[t] = confirmed[t]
      BY <1>17, <2>1, <2>4, OtherThings DEF Loader
    <3>9. Stays("base")
      BY <2>0, <2>1, <2>2, <2>3, <2>4, <3>1, <3>8 DEF Stays, Unsettled, Loader
    <3> QED BY <3>7, <3>9, StaysShown DEF Loader, SendingKept
  <2>5. CASE page = "urls" /\ w.op \in {"banner", "all"} /\ Await(s, "list") /\ UNCHANGED shown
    <3>1. Shows("list")
      BY <2>2, <2>3, <2>5 DEF Shows, Unsettled, Loader
    <3>2. \A t \in Loads("base", page) : confirmed'[t] = confirmed[t]
      BY <1>17, <2>1, <2>5, OtherThings DEF Loader
    <3>3. Stays("base")
      BY <2>0, <2>1, <2>2, <2>3, <2>5, <3>2 DEF Stays, Unsettled, Loader
    <3> QED BY <3>1, <3>3, StaysShown DEF Loader, SendingKept
  <2>6. CASE w.op = "base" /\ Await(s, "base") /\ UNCHANGED shown
    <3>1. Shows("base")
      BY <2>2, <2>3, <2>6 DEF Shows, Unsettled, Loader
    <3>2. \A t \in Loads("list", page) : confirmed'[t] = confirmed[t]
      BY <1>17, <2>1, <2>6, OtherThings DEF Loader
    <3>3. Stays("list")
      BY <2>1, <2>2, <2>3, <2>6, <3>2 DEF Stays, Unsettled, Loader
    <3> QED BY <3>1, <3>3, StaysShown DEF Loader, SendingKept
  <2>7. CASE page = "editor"
    BY <2>2, <2>7 DEF Shows
  <2> QED BY <1>17, <2>1, <2>4, <2>5, <2>6, <2>7, HearCases
<1> QED
  BY <1>1, <1>6, <1>7, <1>8, <1>9, <1>10, <1>11, <1>12, <1>13, <1>14, <1>15, <1>16, <1>17,
     NextSteps, SelectStill

-----------------------------------------------------------------------------
(* The badge *)

LEMMA SavedStep ==
  ASSUME ConsoleInv, [Next]_vars
  PROVE  SavedHere' /\ SavedBadgeIsTrue'
<1> DEFINE Goal == SavedHere' /\ SavedBadgeIsTrue'
<1>1. ASSUME UNCHANGED <<page, target, saved, confirmed>> PROVE Goal
  BY <1>1 DEF ConsoleInv, SavedHere, SavedBadgeIsTrue
<1>2. ASSUME saved' = 0 PROVE Goal
  BY <1>2 DEF SavedHere, SavedBadgeIsTrue
<1>3. ASSUME NEW s \in Slot, HearSuccess(s) PROVE Goal
  <2>1. PICK w : w = writes[s]
    OBVIOUS
  <2>2. /\ UNCHANGED <<page, target>> /\ Reported(w) /\ WriteOK(w)
        /\ confirmed' = [t \in Thing |-> IF t \in w.things THEN w.at ELSE confirmed[t]]
    BY <1>3, <2>1, HearCases
  <2>3. CASE page \in {"gallery", "urls"} /\ saved' = saved
    <3>1. saved = 0
      BY <2>3 DEF ConsoleInv, SavedHere
    <3> QED BY <1>2, <2>3, <3>1
  <2>4. CASE /\ page = "editor" /\ w.op = "image" /\ w.file /\ w.cid = target /\ target # Nothing
             /\ saved' = w.at
    <3>1. w.things = {Image(target)}
      BY <2>2, <2>4 DEF WriteOK
    <3>2. Image(target) \in Thing
      BY <2>4 DEF ConsoleInv, TypeOK, PageType, Thing, Images
    <3>3. confirmed'[Image(target)] = w.at
      BY <2>2, <3>1, <3>2
    <3> QED BY <2>2, <2>4, <3>3 DEF SavedHere, SavedBadgeIsTrue, Image
  <2> QED BY <1>3, <2>1, <2>3, <2>4, HearCases
<1>4. ASSUME NEW s \in Slot, Presses(s) \/ Serve(s) \/ Drop(s) \/ HearFailure(s) \/ GoOn(s)
      PROVE  UNCHANGED <<page, target, saved, confirmed>>
  BY <1>4 DEF Presses, ChangeImage, UploadBase, Apply, Upload, Serve, Drop, HearFailure, GoOn, editor
<1>5. ASSUME NEW l \in Loader, PressRefresh(l) \/ AnswerLoad(l) \/ ReceiveLoad(l) \/ FailLoad(l)
      PROVE  UNCHANGED <<page, target, saved, confirmed>>
  BY <1>5 DEF PressRefresh, AnswerLoad, ReceiveLoad, FailLoad, editor
<1>6. ASSUME Mounts PROVE saved' = 0
  BY <1>6 DEF Mounts, Mount
<1> HIDE DEF Goal
<1>7. Goal
  BY <1>1, <1>2, <1>3, <1>4, <1>5, <1>6, NextSteps, SelectStill DEF Still
<1> QED BY <1>7 DEF Goal

-----------------------------------------------------------------------------
(* The theorems *)

LEMMA ConsoleInit ==
  ASSUME Init
  PROVE  ConsoleInv
<1>1. \A t \in Thing : content[t].at = 0 /\ confirmed[t] = 0
  BY DEF Init
<1>2. SessionType /\ PageType
  BY DEF Init, InitSession, SessionType, PageType
<1>3. ServerType
  BY DEF Init, ServerType, Version
<1>4. WritesType /\ Heard = {}
  BY DEF Init, WritesType, Heard
<1>5. LoadersType
  BY DEF Init, LoadersType
<1>9. EditorType /\ ErrorType
  BY DEF Init, EditorType, ErrorType
<1>6. Newest /\ ConfirmedIsThere
  <2>1. Base \in Thing
    BY DEF Thing
  <2> QED BY <1>1, <2>1 DEF Newest, ConfirmedIsThere
<1>7. WritesOK /\ HeardInv /\ Locked
  BY <1>4 DEF Init, WritesOK, HeardInv, Locked
<1>8. BodiesCurrent /\ ShownCurrent /\ SavedHere /\ SavedBadgeIsTrue
  BY DEF Init, BodiesCurrent, Live, ShownCurrent, SavedHere, SavedBadgeIsTrue
<1> QED BY <1>2, <1>3, <1>4, <1>5, <1>6, <1>7, <1>8, <1>9 DEF ConsoleInv, TypeOK

\* The invariant of the console: what is heard was started on the open page and about
\* different things, so that each success concerns one list, which is then loaded again.
THEOREM ConsoleInvariant == Spec => []ConsoleInv
<1>1. Init => ConsoleInv
  BY ConsoleInit
<1>2. ConsoleInv /\ [Next]_vars => ConsoleInv'
  <2>1. SUFFICES ASSUME ConsoleInv, [Next]_vars PROVE ConsoleInv'
    OBVIOUS
  <2>2. Newest'
    BY <2>1, ServerStep
  <2>3. TypeOK' /\ WritesOK' /\ HeardInv' /\ Locked' /\ ConfirmedIsThere'
    BY <2>1, TypeStep, WritesOKStep, HeardStep, LockedStep, ConfirmedThereStep
  <2>4. BodiesCurrent' /\ ShownCurrent' /\ SavedHere' /\ SavedBadgeIsTrue'
    BY <2>1, BodiesStep, ShownStep, SavedStep
  <2> QED BY <2>2, <2>3, <2>4 DEF ConsoleInv
<1> QED BY <1>1, <1>2, PTL DEF Spec

\* The session, the server, the requests under way, what a page has loaded and the
\* state of the editor are well formed.
THEOREM ConsoleIsTyped == Spec => []TypeOK
<1>1. ConsoleInv => TypeOK
  BY DEF ConsoleInv
<1> QED BY <1>1, ConsoleInvariant, PTL

\* However many loads and changes of other channels overlap, a page that reported
\* the success of a change shows no list or base image from before it, unless it
\* is loading, shows an error or is sending the next change.
THEOREM ListsStayCurrent == Spec => []ListsAreCurrent
<1>1. ConsoleInv => ListsAreCurrent
  <2>1. SUFFICES ASSUME ConsoleInv, NEW l \in Loader, page # "editor", shown[l] # Nothing, Settled(l)
                 PROVE  \A t \in DOMAIN shown[l] : shown[l][t].at >= confirmed[t]
    BY DEF ListsAreCurrent
  <2>2. ~Unsettled(l)
    BY <2>1 DEF Settled, Unsettled
  <2> QED BY <2>1, <2>2 DEF ConsoleInv, ShownCurrent, Current
<1> QED BY <1>1, ConsoleInvariant, PTL

\* The routes of the client and the guards of the server agree: only a token that
\* lost the page's role since is refused.
THEOREM RefusalMeansRoleLost == Spec => []ForbiddenOnlyWithoutThePage
<1>1. ConsoleInv => ForbiddenOnlyWithoutThePage
  BY DEF ConsoleInv, WritesOK, WriteOK, ForbiddenOnlyWithoutThePage
<1> QED BY <1>1, ConsoleInvariant, PTL

\* The badge is about the channel it is shown for, and the banner it announces is
\* the newest one whose success was reported.
THEOREM SavedBadgeTellsTheTruth == Spec => []SavedBadgeIsTrue
<1>1. ConsoleInv => SavedBadgeIsTrue
  BY DEF ConsoleInv
<1> QED BY <1>1, ConsoleInvariant, PTL

\* The cropper at work was made for the source on the screen.
FramedInv == (ready \/ "current" \in starting) => source # 0 /\ crop = source

LEMMA MountClears == ASSUME NEW p, Mount(p) PROVE source' = 0 /\ ~ready' /\ starting' = {}
BY DEF Mount

LEMMA FramedStep ==
  ASSUME FramedInv, [Next]_vars
  PROVE  /\ FramedInv'
         /\ source' \notin {0, source} => source' = choice
         /\ ready' => source' # 0 /\ crop' = source'
<1> DEFINE Goal == /\ FramedInv'
                   /\ source' \notin {0, source} => source' = choice
                   /\ ready' => source' # 0 /\ crop' = source'
<1>1. ASSUME UNCHANGED <<source, crop, starting, ready>> PROVE Goal
  BY <1>1 DEF FramedInv
<1>2. ASSUME source' = 0, ~ready', "current" \notin starting' PROVE Goal
  BY <1>2 DEF FramedInv
<1>3. ASSUME Mounts PROVE Goal
  BY <1>2, <1>3, MountClears DEF Mounts
<1>4. ASSUME SelectFile PROVE Goal
  BY <1>2, <1>4 DEF SelectFile, Outdated
<1>5. ASSUME LoadUrl PROVE Goal
  BY <1>5 DEF LoadUrl, FramedInv
<1>6. ASSUME NEW r, ReadDone(r) PROVE Goal
  BY <1>6 DEF ReadDone, Frame, Outdated, FramedInv
<1>7. ASSUME Initialize PROVE Goal
  BY <1>7 DEF Initialize, FramedInv
<1>8. ASSUME NEW g \in starting, Ready(g) PROVE Goal
  BY <1>8 DEF Ready, CropperReady, FramedInv
<1>9. ASSUME \/ DecodeFails \/ \E r \in reads : ReadFails(r)
             \/ \E c \in Channel \cup {Nothing} : SelectChannel(c)
      PROVE  UNCHANGED <<source, crop, starting, ready>>
  BY <1>9 DEF DecodeFails, ReadFails, SelectChannel
<1>10. ASSUME Loading \/ Writing PROVE UNCHANGED <<source, crop, starting, ready>>
  BY <1>10 DEF Loading, PressRefresh, AnswerLoad, ReceiveLoad, FailLoad, Writing, ChangeImage, Apply,
               UploadBase, Upload, Serve, Drop, HearSuccess, HearFailure, GoOn, editor
<1>11. ASSUME Signing PROVE Mounts \/ UNCHANGED <<source, crop, starting, ready>>
  BY <1>11 DEF Signing, SignIn, Refresh, SessionEnds, Logout, Mounts, editor, Page
<1>12. ASSUME NEW p \in Page \cup {"none"}, Open(p) PROVE Mounts
  BY <1>12 DEF Open, Mounts
<1>13. ASSUME UNCHANGED vars PROVE UNCHANGED <<source, crop, starting, ready>>
  BY <1>13 DEF vars, editor
<1> HIDE DEF Goal
<1>14. Goal
  BY <1>1, <1>3, <1>4, <1>5, <1>6, <1>7, <1>8, <1>9, <1>10, <1>11, <1>12, <1>13
  DEF Next, Editing, Decode, Resize
<1> QED BY <1>14 DEF Goal

\* What appears in the frame is what was chosen last, and only what is on the
\* screen can be cropped and sent.
THEOREM FramedStaysNewest == Spec => FramedIsNewest
<1>1. Init => FramedInv
  BY DEF Init, FramedInv
<1>2. FramedInv /\ [Next]_vars => FramedInv'
  BY FramedStep
<1>3. FramedInv /\ [Next]_vars
      => [/\ source' \notin {0, source} => source' = choice
          /\ ready' => source' # 0 /\ crop' = source']_vars
  BY FramedStep
<1> QED BY <1>1, <1>2, <1>3, PTL DEF Spec, FramedIsNewest

=============================================================================
