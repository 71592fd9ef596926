----------------------------- MODULE ImageStore -----------------------------
(***************************************************************************)
(* The images of channels (src/src/images/images.service.ts and             *)
(* image-import.service.ts): uploads by channel id and by the old name      *)
(* addresses, adoption of images from before channel ids, deletion, the     *)
(* references that the public pages read, and the backfill script.          *)
(*                                                                          *)
(* Requests work from a channel list that may be old and read the database  *)
(* before they write it; only the three transactions of the service are     *)
(* atomic.  A picture is known by what it was uploaded for.  Names are raw; *)
(* Key is normalizeChannelName.                                             *)
(***************************************************************************)
EXTENDS Integers, FiniteSets

CONSTANTS
  Cid,          \* TeamSpeak channel ids
  Name,         \* raw names, normalised ones included
  Key,          \* Key[n]: the normal form of n, a name itself
  Spacer,       \* names isSpacerChannelName accepts
  Base,         \* SPACER_BASE_IMAGE_CHANNEL_NAME
  ChannelName,  \* the names administrators give to channels
  OldId,        \* the ids of images from before channel ids, by their names
  FirstId,      \* the first id an image gets since
  Request,      \* slots for requests
  None,
  MaxChanges,   \* bound: changes to the channels
  MaxWrites     \* bound: uploads and runs of the backfill

ASSUME StoreAssumption ==
  /\ Key \in [Name -> Name]
  /\ \A n \in Name : Key[Key[n]] = Key[n]
  \* normalizeChannelName strips the underscores of the reserved name.
  /\ Base \in Name /\ \A n \in Name : Key[n] # Base
  /\ ChannelName \subseteq Name
  /\ Spacer \subseteq Name
  \* Those images were kept by normalised names, and by the reserved one.
  /\ \A n \in DOMAIN OldId : n \in Name /\ (n = Base \/ Key[n] = n)
  /\ FirstId \in Nat /\ \A n \in DOMAIN OldId : OldId[n] \in 1..(FirstId - 1)
  /\ FirstId > 0 /\ \A m, n \in DOMAIN OldId : OldId[m] = OldId[n] => m = n
  /\ None \notin Cid \cup Name
  /\ Cid \cap {"legacy", "base"} = {}
  /\ {MaxChanges, MaxWrites} \subseteq Nat

VARIABLES
  rows,     \* ChannelImage
  alias,    \* ChannelImageAlias: pairs of a name and a row's id
  refs,     \* ChannelReference
  live,     \* the channels of the TeamSpeak server
  used,     \* the ids it has given out
  cached,   \* what fetchLiveChannels returns: up to 30 seconds old
  req,      \* the requests
  offers,   \* what the backfill has read of the images, until it has made its plan
  plan,     \* the assignments it still has to make
  nextId,
  changes,
  writes

vars == <<rows, alias, refs, live, used, cached, req, offers, plan, nextId, changes, writes>>

Id        == Nat \ {0}
Snapshot  == [Cid -> Name \cup {None}]
\* of: the channel whose picture it is; legacy: from before channel ids.
ImageRow  == [id : Id, cid : Cid \cup {None}, name : Name, of : Cid \cup {"legacy", "base"}]
Stage     == {"idle", "sync", "owned", "taken", "store", "write", "touch", "drop"}
Idle      == [op |-> "none", at |-> "idle", cid |-> None, name |-> Base,
              seen |-> [c \in Cid |-> None], ids |-> {}]
RequestRecord ==
  [op : {"none", "upload", "list", "banner", "delete"}, at : Stage, cid : Cid \cup {None},
   name : Name, seen : Snapshot, ids : SUBSET Id]

TypeOK ==
  /\ rows \in SUBSET ImageRow
  /\ alias \in SUBSET (Name \X Id)
  /\ refs \in Snapshot
  /\ live \in Snapshot
  /\ used \in SUBSET Cid
  /\ cached \in Snapshot
  /\ req \in [Request -> RequestRecord]
  /\ offers \in SUBSET (Id \X Name \X Cid)
  /\ plan \in SUBSET (Id \X Cid)
  /\ nextId \in Id
  /\ changes \in 0..MaxChanges
  /\ writes \in 0..MaxWrites

\* At most one image per name, from the time when names were the keys.
Init ==
  /\ \E old \in SUBSET DOMAIN OldId :
       /\ rows = {[id |-> OldId[n], cid |-> None, name |-> n,
                   of |-> IF n = Base THEN "base" ELSE "legacy"] : n \in old}
       /\ alias = {<<n, OldId[n]>> : n \in old}
  /\ nextId = FirstId
  /\ refs = [c \in Cid |-> None]
  /\ live \in [Cid -> ChannelName \cup {None}]
  /\ used = {c \in Cid : live[c] # None}
  /\ cached = live
  /\ req = [r \in Request |-> Idle]
  /\ offers = {}
  /\ plan = {}
  /\ changes = 0
  /\ writes = 0

-----------------------------------------------------------------------------
(* Reading the database *)

Row(i)  == {x \in rows : x.id = i}
Own(c)  == {x \in rows : x.cid = c}

\* aliasMatches: the reserved name is only ever matched by itself.
Matches(known, requested) ==
  IF requested = Base THEN known = Base ELSE known # Base /\ Key[known] = Key[requested]

\* mutant: the fallback for spacers counts as their own image of old.
LegacyIdsOrBase(n) ==
  {p[2] : p \in {q \in alias : Matches(q[1], n) \/ (n \in Spacer /\ q[1] = Base)}}
LegacyIds(n) ==
  {p[2] : p \in {q \in alias : Matches(q[1], n)}} \cup {x.id : x \in {y \in rows : Matches(y.name, n)}}

\* The channels the references give this name to.
Bearers(n) == {c \in Cid : refs[c] # None /\ Key[refs[c]] = Key[n]}

\* mutant: an image that has found its channel is still anybody's by name.
LegacyImageOfAnyone(n) ==
  IF n = Base \/ Cardinality(Bearers(n)) # 1 \/ Cardinality(LegacyIds(n)) # 1 THEN {}
  ELSE {x \in rows : x.id \in LegacyIds(n)}
LegacyImage(n) ==
  LET ids == LegacyIds(n)
  IN  IF n = Base \/ Cardinality(Bearers(n)) # 1 \/ Cardinality(ids) # 1 THEN {}
      ELSE {x \in rows : x.id \in ids /\ x.cid = None}

LegacyOf(c) == IF refs[c] = None THEN {} ELSE LegacyImage(refs[c])

\* getPublicImageByChannelId: what the by-id address of the channel shows.
Shown(c) ==
  LET legacy == LegacyOf(c)
      shared == LegacyIds(Base)
  IN  IF Own(c) # {} THEN Own(c)
      ELSE IF legacy # {} THEN legacy
      ELSE IF refs[c] \in Spacer /\ Cardinality(shared) = 1 THEN {x \in rows : x.id \in shared}
      ELSE {}

\* mutant: it does not matter whether another channel has the name, too.
OldListedForAll(list, c) ==
  {x \in rows : x.cid = None /\ x.name # Base /\ Key[x.name] = Key[list[c]]}
\* channelItems: the old image that the channel list counts as the channel's.
OldListed(list, c) ==
  LET old == {x \in rows : x.cid = None /\ x.name # Base /\ Key[x.name] = Key[list[c]]}
  IN  IF /\ \A d \in Cid : list[d] # None /\ Key[list[d]] = Key[list[c]] => d = c
         /\ Cardinality(old) = 1
      THEN old ELSE {}

\* The image that the channel list says a channel has, or the fallback.
Listed(list, c) ==
  LET old == OldListed(list, c)
  IN  IF Own(c) # {} THEN Own(c)
      ELSE IF old # {} THEN old
      ELSE IF list[c] \in Spacer THEN {x \in rows : x.name = Base}
      ELSE {}

-----------------------------------------------------------------------------
(* Requests *)

Become(r, new) == req' = [req EXCEPT ![r] = new]
\* What was read is not used again.
Proceed(r, stage) == Become(r, [req[r] EXCEPT !.at = stage, !.seen = Idle.seen])
Done(r) == Become(r, Idle)

Database == <<rows, alias, nextId>>
Script == <<offers, plan>>

Free(r) == req[r].at = "idle"

CountWrite == writes < MaxWrites /\ writes' = writes + 1

Found(c) == cached[c] # None

\* liveById: POST channels/:cid/image and PATCH channels/:cid/banner-url.
ById(r, op) == \E c \in Cid :
  /\ Free(r)
  /\ Found(c)
  /\ Become(r, [Idle EXCEPT !.op = op, !.at = "sync", !.cid = c, !.name = cached[c],
                            !.seen = cached])
  /\ UNCHANGED <<Database, refs, live, used, cached, Script, changes>>

UploadById(r) == ById(r, "upload") /\ CountWrite
SetBannerUrl(r) == ById(r, "banner") /\ UNCHANGED writes

\* channelItems and applyBannerUrls.
List(r) ==
  /\ Free(r)
  /\ Become(r, [Idle EXCEPT !.op = "list", !.at = "sync", !.seen = cached])
  /\ UNCHANGED <<Database, refs, live, used, cached, Script, changes, writes>>

\* mutant: channels that are gone keep their reference.
ReplacedNothing(seen) == [c \in Cid |-> IF seen[c] = None THEN refs[c] ELSE seen[c]]
Replaced(seen) == seen

\* syncChannels(channels, true)
Sync(r) ==
  /\ req[r].at = "sync"
  /\ refs' = Replaced(req[r].seen)
  /\ CASE req[r].op = "upload" -> Proceed(r, "store")
       [] req[r].op = "banner" -> Proceed(r, "touch")
       [] OTHER -> Done(r)
  /\ UNCHANGED <<Database, live, used, cached, Script, changes, writes>>

\* syncChannels([channel]) of setBannerUrlById
Touch(r) ==
  /\ req[r].at = "touch"
  /\ refs' = [refs EXCEPT ![req[r].cid] = req[r].name]
  /\ Done(r)
  /\ UNCHANGED <<Database, live, used, cached, Script, changes, writes>>

\* resolveUploadChannel, first part: POST :channelName, POST from-url.
UploadByName(r) == \E c \in Cid :
  /\ Free(r)
  /\ cached[c] # None
  /\ \A d \in Cid : cached[d] # None /\ Key[cached[d]] = Key[cached[c]] => d = c
  /\ Become(r, [Idle EXCEPT !.op = "upload", !.at = "owned", !.cid = c,
                            !.name = Key[cached[c]]])
  /\ CountWrite
  /\ UNCHANGED <<Database, refs, live, used, cached, Script, changes>>

\* findByChannelId, then channelNameInUse.
CheckOwned(r) ==
  /\ req[r].at = "owned"
  /\ Proceed(r, IF Own(req[r].cid) # {} THEN "store" ELSE "taken")
  /\ UNCHANGED <<Database, refs, live, used, cached, Script, changes, writes>>

CheckTaken(r) ==
  /\ req[r].at = "taken"
  /\ IF LegacyIds(req[r].name) = {} THEN Proceed(r, "store") ELSE Done(r)
  /\ UNCHANGED <<Database, refs, live, used, cached, Script, changes, writes>>

\* storeSpacerBase
UploadBase(r) ==
  /\ Free(r)
  /\ Become(r, [Idle EXCEPT !.op = "upload", !.at = "store"])
  /\ CountWrite
  /\ UNCHANGED <<Database, refs, live, used, cached, Script, changes>>

\* A wallpaper run stores the slice of a channel it has created.
StoreSlice(r) == \E c \in Cid :
  /\ Free(r)
  /\ live[c] # None
  /\ Become(r, [Idle EXCEPT !.op = "upload", !.at = "store", !.cid = c, !.name = live[c]])
  /\ CountWrite
  /\ UNCHANGED <<Database, refs, live, used, cached, Script, changes>>

\* saveImage up to its transaction, after the image was processed.
Resolve(r) ==
  /\ req[r].at = "store"
  /\ IF req[r].cid = None /\ Cardinality(LegacyIds(req[r].name)) > 1
       THEN Done(r)
       ELSE Become(r, [req[r] EXCEPT !.at = "write", !.ids = LegacyIds(req[r].name)])
  /\ UNCHANGED <<Database, refs, live, used, cached, Script, changes, writes>>

\* The image without a channel that an upload for channel c may take over.
Adoptable(c, n, ids) ==
  IF Cardinality(ids) = 1 /\ Bearers(n) = {c}
    THEN {x \in rows : x.id \in ids /\ x.cid = None}
    ELSE {}

\* mutant: the image under the old name comes before the channel's own.
OldByLegacyFirst(c, n, ids) == IF Adoptable(c, n, ids) # {} THEN Adoptable(c, n, ids) ELSE Own(c)
OldOfChannel(c, n, ids) == IF Own(c) # {} THEN Own(c) ELSE Adoptable(c, n, ids)

\* mutant: what was read before the transaction is not looked up again in it.
OldAsRead(n, ids) == {x \in rows : x.id \in ids}
OldOfName(n, ids) ==
  IF ids # {} THEN {x \in rows : x.id \in ids} ELSE {x \in rows : x.name = n /\ x.cid = None}

Old(q) == IF q.cid # None THEN OldOfChannel(q.cid, q.name, q.ids) ELSE OldOfName(q.name, q.ids)

Aliases(new, old) == {new, old}

\* The transaction of saveImage: update the row found, or create one.
Write(r) ==
  LET q == req[r]
      old == Old(q)
      was == IF old # {} THEN CHOOSE x \in old : TRUE
             ELSE [id |-> nextId, cid |-> None, name |-> q.name, of |-> "base"]
      row == [id |-> was.id, cid |-> IF q.cid = None THEN was.cid ELSE q.cid, name |-> q.name,
              of |-> IF q.cid = None THEN "base" ELSE q.cid]
  IN /\ q.at = "write"
     /\ rows' = (rows \ Row(was.id)) \cup {row}
     /\ alias' = alias \cup {<<n, was.id>> : n \in Aliases(q.name, was.name)}
     /\ nextId' = IF old = {} THEN nextId + 1 ELSE nextId
     /\ refs' = IF q.cid = None THEN refs ELSE [refs EXCEPT ![q.cid] = q.name]
     /\ Done(r)
     /\ UNCHANGED <<live, used, cached, Script, changes, writes>>

\* The aliases go with their row (onDelete: Cascade).
Remove(gone) ==
  /\ rows' = rows \ gone
  /\ alias' = {p \in alias : \A x \in gone : p[2] # x.id}
  /\ UNCHANGED nextId

\* deleteImageByChannelId
DeleteById(c) ==
  LET gone == IF Own(c) # {} THEN Own(c) ELSE LegacyOf(c)
  IN /\ gone # {}
     /\ Remove(gone)
     /\ UNCHANGED <<refs, live, used, cached, req, Script, changes, writes>>

\* deleteImage: the name is resolved, then the row deleted by its id.
DeleteByName(r) == \E n \in {Key[m] : m \in ChannelName} :
  /\ Free(r)
  /\ Cardinality(LegacyIds(n)) = 1
  /\ Become(r, [Idle EXCEPT !.op = "delete", !.at = "drop", !.ids = LegacyIds(n)])
  /\ UNCHANGED <<Database, refs, live, used, cached, Script, changes, writes>>

Drop(r) ==
  /\ req[r].at = "drop"
  /\ Remove({x \in rows : x.id \in req[r].ids})
  /\ Done(r)
  /\ UNCHANGED <<refs, live, used, cached, Script, changes, writes>>

\* The undo of a wallpaper run, after it deleted the channel.
EraseSlice(c) ==
  /\ live[c] = None
  /\ Own(c) # {}
  /\ Remove(Own(c))
  /\ UNCHANGED <<refs, live, used, cached, req, Script, changes, writes>>

-----------------------------------------------------------------------------
(* The backfill script; nothing keeps it from running beside the requests *)

Owners(k) ==
  {p[2] : p \in {q \in alias : Key[q[1]] = k}} \cup {x.id : x \in {y \in rows : Key[y.name] = k}}

\* mutant: several images under one name are not a conflict.
UnambiguousName(k) == TRUE
Unambiguous(k) == Cardinality(Owners(k)) <= 1

\* An image without a channel, its name as a key, and a channel without an image.
Offers ==
  {<<x.id, Key[x.name], c>> : x \in {y \in rows : y.cid = None /\ Unambiguous(Key[y.name])},
                              c \in {d \in Cid : Own(d) = {}}}

\* planBackfill: the assignments nobody has to decide, with the channels of now.
Planned(read) ==
  {<<o[1], o[3]>> : o \in {p \in read : {c \in Cid : live[c] # None /\ Key[live[c]] = p[2]} = {p[3]}}}

Assignments == Planned(Offers)

\* The images are read,
Backfill ==
  /\ plan = {}
  /\ offers = {}
  /\ offers' = Offers
  /\ offers' # {}
  /\ CountWrite
  /\ UNCHANGED <<Database, refs, live, used, cached, req, plan, changes>>

\* then the channels, by a client of the script's own, which has no cached list.
MakePlan ==
  /\ offers # {}
  /\ plan' = Planned(offers)
  /\ offers' = {}
  /\ UNCHANGED <<Database, refs, live, used, cached, req, changes, writes>>

\* updateMany finds the row without a channel, and the unique index takes the channel.
StillFree(a) == (\E x \in Row(a[1]) : x.cid = None) /\ Own(a[2]) = {}

\* One updateMany; where it changes no row, or throws, the script ends.
Assign == \E a \in plan :
  IF StillFree(a)
    THEN /\ rows' = {IF x.id = a[1] THEN [x EXCEPT !.cid = a[2]] ELSE x : x \in rows}
         /\ plan' = plan \ {a}
         /\ UNCHANGED <<alias, nextId, refs, live, used, cached, req, offers, changes, writes>>
    ELSE plan' = {} /\ UNCHANGED <<Database, refs, live, used, cached, req, offers, changes, writes>>

\* The script does not reach the server, or is killed between two assignments.
BackfillDies ==
  /\ offers # {} \/ plan # {}
  /\ offers' = {}
  /\ plan' = {}
  /\ UNCHANGED <<Database, refs, live, used, cached, req, changes, writes>>

-----------------------------------------------------------------------------
(* The TeamSpeak server and its administrators *)

\* A channel is renamed, created or deleted; a deleted id does not come back.
Change(c, n) ==
  /\ changes < MaxChanges
  /\ live[c] # n
  /\ c \in used => live[c] # None
  /\ used' = used \cup {c}
  /\ live' = [live EXCEPT ![c] = n]
  /\ changes' = changes + 1
  /\ UNCHANGED <<Database, refs, cached, req, Script, writes>>

\* The cached list ran out, or a mutation dropped it, and was read again.
Refresh ==
  /\ cached # live
  /\ cached' = live
  /\ UNCHANGED <<Database, refs, live, used, req, Script, changes, writes>>

Step(r) ==
  \/ Sync(r) \/ Touch(r) \/ CheckOwned(r) \/ CheckTaken(r) \/ Resolve(r) \/ Write(r) \/ Drop(r)

Begin(r) ==
  \/ UploadById(r) \/ SetBannerUrl(r) \/ UploadByName(r) \/ UploadBase(r) \/ StoreSlice(r)
  \/ List(r) \/ DeleteByName(r)

Next ==
  \/ \E r \in Request : Begin(r) \/ Step(r)
  \/ \E c \in Cid : \/ DeleteById(c) \/ EraseSlice(c)
                    \/ \E n \in ChannelName \cup {None} : Change(c, n)
  \/ Backfill \/ MakePlan \/ Assign \/ BackfillDies \/ Refresh

Spec == Init /\ [][Next]_vars

\* Requests and the script go on; a cached list runs out.
LiveSpec ==
  /\ Spec
  /\ \A r \in Request : WF_vars(Step(r))
  /\ WF_vars(Assign)
  /\ WF_vars(Refresh)

\* The administrators' page is opened again and again.
KeepsListing == \A r \in Request : SF_vars(List(r))

-----------------------------------------------------------------------------
(* Properties *)

\* A channel has one image, whatever adoptions, renames and backfills went
\* before: no upload ever meets the unique index of ChannelImage.channelId.
OneImagePerChannel == \A x, y \in rows : x.cid = y.cid /\ x.cid # None => x = y

\* The address of a channel never shows the picture of another channel, also
\* when that one had the name, or an image under the name, before.
NeverAnothersPicture == \A c \in Cid : \A x \in Shown(c) : x.of \in {c, "legacy", "base"}

\* What the channel list tells of a channel's image, from the names of the rows,
\* is what the channel's address shows, from references and aliases, once the
\* list has been written back: the badge, the picture and the Delete button agree.
\* (Where a name also is the alias of an image that has found another channel, the
\* list offers an old image that no address shows: the README's observations.)
ListIsTrue ==
  \A c \in Cid :
    refs[c] # None /\ (Own(c) # {} \/ Cardinality(LegacyIds(refs[c])) <= 1)
      => Listed(refs, c) = Shown(c)

\* Uploads of the shared image for spacers that overtake each other leave one
\* image: its address never becomes ambiguous.
OneBaseImage == \A i, j \in LegacyIds(Base) : i = j

\* The backfill beside uploads, deletions and renames: an assignment never touches
\* the image of a channel that has one. Where the rest of the plan would be made
\* again (nobody got in between: the maintenance window of docs/operations.md:81)
\* it only writes down what the addresses show, no channel gains, loses or swaps
\* its picture, and what is then left of the plan is still what would be planned.
BackfillChangesNothingShown ==
  [][Assign =>
       /\ \A c \in Cid : Own(c) # {} => Own(c)' = Own(c)
       /\ plan \subseteq Assignments /\ refs = live =>
            /\ \A c \in Cid : {x.id : x \in Shown(c)'} = {x.id : x \in Shown(c)}
            /\ plan' \subseteq Assignments']_vars

\* Reads of an old channel list may delete or rename references of channels
\* that exist; once the channels rest, the references are theirs again.
Displayed(snapshot) == [c \in Cid |-> IF snapshot[c] = None THEN None ELSE Key[snapshot[c]]]
ReferencesConverge == KeepsListing => <>[](Displayed(refs) = Displayed(live))

\* "The shared spacer image is a fallback, never a channel-owned legacy image."
BaseIsNeverOwned ==
  [][\A x \in rows, y \in rows' :
       x.id = y.id /\ x.of = "base" => y.of = "base" /\ y.cid = None]_vars
=============================================================================
