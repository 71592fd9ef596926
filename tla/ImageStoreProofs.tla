-------------------------- MODULE ImageStoreProofs --------------------------
(***************************************************************************)
(* Proofs about ImageStore, for any channels, names, requests and bounds.   *)
(***************************************************************************)
EXTENDS ImageStore, FiniteSetTheorems, TLAPS

-----------------------------------------------------------------------------
(* Types *)

LEMMA IdleType == Idle \in RequestRecord /\ Idle.seen \in Snapshot
BY StoreAssumption DEF Idle, RequestRecord, Snapshot, Stage

LEMMA ReadTypes ==
  ASSUME TypeOK
  PROVE  /\ \A n : LegacyIds(n) \in SUBSET Id
         /\ \A q : Old(q) \subseteq rows
BY DEF TypeOK, LegacyIds, Old, OldOfChannel, OldOfName, Own, Adoptable, ImageRow

LEMMA BecomeType ==
  ASSUME TypeOK, NEW r \in Request, NEW q \in RequestRecord, Become(r, q)
  PROVE  req' \in [Request -> RequestRecord]
BY DEF TypeOK, Become

LEMMA ProceedType ==
  ASSUME TypeOK, NEW r \in Request, NEW s \in Stage, Proceed(r, s)
  PROVE  req' \in [Request -> RequestRecord]
<1>1. [req[r] EXCEPT !.at = s, !.seen = Idle.seen] \in RequestRecord
  BY IdleType DEF TypeOK, RequestRecord
<1> QED BY <1>1, BecomeType DEF Proceed

LEMMA DoneType ==
  ASSUME TypeOK, NEW r \in Request, Done(r)
  PROVE  req' \in [Request -> RequestRecord]
BY IdleType, BecomeType DEF Done

\* The row an upload writes.
LEMMA WriteType ==
  ASSUME TypeOK, NEW r \in Request, Write(r)
  PROVE  /\ rows' \in SUBSET ImageRow
         /\ alias' \in SUBSET (Name \X Id)
         /\ refs' \in Snapshot
         /\ nextId' \in Id
<1> DEFINE q == req[r]
           old == Old(q)
           was == IF old # {} THEN CHOOSE x \in old : TRUE
                  ELSE [id |-> nextId, cid |-> None, name |-> q.name, of |-> "base"]
           row == [id |-> was.id, cid |-> IF q.cid = None THEN was.cid ELSE q.cid,
                   name |-> q.name, of |-> IF q.cid = None THEN "base" ELSE q.cid]
<1>1. q.name \in Name /\ q.cid \in Cid \cup {None}
  BY DEF TypeOK, RequestRecord
<1>2. was \in ImageRow
  <2>1. CASE old # {} BY <2>1, ReadTypes DEF TypeOK
  <2>2. CASE old = {} BY <2>2, <1>1 DEF TypeOK, ImageRow
  <2> QED BY <2>1, <2>2
<1>3. was.id \in Id /\ was.cid \in Cid \cup {None} /\ was.name \in Name
  BY <1>2 DEF ImageRow
<1>4. row \in ImageRow
  BY <1>1, <1>3 DEF ImageRow
<1>5. /\ rows' = (rows \ Row(was.id)) \cup {row}
      /\ alias' = alias \cup {<<n, was.id>> : n \in Aliases(q.name, was.name)}
      /\ nextId' = IF old = {} THEN nextId + 1 ELSE nextId
      /\ refs' = IF q.cid = None THEN refs ELSE [refs EXCEPT ![q.cid] = q.name]
  BY DEF Write
<1> HIDE DEF row, was, old, q
<1>6. rows' \in SUBSET ImageRow BY <1>4, <1>5 DEF TypeOK
<1>7. alias' \in SUBSET (Name \X Id)
  BY <1>1, <1>3, <1>5 DEF TypeOK, Aliases
<1>9. refs' \in Snapshot BY <1>1, <1>5 DEF TypeOK, Snapshot
<1>10. nextId' \in Id BY <1>5 DEF TypeOK, Id
<1> QED BY <1>6, <1>7, <1>9, <1>10

LEMMA InitType == Init => TypeOK
<1> SUFFICES ASSUME Init PROVE TypeOK OBVIOUS
<1>1. PICK old \in SUBSET DOMAIN OldId :
        /\ rows = {[id |-> OldId[n], cid |-> None, name |-> n,
                    of |-> IF n = Base THEN "base" ELSE "legacy"] : n \in old}
        /\ alias = {<<n, OldId[n]>> : n \in old}
  BY DEF Init
<1>2. \A n \in old : n \in Name /\ OldId[n] \in Id BY StoreAssumption DEF Id
<1>3. rows \in SUBSET ImageRow /\ alias \in SUBSET (Name \X Id) /\ nextId \in Id
  <2>1. nextId \in Id BY StoreAssumption DEF Init, Id
  <2>2. \A n \in old : [id |-> OldId[n], cid |-> None, name |-> n,
                        of |-> IF n = Base THEN "base" ELSE "legacy"] \in ImageRow
    BY <1>2 DEF ImageRow
  <2> QED BY <1>1, <1>2, <2>1, <2>2
<1>4. req \in [Request -> RequestRecord] BY IdleType DEF Init
<1>5. /\ live \in Snapshot
      /\ refs \in Snapshot
      /\ cached \in Snapshot
      /\ used \in SUBSET Cid
      /\ offers \in SUBSET (Id \X Name \X Cid)
      /\ plan \in SUBSET (Id \X Cid)
      /\ changes \in 0..MaxChanges
      /\ writes \in 0..MaxWrites
  BY StoreAssumption DEF Init, Snapshot
<1> QED BY <1>3, <1>4, <1>5 DEF TypeOK

LEMMA TypeStep == TypeOK /\ [Next]_vars => TypeOK'
<1> SUFFICES ASSUME TypeOK, [Next]_vars PROVE TypeOK' OBVIOUS
<1> USE IdleType
<1>u. UNCHANGED <<rows, alias, nextId>> =>
        /\ rows' \in SUBSET ImageRow /\ alias' \in SUBSET (Name \X Id)
        /\ nextId' \in Id
  BY DEF TypeOK
<1>g. ASSUME NEW gone, Remove(gone)
      PROVE  /\ rows' \in SUBSET ImageRow /\ alias' \in SUBSET (Name \X Id)
             /\ nextId' \in Id
  BY <1>g DEF Remove, TypeOK
<1>b. ASSUME NEW r \in Request, NEW op \in {"upload", "banner"}, ById(r, op)
      PROVE  req' \in [Request -> RequestRecord]
  <2>1. PICK c \in Cid : /\ Found(c)
                         /\ Become(r, [Idle EXCEPT !.op = op, !.at = "sync", !.cid = c,
                                                   !.name = cached[c], !.seen = cached])
    BY <1>b DEF ById
  <2>2. cached[c] \in Name BY <2>1 DEF Found, TypeOK, Snapshot
  <2>3. [Idle EXCEPT !.op = op, !.at = "sync", !.cid = c, !.name = cached[c], !.seen = cached]
          \in RequestRecord
    BY <2>2 DEF TypeOK, RequestRecord, Stage
  <2> QED BY <2>1, <2>3, BecomeType
<1>1. ASSUME NEW r \in Request, UploadById(r) PROVE TypeOK'
  <2>1. ById(r, "upload") /\ CountWrite BY <1>1 DEF UploadById
  <2>2. UNCHANGED <<Database, refs, live, used, cached, Script, changes>> BY <2>1 DEF ById
  <2>3. req' \in [Request -> RequestRecord] BY <2>1, <1>b
  <2>4. writes' \in 0..MaxWrites BY <2>1, StoreAssumption DEF CountWrite, TypeOK
  <2> QED BY <2>2, <2>3, <2>4, <1>u DEF TypeOK, Database, Script
<1>2. ASSUME NEW r \in Request, SetBannerUrl(r) PROVE TypeOK'
  BY <1>2, <1>u, <1>b DEF SetBannerUrl, ById, TypeOK, Database, Script
<1>3. ASSUME NEW r \in Request, List(r) PROVE TypeOK'
  <2>1. [Idle EXCEPT !.op = "list", !.at = "sync", !.seen = cached] \in RequestRecord
    BY DEF TypeOK, RequestRecord, Stage
  <2> QED BY <1>3, <2>1, <1>u, BecomeType DEF List, TypeOK, Database, Script
<1>4. ASSUME NEW r \in Request, Sync(r) PROVE TypeOK'
  <2>1. req[r].seen \in Snapshot BY DEF TypeOK, RequestRecord
  <2>2. req' \in [Request -> RequestRecord]
    BY <1>4, ProceedType, DoneType DEF Sync, Stage
  <2> QED BY <1>4, <2>1, <2>2, <1>u DEF Sync, Replaced, TypeOK, Database, Script
<1>5. ASSUME NEW r \in Request, Touch(r) PROVE TypeOK'
  <2>1. req[r].name \in Name BY DEF TypeOK, RequestRecord
  <2>2. refs' \in Snapshot BY <1>5, <2>1 DEF Touch, TypeOK, Snapshot
  <2> QED BY <1>5, <2>2, <1>u, DoneType DEF Touch, TypeOK, Database, Script
<1>6. ASSUME NEW r \in Request, UploadByName(r) PROVE TypeOK'
  <2>1. PICK c \in Cid : /\ cached[c] # None
                         /\ Become(r, [Idle EXCEPT !.op = "upload", !.at = "owned", !.cid = c,
                                                   !.name = Key[cached[c]]])
    BY <1>6 DEF UploadByName
  <2>2. Key[cached[c]] \in Name BY <2>1, StoreAssumption DEF TypeOK, Snapshot
  <2>3. [Idle EXCEPT !.op = "upload", !.at = "owned", !.cid = c, !.name = Key[cached[c]]]
          \in RequestRecord
    BY <2>2 DEF RequestRecord, Stage
  <2> QED BY <1>6, <2>1, <2>3, <1>u, BecomeType, StoreAssumption DEF UploadByName, CountWrite, TypeOK, Database, Script
<1>7. ASSUME NEW r \in Request, CheckOwned(r) \/ CheckTaken(r) PROVE TypeOK'
  <2>1. req' \in [Request -> RequestRecord]
    BY <1>7, ProceedType, DoneType DEF CheckOwned, CheckTaken, Stage
  <2> QED BY <1>7, <2>1, <1>u DEF CheckOwned, CheckTaken, TypeOK, Database, Script
<1>8. ASSUME NEW r \in Request, UploadBase(r) PROVE TypeOK'
  <2>1. [Idle EXCEPT !.op = "upload", !.at = "store"] \in RequestRecord
    BY DEF RequestRecord, Stage
  <2> QED BY <1>8, <2>1, <1>u, BecomeType, StoreAssumption DEF UploadBase, CountWrite, TypeOK, Database, Script
<1>9. ASSUME NEW r \in Request, StoreSlice(r) PROVE TypeOK'
  <2>1. PICK c \in Cid : /\ live[c] # None
                         /\ Become(r, [Idle EXCEPT !.op = "upload", !.at = "store", !.cid = c,
                                                   !.name = live[c]])
    BY <1>9 DEF StoreSlice
  <2>2. live[c] \in Name BY <2>1 DEF TypeOK, Snapshot
  <2>3. [Idle EXCEPT !.op = "upload", !.at = "store", !.cid = c, !.name = live[c]]
          \in RequestRecord
    BY <2>2 DEF RequestRecord, Stage
  <2> QED BY <1>9, <2>1, <2>3, <1>u, BecomeType, StoreAssumption DEF StoreSlice, CountWrite, TypeOK, Database, Script
<1>10. ASSUME NEW r \in Request, Resolve(r) PROVE TypeOK'
  <2>1. [req[r] EXCEPT !.at = "write", !.ids = LegacyIds(req[r].name)] \in RequestRecord
    BY ReadTypes DEF TypeOK, RequestRecord, Stage
  <2>2. req' \in [Request -> RequestRecord]
    BY <1>10, <2>1, BecomeType, DoneType DEF Resolve
  <2> QED BY <1>10, <2>2, <1>u DEF Resolve, TypeOK, Database, Script
<1>11. ASSUME NEW r \in Request, Write(r) PROVE TypeOK'
  <2>1. Done(r) /\ UNCHANGED <<live, used, cached, Script, changes, writes>>
    BY <1>11 DEF Write
  <2> QED BY <1>11, <2>1, WriteType, DoneType DEF TypeOK, Script
<1>12. ASSUME NEW c \in Cid, DeleteById(c) \/ EraseSlice(c) PROVE TypeOK'
  BY <1>12, <1>g DEF DeleteById, EraseSlice, TypeOK, Script
<1>13. ASSUME NEW r \in Request, DeleteByName(r) PROVE TypeOK'
  <2>1. PICK n : Become(r, [Idle EXCEPT !.op = "delete", !.at = "drop", !.ids = LegacyIds(n)])
    BY <1>13 DEF DeleteByName
  <2>2. [Idle EXCEPT !.op = "delete", !.at = "drop", !.ids = LegacyIds(n)] \in RequestRecord
    BY ReadTypes DEF RequestRecord, Stage
  <2> QED BY <1>13, <2>1, <2>2, <1>u, BecomeType DEF DeleteByName, TypeOK, Database, Script
<1>14. ASSUME NEW r \in Request, Drop(r) PROVE TypeOK'
  BY <1>14, <1>g, DoneType DEF Drop, TypeOK, Script
<1>15. ASSUME Backfill PROVE TypeOK'
  <2>1. Offers \in SUBSET (Id \X Name \X Cid)
    <3>1. \A x \in rows : x.id \in Id /\ Key[x.name] \in Name
      BY StoreAssumption DEF TypeOK, ImageRow
    <3> QED BY <3>1 DEF Offers
  <2> QED BY <1>15, <2>1, <1>u, StoreAssumption DEF Backfill, CountWrite, TypeOK, Database, Script
<1>21. ASSUME MakePlan PROVE TypeOK'
  <2>1. Planned(offers) \in SUBSET (Id \X Cid) BY DEF Planned, TypeOK
  <2> QED BY <1>21, <2>1, <1>u DEF MakePlan, TypeOK, Database, Script
<1>16. ASSUME Assign PROVE TypeOK'
  <2>1. PICK a \in plan :
          IF StillFree(a)
            THEN /\ rows' = {IF x.id = a[1] THEN [x EXCEPT !.cid = a[2]] ELSE x : x \in rows}
                 /\ plan' = plan \ {a}
                 /\ UNCHANGED <<alias, nextId, refs, live, used, cached, req, offers, changes, writes>>
            ELSE /\ plan' = {}
                 /\ UNCHANGED <<Database, refs, live, used, cached, req, offers, changes, writes>>
    BY <1>16 DEF Assign
  <2>2. a[2] \in Cid BY DEF TypeOK
  <2>3. \A x \in rows : [x EXCEPT !.cid = a[2]] \in ImageRow BY <2>2 DEF TypeOK, ImageRow
  <2> QED BY <2>1, <2>3, <1>u DEF TypeOK, Database, Script
<1>17. ASSUME BackfillDies PROVE TypeOK'
  BY <1>17, <1>u DEF BackfillDies, TypeOK, Database, Script
<1>18. ASSUME NEW c \in Cid, NEW n \in ChannelName \cup {None}, Change(c, n) PROVE TypeOK'
  <2>1. n \in Name \cup {None} BY StoreAssumption
  <2> QED BY <1>18, <2>1, <1>u, StoreAssumption DEF Change, TypeOK, Database, Script, Snapshot
<1>19. ASSUME Refresh PROVE TypeOK'
  BY <1>19, <1>u DEF Refresh, TypeOK, Database, Script
<1>20. ASSUME UNCHANGED vars PROVE TypeOK'
  BY <1>20 DEF vars, TypeOK
<1> QED
  BY <1>1, <1>2, <1>3, <1>4, <1>5, <1>6, <1>7, <1>8, <1>9, <1>10, <1>11, <1>12, <1>13, <1>14,
     <1>15, <1>16, <1>17, <1>18, <1>19, <1>20, <1>21 DEF Next, Begin, Step

\* The tables keep their types, for any number of channels, names and requests.
THEOREM StoreTypeCorrect == Spec => []TypeOK
<1>1. TypeOK /\ [Next]_vars => TypeOK' BY TypeStep
<1> QED BY InitType, <1>1, PTL DEF Spec

-----------------------------------------------------------------------------
(* The image table *)

IdsUnique == \A x, y \in rows : x.id = y.id => x = y
\* A row shows what was uploaded for its channel, or something from before.
Honest == \A x \in rows : x.of \in {x.cid, "legacy", "base"}

TableInv == TypeOK /\ IdsUnique /\ OneImagePerChannel /\ Honest

\* Four things can happen to the table.
LEMMA TableSteps ==
  ASSUME [Next]_vars
  PROVE  \/ UNCHANGED <<rows, alias, nextId>>
         \/ \E r \in Request : Write(r)
         \/ \E gone : Remove(gone)
         \/ Assign
BY DEF Next, Begin, Step, vars, Database, ById, UploadById, SetBannerUrl, List, Sync, Touch,
       UploadByName, CheckOwned, CheckTaken, UploadBase, StoreSlice, Resolve, DeleteById,
       DeleteByName, Drop, EraseSlice, Backfill, MakePlan, BackfillDies, Change, Refresh

\* What Write does, with the row it replaces and the row it leaves.
LEMMA WriteRow ==
  ASSUME TypeOK, NEW r \in Request, Write(r)
  PROVE  \E was, row \in ImageRow :
           /\ rows' = (rows \ Row(was.id)) \cup {row}
           /\ alias' = alias \cup {<<req[r].name, was.id>>, <<was.name, was.id>>}
           /\ row.id = was.id
           /\ row.name = req[r].name
           /\ row.cid = IF req[r].cid = None THEN was.cid ELSE req[r].cid
           /\ row.of = IF req[r].cid = None THEN "base" ELSE req[r].cid
           /\ \/ was \in Old(req[r]) /\ nextId' = nextId
              \/ /\ Old(req[r]) = {} /\ was.id = nextId /\ was.cid = None
                 /\ was.name = req[r].name /\ nextId' = nextId + 1
<1> DEFINE q == req[r]
           old == Old(q)
           was == IF old # {} THEN CHOOSE x \in old : TRUE
                  ELSE [id |-> nextId, cid |-> None, name |-> q.name, of |-> "base"]
           row == [id |-> was.id, cid |-> IF q.cid = None THEN was.cid ELSE q.cid,
                   name |-> q.name, of |-> IF q.cid = None THEN "base" ELSE q.cid]
<1>1. q.name \in Name /\ q.cid \in Cid \cup {None}
  BY DEF TypeOK, RequestRecord
<1>2. was \in ImageRow
  <2>1. CASE old # {} BY <2>1, ReadTypes DEF TypeOK
  <2>2. CASE old = {} BY <2>2, <1>1 DEF TypeOK, ImageRow
  <2> QED BY <2>1, <2>2
<1>3. row \in ImageRow
  BY <1>1, <1>2 DEF ImageRow
<1>4. /\ rows' = (rows \ Row(was.id)) \cup {row}
      /\ alias' = alias \cup {<<n, was.id>> : n \in Aliases(q.name, was.name)}
      /\ nextId' = IF old = {} THEN nextId + 1 ELSE nextId
  BY DEF Write
<1>5. alias' = alias \cup {<<q.name, was.id>>, <<was.name, was.id>>}
  BY <1>4 DEF Aliases
<1>6. \/ was \in old /\ nextId' = nextId
      \/ /\ old = {} /\ was.id = nextId /\ was.cid = None
         /\ was.name = q.name /\ nextId' = nextId + 1
  BY <1>4
<1>7. /\ row.id = was.id
      /\ row.name = q.name
      /\ row.cid = IF q.cid = None THEN was.cid ELSE q.cid
      /\ row.of = IF q.cid = None THEN "base" ELSE q.cid
  OBVIOUS
<1> HIDE DEF was, row
<1> QED BY <1>2, <1>3, <1>4, <1>5, <1>6, <1>7

LEMMA TableInit == Init => TableInv
<1> SUFFICES ASSUME Init PROVE TableInv OBVIOUS
<1>1. PICK old \in SUBSET DOMAIN OldId :
        rows = {[id |-> OldId[n], cid |-> None, name |-> n,
                 of |-> IF n = Base THEN "base" ELSE "legacy"] : n \in old}
  BY DEF Init
<1>2. \A m, n \in old : OldId[m] = OldId[n] => m = n BY StoreAssumption
<1> QED BY <1>1, <1>2, InitType DEF TableInv, IdsUnique, OneImagePerChannel, Honest

LEMMA TableStep == TableInv /\ [Next]_vars => TableInv'
<1> SUFFICES ASSUME TableInv, [Next]_vars PROVE TableInv' OBVIOUS
<1> USE DEF TableInv
<1>t. TypeOK' BY TypeStep
<1>1. CASE UNCHANGED <<rows, alias, nextId>>
  BY <1>1, <1>t DEF IdsUnique, OneImagePerChannel, Honest
<1>2. ASSUME NEW r \in Request, Write(r) PROVE TableInv'
  <2> DEFINE q == req[r]
  <2>1. PICK was \in ImageRow, row \in ImageRow :
           /\ rows' = (rows \ Row(was.id)) \cup {row}
           /\ alias' = alias \cup {<<q.name, was.id>>, <<was.name, was.id>>}
           /\ row.id = was.id
           /\ row.cid = IF q.cid = None THEN was.cid ELSE q.cid
           /\ row.of = IF q.cid = None THEN "base" ELSE q.cid
           /\ \/ was \in Old(q)
              \/ Old(q) = {} /\ was.cid = None
    BY <1>2, WriteRow
  <2>2. IdsUnique' BY <2>1 DEF IdsUnique, Row
  <2>4. Honest' BY <2>1 DEF Honest
  <2>5. ASSUME NEW y \in rows, y.id # was.id, y.cid = row.cid, row.cid # None PROVE FALSE
    <3>1. CASE q.cid = None
      <4>1. was \in rows BY <3>1, <2>1, <2>5, ReadTypes
      <4> QED BY <3>1, <4>1, <2>1, <2>5 DEF OneImagePerChannel
    <3>2. CASE q.cid # None
      <4>1. y \in Own(q.cid) BY <3>2, <2>1, <2>5 DEF Own
      <4>2. was \in Own(q.cid) BY <3>2, <4>1, <2>1 DEF Old, OldOfChannel
      <4> QED BY <4>1, <4>2, <2>5, <3>2 DEF Own, OneImagePerChannel
    <3> QED BY <3>1, <3>2
  <2>6. OneImagePerChannel' BY <2>1, <2>5 DEF OneImagePerChannel, Row
  <2> QED BY <1>t, <2>2, <2>4, <2>6
<1>3. ASSUME NEW gone, Remove(gone) PROVE TableInv'
  BY <1>3, <1>t DEF Remove, IdsUnique, OneImagePerChannel, Honest
<1>4. CASE Assign
  <2>1. PICK a \in plan :
          IF StillFree(a)
            THEN /\ rows' = {IF x.id = a[1] THEN [x EXCEPT !.cid = a[2]] ELSE x : x \in rows}
                 /\ UNCHANGED alias
            ELSE UNCHANGED <<rows, alias>>
    BY <1>4 DEF Assign, Database
  <2> DEFINE New(x) == IF x.id = a[1] THEN [x EXCEPT !.cid = a[2]] ELSE x
  <2>2. CASE UNCHANGED <<rows, alias>>
    BY <2>2, <1>t DEF IdsUnique, OneImagePerChannel, Honest
  <2>3. CASE /\ StillFree(a)
             /\ rows' = {New(x) : x \in rows}
             /\ UNCHANGED alias
    <3>1. \A x \in rows : /\ New(x).id = x.id /\ New(x).of = x.of
                          /\ New(x).cid = IF x.id = a[1] THEN a[2] ELSE x.cid
      BY DEF TypeOK, ImageRow
    <3> HIDE DEF New
    <3>2. IdsUnique' BY <2>3, <3>1 DEF IdsUnique
    <3>4. \A x \in rows : x.id = a[1] => x.cid = None /\ \A y \in rows : y.cid # a[2]
      BY <2>3 DEF StillFree, Row, Own, IdsUnique
    <3>5. None \notin Cid BY StoreAssumption
    <3>6. \A x \in rows : x.of \in Cid \cup {"legacy", "base"} BY DEF TypeOK, ImageRow
    <3>7. Honest' BY <2>3, <3>1, <3>4, <3>5, <3>6 DEF Honest
    <3>8. ASSUME NEW x \in rows, NEW y \in rows, New(x).cid = New(y).cid, New(x).cid # None
          PROVE  x = y
      BY <3>1, <3>4, <3>8 DEF OneImagePerChannel, IdsUnique
    <3>9. OneImagePerChannel' BY <2>3, <3>8 DEF OneImagePerChannel
    <3> QED BY <1>t, <3>2, <3>7, <3>9
  <2> QED BY <2>1, <2>2, <2>3
<1> QED BY <1>1, <1>2, <1>3, <1>4, TableSteps

\* No upload and no backfill ever gives a channel a second image.
THEOREM OneImage == Spec => []OneImagePerChannel
<1>1. TableInv /\ [Next]_vars => TableInv' BY TableStep
<1>2. TableInv => OneImagePerChannel BY DEF TableInv
<1> QED BY TableInit, <1>1, <1>2, PTL DEF Spec

-----------------------------------------------------------------------------
(* The shared image for spacers, when no channel has a name that could be   *)
(* mistaken for the reserved one                                            *)

Usual(n) == Key[n] # Key[Base]
Reserved == \A n \in ChannelName : Usual(n)

ChannelsUsual ==
  \A c \in Cid : /\ live[c] # None => Usual(live[c])
                 /\ cached[c] # None => Usual(cached[c])
                 /\ refs[c] # None => Usual(refs[c])

ForChannel(q) ==
  q.at \in {"owned", "taken", "touch"} \/ (q.at = "sync" /\ q.op \in {"upload", "banner"})

RequestUsual(q) ==
  /\ \A c \in Cid : q.seen[c] # None => Usual(q.seen[c])
  /\ q.cid # None => Usual(q.name)
  /\ q.cid = None /\ q.at \in {"store", "write"} => q.name = Base
  /\ ForChannel(q) => q.cid # None

RequestsUsual == \A r \in Request : RequestUsual(req[r])

\* The shared image never has a channel, nor a name or alias but its own.
TablesApart ==
  /\ \A x \in rows : x.id < nextId
  /\ \A x \in rows : x.name = Base => x.cid = None
  /\ \A p \in alias : \E x \in rows : x.id = p[2] /\ (x.name = Base <=> p[1] = Base)
  /\ \A x, y \in rows : x.name = Base /\ y.name = Base => x = y
  /\ \A x \in rows : x.of = "base" <=> x.name = Base

\* What a request has read is on its side of the table when it writes.
IdsApart(q, table, next) ==
  /\ \A i \in q.ids : i < next
  /\ q.at = "write" /\ q.cid = None =>
       \A i \in q.ids : \E x \in table : x.id = i /\ x.name = Base
  /\ q.at = "drop" \/ (q.at = "write" /\ q.cid # None) =>
       \A i \in q.ids : \A x \in table : x.id = i => x.name # Base

ReadsApart == \A r \in Request : IdsApart(req[r], rows, nextId)

ScriptApart ==
  /\ \A a \in plan : a[1] < nextId /\ \A x \in rows : x.id = a[1] => x.name # Base
  /\ \A o \in offers : o[1] < nextId
  /\ \A o \in offers : o[2] # Key[Base] => \A x \in rows : x.id = o[1] => x.name # Base

ApartInv ==
  TableInv /\ ChannelsUsual /\ RequestsUsual /\ TablesApart /\ ReadsApart /\ ScriptApart

LEMMA UsualNames ==
  ASSUME NEW n \in Name, Usual(n)
  PROVE  n # Base /\ Key[n] # Base /\ Usual(Key[n])
BY StoreAssumption DEF Usual

LEMMA LegacyApart ==
  ASSUME TableInv, TablesApart, NEW n \in Name, NEW i \in LegacyIds(n)
  PROVE  /\ i < nextId
         /\ n = Base => \E x \in rows : x.id = i /\ x.name = Base
         /\ n # Base => \A x \in rows : x.id = i => x.name # Base
<1>1. CASE \E p \in alias : p[2] = i /\ Matches(p[1], n)
  <2>1. PICK p \in alias : p[2] = i /\ Matches(p[1], n) BY <1>1
  <2>2. PICK x \in rows : x.id = i /\ (x.name = Base <=> p[1] = Base)
    BY <2>1 DEF TablesApart
  <2>3. n = Base <=> p[1] = Base BY <2>1 DEF Matches
  <2>4. \A y \in rows : y.id = i => y = x BY <2>2 DEF TableInv, IdsUnique
  <2> QED BY <2>2, <2>3, <2>4 DEF TablesApart
<1>2. CASE \E x \in rows : x.id = i /\ Matches(x.name, n)
  <2>1. PICK x \in rows : x.id = i /\ Matches(x.name, n) BY <1>2
  <2>2. n = Base <=> x.name = Base BY <2>1 DEF Matches
  <2>3. \A y \in rows : y.id = i => y = x BY <2>1 DEF TableInv, IdsUnique
  <2> QED BY <2>1, <2>2, <2>3 DEF TablesApart
<1> QED BY <1>1, <1>2 DEF LegacyIds

\* The row an upload replaces is the shared image exactly if it is uploaded.
LEMMA OldApart ==
  ASSUME ApartInv, NEW r \in Request, req[r].at = "write", NEW was \in Old(req[r])
  PROVE  was \in rows /\ (was.name = Base <=> req[r].cid = None)
<1> DEFINE q == req[r]
<1>1. was \in rows BY ReadTypes DEF ApartInv, TableInv
<1>2. CASE q.cid # None
  <2>1. CASE was.cid = q.cid BY <1>1, <1>2, <2>1 DEF ApartInv, TablesApart
  <2>2. CASE was.cid # q.cid
    <3>1. was.id \in q.ids BY <1>2, <2>2 DEF Old, OldOfChannel, Own, Adoptable
    <3> QED BY <1>1, <1>2, <3>1 DEF ApartInv, ReadsApart, IdsApart
  <2> QED BY <2>1, <2>2, <1>2
<1>3. CASE q.cid = None
  <2>1. q.name = Base BY <1>3 DEF ApartInv, RequestsUsual, RequestUsual
  <2>2. CASE was.id \in q.ids
    <3>1. PICK x \in rows : x.id = was.id /\ x.name = Base
      BY <1>3, <2>2 DEF ApartInv, ReadsApart, IdsApart
    <3>2. x = was BY <1>1, <3>1 DEF ApartInv, TableInv, IdsUnique
    <3> QED BY <1>1, <1>3, <3>1, <3>2
  <2>3. CASE was.id \notin q.ids
    <3>1. was.name = q.name BY <1>3, <2>3 DEF Old, OldOfName
    <3> QED BY <1>1, <1>3, <2>1, <3>1
  <2> QED BY <2>2, <2>3
<1> QED BY <1>1, <1>2, <1>3

\* An upload of the shared image replaces the one there is.
LEMMA BaseFound ==
  ASSUME ApartInv, NEW r \in Request, req[r].at = "write", req[r].cid = None,
         NEW x \in rows, x.name = Base
  PROVE  Old(req[r]) = {x}
<1> DEFINE q == req[r]
<1>1. q.name = Base BY DEF ApartInv, RequestsUsual, RequestUsual
<1>2. x.cid = None BY DEF ApartInv, TablesApart
<1>3. \A y \in rows : y.name = Base => y = x BY DEF ApartInv, TablesApart
<1>4. CASE q.ids = {} BY <1>1, <1>2, <1>3, <1>4 DEF Old, OldOfName
<1>5. CASE q.ids # {}
  <2>1. \A i \in q.ids : \E y \in rows : y.id = i /\ y.name = Base
    BY DEF ApartInv, ReadsApart, IdsApart
  <2>2. \A i \in q.ids : i = x.id BY <2>1, <1>3
  <2>3. \A y \in rows : y.id = x.id => y = x BY DEF ApartInv, TableInv, IdsUnique
  <2> QED BY <1>5, <2>2, <2>3 DEF Old, OldOfName
<1> QED BY <1>4, <1>5

LEMMA ApartInit == Reserved /\ Init => ApartInv
<1> SUFFICES ASSUME Reserved, Init PROVE ApartInv OBVIOUS
<1>1. PICK old \in SUBSET DOMAIN OldId :
        /\ rows = {[id |-> OldId[n], cid |-> None, name |-> n,
                    of |-> IF n = Base THEN "base" ELSE "legacy"] : n \in old}
        /\ alias = {<<n, OldId[n]>> : n \in old}
  BY DEF Init
<1>2. /\ nextId = FirstId
      /\ \A n \in old : OldId[n] < FirstId
      /\ \A m, n \in old : OldId[m] = OldId[n] => m = n
  BY StoreAssumption DEF Init
<1>3. TablesApart
  <2> DEFINE x(n) == [id |-> OldId[n], cid |-> None, name |-> n,
                      of |-> IF n = Base THEN "base" ELSE "legacy"]
  <2>1. \A n \in old : /\ x(n).id = OldId[n] /\ x(n).cid = None /\ x(n).name = n
                       /\ x(n).of = "base" <=> n = Base
    OBVIOUS
  <2>2. rows = {x(n) : n \in old} BY <1>1
  <2>3. \A p \in alias : \E n \in old : p[1] = n /\ p[2] = OldId[n] BY <1>1
  <2> HIDE DEF x
  <2> QED BY <1>2, <2>1, <2>2, <2>3 DEF TablesApart
<1>4. live \in [Cid -> ChannelName \cup {None}] /\ cached = live /\ refs = [c \in Cid |-> None]
  BY DEF Init
<1>5. ChannelsUsual BY <1>4 DEF Reserved, ChannelsUsual
<1>6. req = [r \in Request |-> Idle] BY DEF Init
<1>7. RequestUsual(Idle) /\ IdsApart(Idle, rows, nextId)
  BY DEF Idle, RequestUsual, ForChannel, IdsApart
<1>8. plan = {} /\ offers = {} BY DEF Init
<1> QED
  BY <1>3, <1>5, <1>6, <1>7, <1>8, TableInit DEF ApartInv, RequestsUsual, ReadsApart, ScriptApart

LEMMA ChannelsUsualStep == Reserved /\ ApartInv /\ [Next]_vars => ChannelsUsual'
<1> SUFFICES ASSUME Reserved, ApartInv, [Next]_vars PROVE ChannelsUsual' OBVIOUS
<1> USE DEF ApartInv, TableInv
<1>u. UNCHANGED <<live, cached, refs>> => ChannelsUsual' BY DEF ChannelsUsual
<1>1. ASSUME NEW r \in Request, Sync(r) PROVE ChannelsUsual'
  BY <1>1 DEF Sync, Replaced, ChannelsUsual, RequestsUsual, RequestUsual
<1>2. ASSUME NEW r \in Request, Touch(r) PROVE ChannelsUsual'
  <2>1. Usual(req[r].name) BY <1>2 DEF Touch, RequestsUsual, RequestUsual, ForChannel
  <2> QED BY <1>2, <2>1 DEF Touch, ChannelsUsual, TypeOK, Snapshot
<1>3. ASSUME NEW r \in Request, Write(r) PROVE ChannelsUsual'
  <2>1. req[r].cid # None => Usual(req[r].name) BY DEF RequestsUsual, RequestUsual
  <2>2. /\ refs' = IF req[r].cid = None THEN refs ELSE [refs EXCEPT ![req[r].cid] = req[r].name]
        /\ UNCHANGED <<live, cached>>
    BY <1>3 DEF Write
  <2> QED BY <2>1, <2>2 DEF ChannelsUsual, TypeOK, Snapshot
<1>4. ASSUME NEW c \in Cid, NEW n \in ChannelName \cup {None}, Change(c, n) PROVE ChannelsUsual'
  BY <1>4 DEF Change, ChannelsUsual, Reserved, TypeOK, Snapshot
<1>5. CASE Refresh BY <1>5 DEF Refresh, ChannelsUsual
<1>6. ASSUME NEW r \in Request,
             UploadById(r) \/ SetBannerUrl(r) \/ List(r) \/ UploadByName(r) \/ CheckOwned(r) \/
             CheckTaken(r) \/ UploadBase(r) \/ StoreSlice(r) \/ Resolve(r) \/ DeleteByName(r) \/ Drop(r)
      PROVE  ChannelsUsual'
  BY <1>6, <1>u DEF UploadById, SetBannerUrl, ById, List, UploadByName, CheckOwned, CheckTaken,
       UploadBase, StoreSlice, Resolve, DeleteByName, Drop
<1>7. ASSUME NEW c \in Cid, DeleteById(c) \/ EraseSlice(c) PROVE ChannelsUsual'
  BY <1>7, <1>u DEF DeleteById, EraseSlice
<1>8. CASE Backfill \/ MakePlan \/ Assign \/ BackfillDies
  BY <1>8, <1>u DEF Backfill, MakePlan, Assign, BackfillDies
<1>9. CASE UNCHANGED vars BY <1>9, <1>u DEF vars
<1> QED
  BY <1>1, <1>2, <1>3, <1>4, <1>5, <1>6, <1>7, <1>8, <1>9 DEF Next, Begin, Step

LEMMA RequestsUsualStep == Reserved /\ ApartInv /\ [Next]_vars => RequestsUsual'
<1> SUFFICES ASSUME Reserved, ApartInv, [Next]_vars PROVE RequestsUsual' OBVIOUS
<1> USE DEF ApartInv, TableInv
<1>b. ASSUME NEW r \in Request, NEW q, Become(r, q), RequestUsual(q) PROVE RequestsUsual'
  BY <1>b DEF Become, RequestsUsual, TypeOK
<1>u. UNCHANGED req => RequestsUsual' BY DEF RequestsUsual
<1>i. RequestUsual(Idle) BY DEF Idle, RequestUsual, ForChannel
<1>d. ASSUME NEW r \in Request, Done(r) PROVE RequestsUsual' BY <1>b, <1>d, <1>i DEF Done
<1>r. \A r \in Request : req[r] \in RequestRecord BY DEF TypeOK
<1>p. ASSUME NEW r \in Request, NEW s \in {"touch", "taken", "store"}, Proceed(r, s),
             req[r].cid # None
      PROVE  RequestsUsual'
  <2> DEFINE q == [req[r] EXCEPT !.at = s, !.seen = Idle.seen]
  <2>1. RequestUsual(q)
    BY <1>p, <1>r DEF RequestsUsual, RequestUsual, ForChannel, Idle, RequestRecord
  <2> QED BY <1>b, <1>p, <2>1 DEF Proceed
<1>1. ASSUME NEW r \in Request, NEW op \in {"upload", "banner"}, ById(r, op) PROVE RequestsUsual'
  <2>1. PICK c \in Cid : /\ cached[c] # None
                         /\ Become(r, [Idle EXCEPT !.op = op, !.at = "sync", !.cid = c,
                                                   !.name = cached[c], !.seen = cached])
    BY <1>1 DEF ById, Found
  <2> DEFINE q == [Idle EXCEPT !.op = op, !.at = "sync", !.cid = c, !.name = cached[c],
                              !.seen = cached]
  <2>2. RequestUsual(q)
    BY <2>1, StoreAssumption DEF Idle, RequestUsual, ForChannel, ChannelsUsual
  <2> QED BY <1>b, <2>1, <2>2
<1>2. ASSUME NEW r \in Request, UploadById(r) \/ SetBannerUrl(r) PROVE RequestsUsual'
  BY <1>1, <1>2 DEF UploadById, SetBannerUrl
<1>3. ASSUME NEW r \in Request, List(r) PROVE RequestsUsual'
  <2> DEFINE q == [Idle EXCEPT !.op = "list", !.at = "sync", !.seen = cached]
  <2>1. RequestUsual(q) BY DEF Idle, RequestUsual, ForChannel, ChannelsUsual
  <2> QED BY <1>b, <1>3, <2>1 DEF List
<1>4. ASSUME NEW r \in Request, Sync(r) PROVE RequestsUsual'
  <2>1. CASE req[r].op \in {"upload", "banner"}
    <3>1. req[r].cid # None BY <1>4, <2>1 DEF Sync, RequestsUsual, RequestUsual, ForChannel
    <3> QED BY <1>4, <1>p, <2>1, <3>1 DEF Sync
  <2>2. CASE req[r].op \notin {"upload", "banner"} BY <1>4, <1>d, <2>2 DEF Sync
  <2> QED BY <2>1, <2>2
<1>5. ASSUME NEW r \in Request, UploadByName(r) PROVE RequestsUsual'
  <2>1. PICK c \in Cid : /\ cached[c] # None
                         /\ Become(r, [Idle EXCEPT !.op = "upload", !.at = "owned", !.cid = c,
                                                   !.name = Key[cached[c]]])
    BY <1>5 DEF UploadByName
  <2>2. cached[c] \in Name BY <2>1 DEF TypeOK, Snapshot
  <2>3. Usual(Key[cached[c]]) BY <2>1, <2>2, UsualNames DEF ChannelsUsual
  <2> DEFINE q == [Idle EXCEPT !.op = "upload", !.at = "owned", !.cid = c,
                              !.name = Key[cached[c]]]
  <2>4. RequestUsual(q) BY <2>3, StoreAssumption DEF Idle, RequestUsual, ForChannel
  <2> QED BY <1>b, <2>1, <2>4
<1>6. ASSUME NEW r \in Request, CheckOwned(r) \/ CheckTaken(r) PROVE RequestsUsual'
  <2>1. req[r].cid # None
    BY <1>6 DEF CheckOwned, CheckTaken, RequestsUsual, RequestUsual, ForChannel
  <2> QED BY <1>6, <1>p, <1>d, <2>1 DEF CheckOwned, CheckTaken
<1>7. ASSUME NEW r \in Request, UploadBase(r) PROVE RequestsUsual'
  <2> DEFINE q == [Idle EXCEPT !.op = "upload", !.at = "store"]
  <2>1. RequestUsual(q) BY DEF Idle, RequestUsual, ForChannel
  <2> QED BY <1>b, <1>7, <2>1 DEF UploadBase
<1>8. ASSUME NEW r \in Request, StoreSlice(r) PROVE RequestsUsual'
  <2>1. PICK c \in Cid : /\ live[c] # None
                         /\ Become(r, [Idle EXCEPT !.op = "upload", !.at = "store", !.cid = c,
                                                   !.name = live[c]])
    BY <1>8 DEF StoreSlice
  <2> DEFINE q == [Idle EXCEPT !.op = "upload", !.at = "store", !.cid = c, !.name = live[c]]
  <2>2. RequestUsual(q)
    BY <2>1, StoreAssumption DEF Idle, RequestUsual, ForChannel, ChannelsUsual
  <2> QED BY <1>b, <2>1, <2>2
<1>9. ASSUME NEW r \in Request, Resolve(r) PROVE RequestsUsual'
  <2> DEFINE q == [req[r] EXCEPT !.at = "write", !.ids = LegacyIds(req[r].name)]
  <2>1. RequestUsual(q)
    BY <1>9, <1>r DEF Resolve, RequestsUsual, RequestUsual, ForChannel, RequestRecord
  <2> QED BY <1>b, <1>d, <1>9, <2>1 DEF Resolve
<1>10. ASSUME NEW r \in Request, Touch(r) \/ Write(r) \/ Drop(r) PROVE RequestsUsual'
  BY <1>10, <1>d DEF Touch, Write, Drop
<1>11. ASSUME NEW r \in Request, DeleteByName(r) PROVE RequestsUsual'
  <2>1. PICK n : Become(r, [Idle EXCEPT !.op = "delete", !.at = "drop", !.ids = LegacyIds(n)])
    BY <1>11 DEF DeleteByName
  <2> DEFINE q == [Idle EXCEPT !.op = "delete", !.at = "drop", !.ids = LegacyIds(n)]
  <2>2. RequestUsual(q) BY DEF Idle, RequestUsual, ForChannel
  <2> QED BY <1>b, <2>1, <2>2
<1>12. ASSUME NEW c \in Cid, DeleteById(c) \/ EraseSlice(c) PROVE RequestsUsual'
  BY <1>12, <1>u DEF DeleteById, EraseSlice
<1>13. CASE Backfill \/ MakePlan \/ Assign \/ BackfillDies \/ Refresh
  BY <1>13, <1>u DEF Backfill, MakePlan, Assign, BackfillDies, Refresh
<1>14. ASSUME NEW c \in Cid, NEW n \in ChannelName \cup {None}, Change(c, n) PROVE RequestsUsual'
  BY <1>14, <1>u DEF Change
<1>15. CASE UNCHANGED vars BY <1>15, <1>u DEF vars
<1> QED
  BY <1>2, <1>3, <1>4, <1>5, <1>6, <1>7, <1>8, <1>9, <1>10, <1>11, <1>12, <1>13, <1>14, <1>15
  DEF Next, Begin, Step

LEMMA TablesApartStep == Reserved /\ ApartInv /\ [Next]_vars => TablesApart'
<1> SUFFICES ASSUME Reserved, ApartInv, [Next]_vars PROVE TablesApart' OBVIOUS
<1>i. nextId \in Id BY DEF ApartInv, TableInv, TypeOK
<1>1. CASE UNCHANGED <<rows, alias, nextId>>
  BY <1>1 DEF ApartInv, TablesApart
<1>2. ASSUME NEW r \in Request, Write(r) PROVE TablesApart'
  <2> DEFINE q == req[r]
  <2>1. PICK was \in ImageRow, row \in ImageRow :
           /\ rows' = (rows \ Row(was.id)) \cup {row}
           /\ alias' = alias \cup {<<q.name, was.id>>, <<was.name, was.id>>}
           /\ row.id = was.id
           /\ row.name = q.name
           /\ row.cid = IF q.cid = None THEN was.cid ELSE q.cid
           /\ row.of = IF q.cid = None THEN "base" ELSE q.cid
           /\ \/ was \in Old(q) /\ nextId' = nextId
              \/ /\ Old(q) = {} /\ was.id = nextId /\ was.cid = None
                 /\ was.name = q.name /\ nextId' = nextId + 1
    BY <1>2, WriteRow DEF ApartInv, TableInv
  <2>2. q.at = "write" BY <1>2 DEF Write
  <2>3. q.name \in Name BY DEF ApartInv, TableInv, TypeOK, RequestRecord
  <2>4. q.name = Base <=> q.cid = None
    BY <2>2, <2>3, UsualNames DEF ApartInv, RequestsUsual, RequestUsual
  <2>5. was.name = Base <=> row.name = Base BY <2>1, <2>2, <2>4, OldApart
  <2>6. was \in Old(q) => was \in rows BY <2>2, OldApart
  <2>7. \A x \in rows : x.id < nextId BY DEF ApartInv, TablesApart
  <2>8. row.id < nextId' /\ \A x \in rows : x.id < nextId'
    BY <2>1, <2>6, <2>7, <1>i DEF Id, ImageRow, ApartInv, TableInv, TypeOK
  <2>9. row.name = Base => row.cid = None
    BY <2>1, <2>4, <2>5, <2>6 DEF ApartInv, TablesApart
  <2>10. ASSUME NEW p \in alias' PROVE \E x \in rows' : x.id = p[2] /\ (x.name = Base <=> p[1] = Base)
    <3>1. CASE p \in {<<q.name, was.id>>, <<was.name, was.id>>}
      BY <2>1, <2>5, <3>1
    <3>2. CASE p \in alias
      <4>1. PICK x \in rows : x.id = p[2] /\ (x.name = Base <=> p[1] = Base)
        BY <3>2 DEF ApartInv, TablesApart
      <4>2. CASE x.id # was.id BY <2>1, <4>1, <4>2 DEF Row
      <4>3. CASE x.id = was.id
        <5>1. was \in rows BY <2>1, <2>6, <2>7, <4>3, <1>i DEF Id
        <5>2. x = was BY <4>3, <5>1 DEF ApartInv, TableInv, IdsUnique
        <5> QED BY <2>1, <2>5, <4>1, <5>2
      <4> QED BY <4>2, <4>3
    <3> QED BY <2>1, <2>10, <3>1, <3>2
  <2>11. ASSUME NEW y \in rows, y.id # was.id, y.name = Base, row.name = Base PROVE FALSE
    <3>1. Old(q) = {y} BY <2>1, <2>2, <2>4, <2>11, BaseFound
    <3> QED BY <2>1, <2>11, <3>1
  <2>12. \A x, y \in rows' : x.name = Base /\ y.name = Base => x = y
    BY <2>1, <2>11 DEF ApartInv, TablesApart, Row
  <2>13. row.of = "base" <=> row.name = Base
    <3>1. q.cid # None => q.cid \in Cid BY DEF ApartInv, TableInv, TypeOK, RequestRecord
    <3> QED BY <2>1, <2>4, <3>1, StoreAssumption
  <2> QED BY <2>1, <2>8, <2>9, <2>10, <2>12, <2>13 DEF ApartInv, TablesApart
<1>3. ASSUME NEW gone, Remove(gone) PROVE TablesApart'
  <2>1. ASSUME NEW p \in alias' PROVE \E x \in rows' : x.id = p[2] /\ (x.name = Base <=> p[1] = Base)
    <3>1. p \in alias /\ \A x \in gone : p[2] # x.id BY <1>3, <2>1 DEF Remove
    <3>2. PICK x \in rows : x.id = p[2] /\ (x.name = Base <=> p[1] = Base)
      BY <3>1 DEF ApartInv, TablesApart
    <3> QED BY <1>3, <3>1, <3>2 DEF Remove
  <2> QED BY <1>3, <2>1 DEF Remove, ApartInv, TablesApart
<1>4. CASE Assign
  <2>1. PICK a \in plan :
          IF StillFree(a)
            THEN /\ rows' = {IF x.id = a[1] THEN [x EXCEPT !.cid = a[2]] ELSE x : x \in rows}
                 /\ UNCHANGED <<alias, nextId>>
            ELSE UNCHANGED <<rows, alias, nextId>>
    BY <1>4 DEF Assign, Database
  <2> DEFINE New(x) == IF x.id = a[1] THEN [x EXCEPT !.cid = a[2]] ELSE x
  <2>2. CASE rows' = {New(x) : x \in rows} /\ UNCHANGED <<alias, nextId>>
    <3>1. \A x \in rows : /\ New(x).id = x.id /\ New(x).of = x.of /\ New(x).name = x.name
                          /\ New(x).cid = IF x.id = a[1] THEN a[2] ELSE x.cid
      BY DEF ApartInv, TableInv, TypeOK, ImageRow
    <3>2. \A x \in rows : x.id = a[1] => x.name # Base BY DEF ApartInv, ScriptApart
    <3> HIDE DEF New
    <3>3. \A x \in rows' : x.name = Base => x.cid = None
      BY <2>2, <3>1, <3>2 DEF ApartInv, TablesApart
    <3>4. \A p \in alias' : \E x \in rows' : x.id = p[2] /\ (x.name = Base <=> p[1] = Base)
      BY <2>2, <3>1 DEF ApartInv, TablesApart
    <3>5. \A x \in rows' : x.id < nextId' BY <2>2, <3>1 DEF ApartInv, TablesApart
    <3>6. \A x, y \in rows' : x.name = Base /\ y.name = Base => x = y
      BY <2>2, <3>1 DEF ApartInv, TablesApart
    <3>7. \A x \in rows' : x.of = "base" <=> x.name = Base
      BY <2>2, <3>1 DEF ApartInv, TablesApart
    <3> QED BY <3>3, <3>4, <3>5, <3>6, <3>7 DEF TablesApart
  <2>3. CASE UNCHANGED <<rows, alias, nextId>> BY <2>3 DEF ApartInv, TablesApart
  <2> QED BY <2>1, <2>2, <2>3
<1> QED BY <1>1, <1>2, <1>3, <1>4, TableSteps

\* A row never changes sides, and the shared image never goes.
LEMMA SidesKept ==
  ASSUME Reserved, ApartInv, [Next]_vars
  PROVE  /\ nextId' >= nextId
         /\ \A y \in rows' : \/ y.id >= nextId
                            \/ \E x \in rows : x.id = y.id /\ (x.name = Base <=> y.name = Base)
         /\ \A x \in rows : x.name = Base => \E y \in rows' : y.id = x.id /\ y.name = Base
<1>i. nextId \in Nat BY DEF ApartInv, TableInv, TypeOK, Id
<1>1. CASE UNCHANGED <<rows, alias, nextId>> BY <1>1, <1>i
<1>2. ASSUME NEW r \in Request, Write(r)
      PROVE  /\ nextId' >= nextId
             /\ \A y \in rows' : \/ y.id >= nextId
                                \/ \E x \in rows : x.id = y.id /\ (x.name = Base <=> y.name = Base)
             /\ \A x \in rows : x.name = Base => \E y \in rows' : y.id = x.id /\ y.name = Base
  <2> DEFINE q == req[r]
  <2>1. PICK was \in ImageRow, row \in ImageRow :
           /\ rows' = (rows \ Row(was.id)) \cup {row}
           /\ row.id = was.id
           /\ row.name = q.name
           /\ \/ was \in Old(q) /\ nextId' = nextId
              \/ Old(q) = {} /\ was.id = nextId /\ nextId' = nextId + 1
    BY <1>2, WriteRow DEF ApartInv, TableInv
  <2>2. q.at = "write" BY <1>2 DEF Write
  <2>3. q.name \in Name BY DEF ApartInv, TableInv, TypeOK, RequestRecord
  <2>4. q.name = Base <=> q.cid = None
    BY <2>2, <2>3, UsualNames DEF ApartInv, RequestsUsual, RequestUsual
  <2>5. was \in Old(q) => was \in rows /\ (was.name = Base <=> row.name = Base)
    BY <2>1, <2>2, <2>4, OldApart
  <2>6. nextId' >= nextId BY <2>1, <1>i
  <2>7. ASSUME NEW y \in rows'
        PROVE  \/ y.id >= nextId
               \/ \E x \in rows : x.id = y.id /\ (x.name = Base <=> y.name = Base)
    <3>1. CASE y = row BY <2>1, <2>5, <3>1, <1>i
    <3>2. CASE y # row BY <2>1, <3>2
    <3> QED BY <3>1, <3>2
  <2>8. ASSUME NEW x \in rows, x.name = Base
        PROVE  \E y \in rows' : y.id = x.id /\ y.name = Base
    <3>1. CASE x.id # was.id BY <2>1, <2>8, <3>1 DEF Row
    <3>2. CASE x.id = was.id
      <4>1. x.id < nextId BY DEF ApartInv, TablesApart
      <4>2. x.id \in Nat BY DEF ApartInv, TableInv, TypeOK, ImageRow, Id
      <4>3. was \in rows BY <2>1, <2>5, <3>2, <4>1, <4>2, <1>i
      <4>4. x = was BY <3>2, <4>3 DEF ApartInv, TableInv, IdsUnique
      <4>5. was \in Old(q) BY <2>1, <3>2, <4>1, <4>2, <1>i
      <4> QED BY <2>1, <2>5, <2>8, <4>4, <4>5
    <3> QED BY <3>1, <3>2
  <2> QED BY <2>6, <2>7, <2>8
<1>3. ASSUME NEW gone, Remove(gone), \A x \in gone : x \in rows => x.name # Base
      PROVE  /\ nextId' >= nextId
             /\ \A y \in rows' : \/ y.id >= nextId
                                \/ \E x \in rows : x.id = y.id /\ (x.name = Base <=> y.name = Base)
             /\ \A x \in rows : x.name = Base => \E y \in rows' : y.id = x.id /\ y.name = Base
  BY <1>3, <1>i DEF Remove
<1>4. ASSUME NEW c \in Cid, DeleteById(c) \/ EraseSlice(c)
      PROVE  \E gone : Remove(gone) /\ \A x \in gone : x \in rows => x.name # Base
  <2>1. \A x \in Own(c) : x.name # Base
    BY StoreAssumption DEF Own, ApartInv, TablesApart
  <2>2. \A x \in LegacyOf(c) : x.name # Base
    <3>1. CASE refs[c] = None BY <3>1 DEF LegacyOf
    <3>2. CASE refs[c] # None
      <4>1. refs[c] \in Name /\ Usual(refs[c])
        BY <3>2 DEF ApartInv, ChannelsUsual, TableInv, TypeOK, Snapshot
      <4>2. refs[c] # Base BY <4>1, UsualNames
      <4>3. \A x \in LegacyOf(c) : x \in rows /\ x.id \in LegacyIds(refs[c])
        BY <3>2 DEF LegacyOf, LegacyImage
      <4> QED BY <4>1, <4>2, <4>3, LegacyApart DEF ApartInv
    <3> QED BY <3>1, <3>2
  <2>3. CASE EraseSlice(c) BY <2>1, <2>3 DEF EraseSlice
  <2>4. CASE DeleteById(c) BY <2>1, <2>2, <2>4 DEF DeleteById
  <2> QED BY <1>4, <2>3, <2>4
<1>5. ASSUME NEW r \in Request, Drop(r)
      PROVE  \E gone : Remove(gone) /\ \A x \in gone : x \in rows => x.name # Base
  <2>1. \A x \in rows : x.id \in req[r].ids => x.name # Base
    BY <1>5 DEF Drop, ApartInv, ReadsApart, IdsApart
  <2> QED BY <1>5, <2>1 DEF Drop
<1>6. CASE Assign
  <2>1. PICK a \in plan :
          IF StillFree(a)
            THEN /\ rows' = {IF x.id = a[1] THEN [x EXCEPT !.cid = a[2]] ELSE x : x \in rows}
                 /\ nextId' = nextId
            ELSE rows' = rows /\ nextId' = nextId
    BY <1>6 DEF Assign, Database
  <2> DEFINE New(x) == IF x.id = a[1] THEN [x EXCEPT !.cid = a[2]] ELSE x
  <2>2. \A x \in rows : New(x).id = x.id /\ New(x).name = x.name
    BY DEF ApartInv, TableInv, TypeOK, ImageRow
  <2>3. nextId' = nextId /\ (rows' = {New(x) : x \in rows} \/ rows' = rows) BY <2>1
  <2> HIDE DEF New
  <2> QED BY <2>2, <2>3, <1>i
<1>7. \/ UNCHANGED <<rows, alias, nextId>>
      \/ \E r \in Request : Write(r)
      \/ \E c \in Cid : DeleteById(c) \/ EraseSlice(c)
      \/ \E r \in Request : Drop(r)
      \/ Assign
  BY DEF Next, Begin, Step, vars, Database, ById, UploadById, SetBannerUrl, List, Sync, Touch,
       UploadByName, CheckOwned, CheckTaken, UploadBase, StoreSlice, Resolve,
       DeleteByName, Backfill, MakePlan, BackfillDies, Change, Refresh
<1> QED BY <1>1, <1>2, <1>3, <1>4, <1>5, <1>6, <1>7

LEMMA IdsKept ==
  ASSUME Reserved, ApartInv, [Next]_vars,
         NEW q, q.ids \subseteq Id, IdsApart(q, rows, nextId)
  PROVE  IdsApart(q, rows', nextId')
<1>1. nextId \in Nat /\ nextId' \in Nat
  BY TypeStep DEF ApartInv, TableInv, TypeOK, Id
<1>2. \A i \in q.ids : i \in Nat /\ i < nextId BY DEF IdsApart, Id
<1>3. \A i \in q.ids : i < nextId' BY <1>1, <1>2, SidesKept
<1>4. ASSUME NEW i \in q.ids, NEW y \in rows', y.id = i
      PROVE  \E x \in rows : x.id = i /\ (x.name = Base <=> y.name = Base)
  BY <1>1, <1>2, <1>4, SidesKept
<1>5. ASSUME NEW i \in q.ids, \E x \in rows : x.id = i /\ x.name = Base
      PROVE  \E y \in rows' : y.id = i /\ y.name = Base
  BY <1>5, SidesKept
<1> QED BY <1>3, <1>4, <1>5 DEF IdsApart

LEMMA ReadsApartStep == Reserved /\ ApartInv /\ [Next]_vars => ReadsApart'
<1> SUFFICES ASSUME Reserved, ApartInv, [Next]_vars PROVE ReadsApart' OBVIOUS
<1> USE DEF ApartInv, TableInv
<1>r. \A s \in Request : req[s] \in RequestRecord /\ req[s].ids \subseteq Id
  BY DEF TypeOK, RequestRecord
<1>k. \A s \in Request : IdsApart(req[s], rows', nextId')
  BY <1>r, IdsKept DEF ReadsApart
<1>b. ASSUME NEW r \in Request, NEW q, Become(r, q), IdsApart(q, rows', nextId')
      PROVE  ReadsApart'
  BY <1>b, <1>k DEF Become, ReadsApart, TypeOK
<1>u. UNCHANGED req => ReadsApart' BY <1>k DEF ReadsApart
<1>e. ASSUME NEW q, q.ids = {} PROVE IdsApart(q, rows', nextId')
  BY <1>e DEF IdsApart
<1>d. ASSUME NEW r \in Request, Done(r) PROVE ReadsApart'
  BY <1>b, <1>d, <1>e DEF Done, Idle
<1>p. ASSUME NEW r \in Request, NEW s \in {"touch", "taken", "store"}, Proceed(r, s)
      PROVE  ReadsApart'
  <2> DEFINE q == [req[r] EXCEPT !.at = s, !.seen = Idle.seen]
  <2>1. q.at = s /\ q.ids = req[r].ids BY <1>r DEF RequestRecord
  <2>2. \A i \in req[r].ids : i < nextId' BY <1>k DEF IdsApart
  <2>3. Become(r, q) BY <1>p DEF Proceed
  <2> HIDE DEF q
  <2>4. IdsApart(q, rows', nextId') BY <2>1, <2>2 DEF IdsApart
  <2> QED BY <1>b, <2>3, <2>4
<1>1. ASSUME NEW r \in Request, NEW op \in {"upload", "banner"}, ById(r, op) PROVE ReadsApart'
  BY <1>1, <1>b, <1>e DEF ById, Idle
<1>2. ASSUME NEW r \in Request, UploadById(r) \/ SetBannerUrl(r) PROVE ReadsApart'
  BY <1>1, <1>2 DEF UploadById, SetBannerUrl
<1>3. ASSUME NEW r \in Request, List(r) \/ UploadByName(r) \/ UploadBase(r) \/ StoreSlice(r)
      PROVE  ReadsApart'
  BY <1>3, <1>b, <1>e DEF List, UploadByName, UploadBase, StoreSlice, Idle
<1>4. ASSUME NEW r \in Request, Sync(r) \/ CheckOwned(r) \/ CheckTaken(r) PROVE ReadsApart'
  BY <1>4, <1>p, <1>d DEF Sync, CheckOwned, CheckTaken
<1>5. ASSUME NEW r \in Request, Touch(r) \/ Write(r) \/ Drop(r) PROVE ReadsApart'
  BY <1>5, <1>d DEF Touch, Write, Drop
<1>6. ASSUME NEW r \in Request, Resolve(r) PROVE ReadsApart'
  <2> DEFINE q == [req[r] EXCEPT !.at = "write", !.ids = LegacyIds(req[r].name)]
  <2>1. CASE Done(r) BY <1>d, <2>1
  <2>2. CASE Become(r, q)
    <3>1. q.at = "write" /\ q.cid = req[r].cid /\ q.ids = LegacyIds(req[r].name)
      BY <1>r DEF RequestRecord
    <3>2. req[r].name \in Name BY <1>r DEF RequestRecord
    <3>3. req[r].name = Base <=> req[r].cid = None
      BY <1>6, <3>2, UsualNames DEF Resolve, RequestsUsual, RequestUsual
    <3>4. UNCHANGED <<rows, nextId>> BY <1>6 DEF Resolve, Database
    <3> HIDE DEF q
    <3>5. IdsApart(q, rows', nextId')
      BY <3>1, <3>2, <3>3, <3>4, LegacyApart DEF IdsApart
    <3> QED BY <1>b, <2>2, <3>5
  <2> QED BY <1>6, <2>1, <2>2 DEF Resolve
<1>7. ASSUME NEW r \in Request, DeleteByName(r) PROVE ReadsApart'
  <2>1. PICK m \in ChannelName :
          Become(r, [Idle EXCEPT !.op = "delete", !.at = "drop", !.ids = LegacyIds(Key[m])])
    BY <1>7 DEF DeleteByName
  <2> DEFINE q == [Idle EXCEPT !.op = "delete", !.at = "drop", !.ids = LegacyIds(Key[m])]
  <2>2. Key[m] \in Name /\ Key[m] # Base BY StoreAssumption
  <2>3. UNCHANGED <<rows, nextId>> BY <1>7 DEF DeleteByName, Database
  <2>4. q.at = "drop" /\ q.ids = LegacyIds(Key[m]) BY DEF Idle
  <2>5. Become(r, q) BY <2>1
  <2> HIDE DEF q
  <2>6. IdsApart(q, rows', nextId') BY <2>2, <2>3, <2>4, LegacyApart DEF IdsApart
  <2> QED BY <1>b, <2>5, <2>6
<1>8. ASSUME NEW c \in Cid, DeleteById(c) \/ EraseSlice(c) PROVE ReadsApart'
  BY <1>8, <1>u DEF DeleteById, EraseSlice
<1>9. ASSUME NEW c \in Cid, NEW n \in ChannelName \cup {None}, Change(c, n) PROVE ReadsApart'
  BY <1>9, <1>u DEF Change
<1>10. CASE Backfill \/ MakePlan \/ Assign \/ BackfillDies \/ Refresh
  BY <1>10, <1>u DEF Backfill, MakePlan, Assign, BackfillDies, Refresh
<1>11. CASE UNCHANGED vars BY <1>11, <1>u DEF vars
<1> QED
  BY <1>2, <1>3, <1>4, <1>5, <1>6, <1>7, <1>8, <1>9, <1>10, <1>11 DEF Next, Begin, Step

LEMMA ScriptApartStep == Reserved /\ ApartInv /\ [Next]_vars => ScriptApart'
<1> SUFFICES ASSUME Reserved, ApartInv, [Next]_vars PROVE ScriptApart' OBVIOUS
<1> USE DEF ApartInv, TableInv
<1>i. nextId \in Nat /\ nextId' \in Nat BY TypeStep DEF TypeOK, Id
<1>k. ASSUME NEW i \in Id, i < nextId
      PROVE  /\ i < nextId'
             /\ (\A x \in rows : x.id = i => x.name # Base)
                  => \A y \in rows' : y.id = i => y.name # Base
  <2>1. i \in Nat BY DEF Id
  <2> QED BY <1>i, <1>k, <2>1, SidesKept
<1>p. plan' \subseteq plan =>
        \A a \in plan' : a[1] < nextId' /\ \A x \in rows' : x.id = a[1] => x.name # Base
  <2> SUFFICES ASSUME plan' \subseteq plan, NEW a \in plan'
               PROVE  a[1] < nextId' /\ \A x \in rows' : x.id = a[1] => x.name # Base
    OBVIOUS
  <2>1. a[1] \in Id BY DEF TypeOK
  <2>2. a[1] < nextId /\ \A x \in rows : x.id = a[1] => x.name # Base BY DEF ScriptApart
  <2> QED BY <1>k, <2>1, <2>2
<1>o. offers' \subseteq offers =>
        \A o \in offers' : /\ o[1] < nextId'
                           /\ o[2] # Key[Base] => \A x \in rows' : x.id = o[1] => x.name # Base
  <2> SUFFICES ASSUME offers' \subseteq offers, NEW o \in offers'
               PROVE  /\ o[1] < nextId'
                      /\ o[2] # Key[Base] => \A x \in rows' : x.id = o[1] => x.name # Base
    OBVIOUS
  <2>1. o[1] \in Id BY DEF TypeOK
  <2>2. /\ o[1] < nextId
        /\ o[2] # Key[Base] => \A x \in rows : x.id = o[1] => x.name # Base
    <3>1. o \in offers OBVIOUS
    <3> QED BY <3>1, Zenon DEF ScriptApart
  <2> QED BY <1>k, <2>1, <2>2
<1>1. CASE plan' \subseteq plan /\ offers' \subseteq offers
  BY <1>1, <1>p, <1>o DEF ScriptApart
<1>2. CASE Backfill
  <2>1. plan' = plan /\ offers' = Offers /\ UNCHANGED <<rows, nextId>>
    BY <1>2 DEF Backfill, Database
  <2>2. ASSUME NEW o \in Offers
        PROVE  /\ o[1] < nextId
               /\ o[2] # Key[Base] => \A x \in rows : x.id = o[1] => x.name # Base
    <3>1. PICK x \in rows : o[1] = x.id /\ o[2] = Key[x.name] BY DEF Offers
    <3>2. \A y \in rows : y.id = o[1] => y = x BY <3>1 DEF IdsUnique
    <3> QED BY <3>1, <3>2 DEF TablesApart
  <2> QED BY <2>1, <2>2, <1>p DEF ScriptApart
<1>3. CASE MakePlan
  <2>1. plan' = Planned(offers) /\ offers' = {} /\ UNCHANGED <<rows, nextId>>
    BY <1>3 DEF MakePlan, Database
  <2>2. ASSUME NEW a \in Planned(offers)
        PROVE  a[1] < nextId /\ \A x \in rows : x.id = a[1] => x.name # Base
    <3>1. PICK o \in offers :
            /\ a = <<o[1], o[3]>>
            /\ {c \in Cid : live[c] # None /\ Key[live[c]] = o[2]} = {o[3]}
      BY DEF Planned
    <3>2. \E c \in Cid : live[c] # None /\ Key[live[c]] = o[2] BY <3>1
    <3>3. o[2] # Key[Base] BY <3>2 DEF ChannelsUsual, Usual
    <3>4. a[1] = o[1] BY <3>1
    <3>5. o[1] < nextId /\ \A x \in rows : x.id = o[1] => x.name # Base
      BY <3>3, Zenon DEF ScriptApart
    <3> QED BY <3>4, <3>5
  <2> QED BY <2>1, <2>2 DEF ScriptApart
<1>4. (plan' \subseteq plan /\ offers' \subseteq offers) \/ Backfill \/ MakePlan
  BY DEF Next, Begin, Step, vars, ById, UploadById, SetBannerUrl, List, Sync, Touch, Script,
       UploadByName, CheckOwned, CheckTaken, UploadBase, StoreSlice, Resolve, Write, DeleteById,
       DeleteByName, Drop, EraseSlice, Assign, BackfillDies, Change, Refresh
<1> QED BY <1>1, <1>2, <1>3, <1>4

LEMMA ApartStep == Reserved /\ ApartInv /\ [Next]_vars => ApartInv'
<1>1. Reserved /\ ApartInv /\ [Next]_vars => TableInv' BY TableStep DEF ApartInv
<1> QED
  BY <1>1, ChannelsUsualStep, RequestsUsualStep, TablesApartStep, ReadsApartStep, ScriptApartStep
  DEF ApartInv

\* Uploads of the shared image that overtake each other leave one image.
THEOREM OneBase == ASSUME Reserved PROVE Spec => []OneBaseImage
<1>1. ApartInv => OneBaseImage
  BY LegacyApart, StoreAssumption DEF ApartInv, TablesApart, OneBaseImage
<1>2. Init => ApartInv BY ApartInit
<1>3. ApartInv /\ [Next]_vars => ApartInv' BY ApartStep
<1> QED BY <1>1, <1>2, <1>3, PTL DEF Spec

\* A channel's address shows its own picture, one from before the channels had
\* ids, or the shared one, and never what was uploaded for another channel.
THEOREM OwnPictures == ASSUME Reserved PROVE Spec => []NeverAnothersPicture
<1>1. ASSUME ApartInv, NEW c \in Cid, NEW x \in Shown(c)
      PROVE  x.of \in {c, "legacy", "base"}
  <2> USE <1>1 DEF ApartInv, TableInv
  <2>1. CASE x \in Own(c) BY <2>1 DEF Own, Honest
  <2>2. CASE x \in rows /\ x.cid = None
    <3>1. x.of \in Cid \cup {"legacy", "base"} BY <2>2 DEF TypeOK, ImageRow
    <3> QED BY <2>2, <3>1, StoreAssumption DEF Honest
  <2>3. CASE x \in rows /\ x.id \in LegacyIds(Base)
    <3>1. \E y \in rows : y.id = x.id /\ y.name = Base
      BY <2>3, LegacyApart, StoreAssumption
    <3>2. x.name = Base BY <2>3, <3>1 DEF IdsUnique
    <3> QED BY <2>3, <3>2 DEF TablesApart
  <2> QED BY <1>1, <2>1, <2>2, <2>3 DEF Shown, LegacyOf, LegacyImage
<1>2. ApartInv => NeverAnothersPicture BY <1>1 DEF NeverAnothersPicture
<1>3. Init => ApartInv BY ApartInit
<1>4. ApartInv /\ [Next]_vars => ApartInv' BY ApartStep
<1> QED BY <1>2, <1>3, <1>4, PTL DEF Spec

\* The shared image stays nobody's, and stays the shared image: what run
\* base_owned refutes for a channel with the reserved name's normal form holds
\* whenever no channel has one.
THEOREM BaseStaysShared == ASSUME Reserved PROVE Spec => BaseIsNeverOwned
<1> DEFINE Stays == \A x \in rows, y \in rows' :
              x.id = y.id /\ x.of = "base" => y.of = "base" /\ y.cid = None
<1>1. ASSUME ApartInv, [Next]_vars PROVE Stays
  <2>1. ApartInv' BY <1>1, ApartStep
  <2>2. nextId \in Nat BY <1>1 DEF ApartInv, TableInv, TypeOK, Id
  <2>3. ASSUME NEW x \in rows, NEW y \in rows', x.id = y.id, x.of = "base"
        PROVE  y.of = "base" /\ y.cid = None
    <3>1. x.name = Base /\ x.id < nextId BY <1>1, <2>3 DEF ApartInv, TablesApart
    <3>2. x.id \in Nat BY <1>1 DEF ApartInv, TableInv, TypeOK, ImageRow, Id
    <3>3. PICK z \in rows : z.id = y.id /\ (z.name = Base <=> y.name = Base)
      BY <1>1, <2>2, <2>3, <3>1, <3>2, SidesKept
    <3>4. z = x BY <1>1, <2>3, <3>3 DEF ApartInv, TableInv, IdsUnique
    <3> QED BY <2>1, <3>1, <3>3, <3>4 DEF ApartInv, TablesApart
  <2> QED BY <2>3
<1>2. Init => ApartInv BY ApartInit
<1>3. ApartInv /\ [Next]_vars => ApartInv' BY ApartStep
<1> QED BY <1>1, <1>2, <1>3, PTL DEF Spec, BaseIsNeverOwned

-----------------------------------------------------------------------------
(* The channel list and the addresses                                       *)

\* An image without a channel was never renamed: all its aliases are its name.
AliasesFit ==
  \A x \in rows : \A p \in alias : p[2] = x.id /\ x.cid = None => Key[p[1]] = Key[x.name]

LEMMA AliasesFitInit == Init => AliasesFit
<1> SUFFICES ASSUME Init PROVE AliasesFit OBVIOUS
<1>1. PICK old \in SUBSET DOMAIN OldId :
        /\ rows = {[id |-> OldId[n], cid |-> None, name |-> n,
                    of |-> IF n = Base THEN "base" ELSE "legacy"] : n \in old}
        /\ alias = {<<n, OldId[n]>> : n \in old}
  BY DEF Init
<1>2. \A m, n \in old : OldId[m] = OldId[n] => m = n BY StoreAssumption
<1>3. ASSUME NEW x \in rows, NEW p \in alias, p[2] = x.id PROVE p[1] = x.name
  <2>1. PICK n \in old : x.id = OldId[n] /\ x.name = n BY <1>1
  <2>2. PICK m \in old : p[1] = m /\ p[2] = OldId[m] BY <1>1
  <2> QED BY <1>2, <1>3, <2>1, <2>2
<1> QED BY <1>3 DEF AliasesFit

LEMMA AliasesFitStep == Reserved /\ ApartInv /\ AliasesFit /\ [Next]_vars => AliasesFit'
<1> SUFFICES ASSUME Reserved, ApartInv, AliasesFit, [Next]_vars PROVE AliasesFit' OBVIOUS
<1>1. CASE UNCHANGED <<rows, alias, nextId>> BY <1>1 DEF AliasesFit
<1>2. ASSUME NEW r \in Request, Write(r) PROVE AliasesFit'
  <2> DEFINE q == req[r]
  <2>1. PICK was \in ImageRow, row \in ImageRow :
           /\ rows' = (rows \ Row(was.id)) \cup {row}
           /\ alias' = alias \cup {<<q.name, was.id>>, <<was.name, was.id>>}
           /\ row.id = was.id
           /\ row.name = q.name
           /\ row.cid = IF q.cid = None THEN was.cid ELSE q.cid
           /\ \/ was \in Old(q)
              \/ was.id = nextId /\ was.name = q.name
    BY <1>2, WriteRow DEF ApartInv, TableInv
  <2>2. q.at = "write" BY <1>2 DEF Write
  <2>3. was \in Old(q) => was \in rows /\ (was.name = Base <=> q.cid = None)
    BY <2>2, OldApart
  <2>4. \A p \in alias : p[2] = nextId => FALSE
    BY DEF ApartInv, TableInv, TablesApart, TypeOK, Id
  <2>5. ASSUME NEW p \in alias', p[2] = row.id, row.cid = None PROVE Key[p[1]] = Key[row.name]
    <3>1. q.cid = None /\ was.cid = None BY <2>1, <2>5
    <3>2. q.name = Base BY <2>2, <3>1 DEF ApartInv, RequestsUsual, RequestUsual
    <3>3. was.name = Base BY <2>1, <2>3, <3>1, <3>2
    <3>4. CASE p \in alias
      <4>1. was \in rows BY <2>1, <2>3, <2>4, <2>5, <3>4
      <4> QED BY <2>1, <2>5, <3>1, <3>2, <3>3, <3>4, <4>1 DEF AliasesFit
    <3> QED BY <2>1, <3>2, <3>3, <3>4
  <2>6. ASSUME NEW x \in rows, x.id # was.id, NEW p \in alias', p[2] = x.id, x.cid = None
        PROVE  Key[p[1]] = Key[x.name]
    BY <2>1, <2>6 DEF AliasesFit
  <2>7. \A x \in rows' : x = row \/ (x \in rows /\ x.id # was.id) BY <2>1 DEF Row
  <2> QED BY <2>5, <2>6, <2>7 DEF AliasesFit
<1>3. ASSUME NEW gone, Remove(gone) PROVE AliasesFit' BY <1>3 DEF Remove, AliasesFit
<1>4. CASE Assign
  <2>1. PICK a \in plan :
          IF StillFree(a)
            THEN /\ rows' = {IF x.id = a[1] THEN [x EXCEPT !.cid = a[2]] ELSE x : x \in rows}
                 /\ alias' = alias
            ELSE UNCHANGED <<rows, alias>>
    BY <1>4 DEF Assign, Database
  <2> DEFINE New(x) == IF x.id = a[1] THEN [x EXCEPT !.cid = a[2]] ELSE x
  <2>2. a[2] # None BY StoreAssumption DEF ApartInv, TableInv, TypeOK
  <2>3. \A x \in rows : /\ New(x).id = x.id /\ New(x).name = x.name
                        /\ New(x).cid = None => x.cid = None
    BY <2>2 DEF ApartInv, TableInv, TypeOK, ImageRow
  <2>4. alias' = alias /\ (rows' = {New(x) : x \in rows} \/ rows' = rows) BY <2>1
  <2> HIDE DEF New
  <2> QED BY <2>3, <2>4 DEF AliasesFit
<1> QED BY <1>1, <1>2, <1>3, <1>4, TableSteps

\* A set of ids is finite, as ids are given out one after the other.
LEMMA FewIds ==
  ASSUME ApartInv, NEW n \in Name
  PROVE  IsFiniteSet(LegacyIds(n))
<1>1. LegacyIds(n) \subseteq 0..nextId
  BY LegacyApart, ReadTypes DEF ApartInv, TableInv, TypeOK, Id
<1>2. IsFiniteSet(0..nextId) BY FS_Interval DEF ApartInv, TableInv, TypeOK, Id
<1> QED BY <1>1, <1>2, FS_Subset

\* An image without a channel is only found by its own name.
LEMMA KnownByName ==
  ASSUME ApartInv, AliasesFit, NEW n \in Name, n # Base,
         NEW x \in rows, x.cid = None, x.id \in LegacyIds(n)
  PROVE  Key[x.name] = Key[n]
<1>1. CASE \E p \in alias : p[2] = x.id /\ Matches(p[1], n)
  BY <1>1 DEF AliasesFit, Matches
<1>2. CASE \E y \in rows : y.id = x.id /\ Matches(y.name, n)
  BY <1>2 DEF ApartInv, TableInv, IdsUnique, Matches
<1> QED BY <1>1, <1>2 DEF LegacyIds

\* The image the list finds by a row's name is the one found by the aliases.
LEMMA SameOldImage ==
  ASSUME Reserved, ApartInv, AliasesFit, IsFiniteSet(Cid),
         NEW c \in Cid, refs[c] # None, Cardinality(LegacyIds(refs[c])) <= 1
  PROVE  OldListed(refs, c) = LegacyOf(c)
<1> DEFINE n == refs[c]
           old == {x \in rows : x.cid = None /\ x.name # Base /\ Key[x.name] = Key[n]}
           alone == \A d \in Cid : refs[d] # None /\ Key[refs[d]] = Key[n] => d = c
<1>1. n \in Name /\ Usual(n) BY DEF ApartInv, TableInv, TypeOK, Snapshot, ChannelsUsual
<1>2. n # Base BY <1>1, UsualNames
<1>3. alone <=> Cardinality(Bearers(n)) = 1
  <2>1. IsFiniteSet(Bearers(n)) BY FS_Subset DEF Bearers
  <2>2. c \in Bearers(n) BY DEF Bearers
  <2>3. Cardinality(Bearers(n)) = 1 <=> \E d : Bearers(n) = {d} BY <2>1, FS_Singleton
  <2>4. alone <=> Bearers(n) = {c} BY <2>2 DEF Bearers
  <2> QED BY <2>2, <2>3, <2>4
<1>4. \A x \in old : x.id \in LegacyIds(n) BY <1>2 DEF LegacyIds, Matches
<1>5. ASSUME NEW x \in rows, x.cid = None, x.id \in LegacyIds(n) PROVE x \in old
  <2>1. x.name # Base BY <1>1, <1>2, <1>5, LegacyApart DEF ApartInv
  <2>2. Key[x.name] = Key[n] BY <1>1, <1>2, <1>5, KnownByName
  <2> QED BY <1>5, <2>1, <2>2
<1>6. old = {x \in rows : x.id \in LegacyIds(n) /\ x.cid = None} BY <1>4, <1>5
<1>7. IsFiniteSet(LegacyIds(n)) BY <1>1, FewIds
<1>8. CASE Cardinality(LegacyIds(n)) = 1
  <2>1. PICK i : LegacyIds(n) = {i} BY <1>7, <1>8, FS_Singleton
  <2>2. old = {} \/ \E x \in rows : old = {x}
    BY <1>6, <2>1 DEF ApartInv, TableInv, IdsUnique
  <2>3. old = {} \/ Cardinality(old) = 1 BY <2>2, FS_Singleton
  <2> HIDE DEF old
  <2>4. OldListed(refs, c) = IF alone /\ Cardinality(old) = 1 THEN old ELSE {}
    BY DEF OldListed, old
  <2>5. LegacyOf(c) = IF alone THEN old ELSE {}
    BY <1>2, <1>3, <1>6, <1>8 DEF LegacyOf, LegacyImage
  <2> QED BY <2>3, <2>4, <2>5
<1>9. CASE Cardinality(LegacyIds(n)) # 1
  <2>1. Cardinality(LegacyIds(n)) = 0 BY <1>7, <1>9, FS_CardinalityType
  <2>2. LegacyIds(n) = {} BY <1>7, <2>1, FS_EmptySet
  <2>3. old = {} BY <1>4, <2>2
  <2>4. OldListed(refs, c) = {} BY <2>3 DEF OldListed
  <2> QED BY <1>9, <2>4 DEF LegacyOf, LegacyImage
<1> QED BY <1>8, <1>9

\* The shared image is found by its name as by its alias.
LEMMA SameFallback ==
  ASSUME ApartInv
  PROVE  {x \in rows : x.name = Base} =
           IF Cardinality(LegacyIds(Base)) = 1 THEN {x \in rows : x.id \in LegacyIds(Base)} ELSE {}
<1>1. \A x \in rows : x.name = Base <=> x.id \in LegacyIds(Base)
  <2>1. ASSUME NEW x \in rows, x.name = Base PROVE x.id \in LegacyIds(Base)
    BY <2>1 DEF LegacyIds, Matches
  <2>2. ASSUME NEW x \in rows, x.id \in LegacyIds(Base) PROVE x.name = Base
    <3>1. PICK y \in rows : y.id = x.id /\ y.name = Base
      BY <2>2, LegacyApart, StoreAssumption DEF ApartInv
    <3> QED BY <3>1 DEF ApartInv, TableInv, IdsUnique
  <2> QED BY <2>1, <2>2
<1>2. CASE \E x \in rows : x.name = Base
  <2>1. PICK x \in rows : x.name = Base BY <1>2
  <2>2. LegacyIds(Base) = {x.id}
    BY <1>1, <2>1, LegacyApart, StoreAssumption DEF ApartInv, TablesApart
  <2>3. Cardinality(LegacyIds(Base)) = 1 BY <2>2, FS_Singleton
  <2> QED BY <1>1, <2>3
<1>3. CASE ~ \E x \in rows : x.name = Base BY <1>1, <1>3
<1> QED BY <1>2, <1>3

\* The channel list and the public addresses look images up in two ways, and
\* find the same one, unless the name has become an alias of two images.
THEOREM TheListIsTrue == ASSUME Reserved, IsFiniteSet(Cid) PROVE Spec => []ListIsTrue
<1>1. ASSUME ApartInv, AliasesFit PROVE ListIsTrue
  <2> SUFFICES ASSUME NEW c \in Cid, refs[c] # None,
                      Own(c) # {} \/ Cardinality(LegacyIds(refs[c])) <= 1
               PROVE  Listed(refs, c) = Shown(c)
    BY DEF ListIsTrue
  <2>1. CASE Own(c) # {} BY <2>1 DEF Listed, Shown
  <2>2. CASE Own(c) = {}
    <3>1. OldListed(refs, c) = LegacyOf(c) BY <1>1, <2>2, SameOldImage
    <3> QED BY <1>1, <2>2, <3>1, SameFallback DEF Listed, Shown
  <2> QED BY <2>1, <2>2
<1>2. Init => ApartInv /\ AliasesFit BY ApartInit, AliasesFitInit
<1>3. ApartInv /\ AliasesFit /\ [Next]_vars => (ApartInv /\ AliasesFit)'
  BY ApartStep, AliasesFitStep
<1> QED BY <1>1, <1>2, <1>3, PTL DEF Spec

-----------------------------------------------------------------------------
(* The backfill                                                             *)

\* What is planned for a row: it has no channel and is alone under its name, and
\* one channel has the name and no image.
PlannedFor(x, cid) ==
  /\ x.cid = None
  /\ {c \in Cid : live[c] # None /\ Key[live[c]] = Key[x.name]} = {cid}
  /\ Unambiguous(Key[x.name])
  /\ Own(cid) = {}

PlannedRows ==
  \A a \in Id \X Cid : a \in Assignments <=> \E x \in Row(a[1]) : PlannedFor(x, a[2])

LEMMA PlannedRow == PlannedRows
<1> SUFFICES ASSUME NEW a \in Id \X Cid
             PROVE  a \in Assignments <=> \E x \in Row(a[1]) : PlannedFor(x, a[2])
  BY DEF PlannedRows
<1> DEFINE Bears(k) == {c \in Cid : live[c] # None /\ Key[live[c]] = k}
<1>1. ASSUME a \in Assignments
      PROVE  \E x \in Row(a[1]) : /\ x.cid = None
                                  /\ Bears(Key[x.name]) = {a[2]}
                                  /\ Unambiguous(Key[x.name])
                                  /\ Own(a[2]) = {}
  <2>1. PICK o \in Offers : a = <<o[1], o[3]>> /\ Bears(o[2]) = {o[3]}
    BY <1>1 DEF Assignments, Planned
  <2>2. PICK x \in rows, c \in Cid :
          /\ x.cid = None /\ Unambiguous(Key[x.name]) /\ Own(c) = {}
          /\ o = <<x.id, Key[x.name], c>>
    BY DEF Offers
  <2> HIDE DEF Bears
  <2>3. a[1] = x.id /\ a[2] = c /\ Bears(Key[x.name]) = {c} BY <2>1, <2>2
  <2> QED BY <2>2, <2>3 DEF Row
<1>2. ASSUME NEW x \in Row(a[1]), x.cid = None, Bears(Key[x.name]) = {a[2]},
             Unambiguous(Key[x.name]), Own(a[2]) = {}
      PROVE  a \in Assignments
  <2> DEFINE o == <<x.id, Key[x.name], a[2]>>
  <2>1. x \in rows /\ x.id = a[1] BY DEF Row
  <2>2. a[2] \in Cid OBVIOUS
  <2>3. o \in Offers BY <1>2, <2>1, <2>2 DEF Offers
  <2>4. o[1] = a[1] /\ o[2] = Key[x.name] /\ o[3] = a[2] BY <2>1
  <2>5. a = <<o[1], o[3]>> BY <2>4
  <2> HIDE DEF o, Bears
  <2>6. Bears(o[2]) = {o[3]} BY <1>2, <2>4
  <2> QED BY <2>3, <2>5, <2>6 DEF Assignments, Planned, Bears
<1> QED BY <1>1, <1>2 DEF PlannedFor

\* An assignment gives a row its channel; ids, names and aliases stay.
AssignRow(a) ==
  /\ rows' = {IF x.id = a[1] THEN [x EXCEPT !.cid = a[2]] ELSE x : x \in rows}
  /\ UNCHANGED <<alias, refs, live, req>>

LEMMA AssignSteps ==
  ASSUME Assign
  PROVE  \E a \in plan :
           \/ /\ AssignRow(a) /\ plan' = plan \ {a}
              /\ \E x \in Row(a[1]) : x.cid = None
              /\ Own(a[2]) = {}
           \/ plan' = {} /\ UNCHANGED <<rows, alias, refs, live, req>>
BY DEF Assign, StillFree, AssignRow, Database

LEMMA AssignedRows ==
  ASSUME TypeOK, NEW a \in plan, AssignRow(a)
  PROVE  /\ \A x \in rows : x.id # a[1] => x \in rows'
         /\ \A y \in rows' : y.id # a[1] => y \in rows
         /\ \A x \in rows : \E y \in rows' : y.id = x.id /\ y.name = x.name
         /\ \A y \in rows' : \E x \in rows : y.id = x.id /\ y.name = x.name
         /\ \A y \in rows' : y.id = a[1] => y.cid = a[2]
<1> DEFINE New(x) == IF x.id = a[1] THEN [x EXCEPT !.cid = a[2]] ELSE x
<1>1. \A x \in rows : /\ New(x).id = x.id /\ New(x).name = x.name
                      /\ x.id # a[1] => New(x) = x
                      /\ x.id = a[1] => New(x).cid = a[2]
  BY DEF TypeOK, ImageRow
<1>2. rows' = {New(x) : x \in rows} BY DEF AssignRow
<1> HIDE DEF New
<1> QED BY <1>1, <1>2

LEMMA AssignedIds ==
  ASSUME TypeOK, NEW a \in plan, AssignRow(a), NEW n
  PROVE  LegacyIds(n)' = LegacyIds(n) /\ Owners(n)' = Owners(n)
<1>1. {x.id : x \in {y \in rows : Matches(y.name, n)}}'
        = {x.id : x \in {y \in rows : Matches(y.name, n)}}
  BY AssignedRows
<1>2. {x.id : x \in {y \in rows : Key[y.name] = n}}'
        = {x.id : x \in {y \in rows : Key[y.name] = n}}
  BY AssignedRows
<1> QED BY <1>1, <1>2 DEF LegacyIds, Owners, AssignRow, Matches

\* The planned image was the one its channel showed already.
LEMMA PlannedShown ==
  ASSUME Reserved, ApartInv, refs = live, NEW x \in rows, x.cid = None,
         NEW d \in Cid, Own(d) = {},
         {c \in Cid : live[c] # None /\ Key[live[c]] = Key[x.name]} = {d},
         Unambiguous(Key[x.name])
  PROVE  Shown(d) = {x}
<1> DEFINE n == refs[d]
<1>1. n # None /\ n \in Name /\ Usual(n) /\ Key[n] = Key[x.name]
  <2>1. live[d] # None /\ Key[live[d]] = Key[x.name] OBVIOUS
  <2> QED BY <2>1 DEF ApartInv, TableInv, TypeOK, Snapshot, ChannelsUsual
<1>2. n # Base BY <1>1, UsualNames
<1>3. LegacyIds(n) = Owners(Key[n])
  <2>1. \A m : Matches(m, n) <=> Key[m] = Key[n] BY <1>1, <1>2 DEF Matches, Usual
  <2> QED BY <2>1 DEF LegacyIds, Owners
<1>4. x.id \in LegacyIds(n) BY <1>1, <1>3 DEF Owners
<1>5. LegacyIds(n) = {x.id}
  <2>1. IsFiniteSet(LegacyIds(n)) BY <1>1, FewIds
  <2>2. Cardinality(LegacyIds(n)) \in Nat BY <2>1, FS_CardinalityType
  <2>3. Cardinality(LegacyIds(n)) # 0 BY <1>4, <2>1, FS_EmptySet
  <2>4. Cardinality(LegacyIds(n)) = 1 BY <1>1, <1>3, <2>2, <2>3 DEF Unambiguous
  <2>5. PICK i : LegacyIds(n) = {i} BY <2>1, <2>4, FS_Singleton
  <2> QED BY <1>4, <2>5
<1>6. Bearers(n) = {d} BY <1>1 DEF Bearers
<1>7. Cardinality(Bearers(n)) = 1 /\ Cardinality(LegacyIds(n)) = 1
  BY <1>5, <1>6, FS_Singleton
<1>8. LegacyOf(d) = {x}
  <2>1. LegacyOf(d) = {y \in rows : y.id \in LegacyIds(n) /\ y.cid = None}
    BY <1>1, <1>2, <1>7 DEF LegacyOf, LegacyImage
  <2> QED BY <1>5, <2>1 DEF ApartInv, TableInv, IdsUnique
<1> QED BY <1>8 DEF Shown

\* Another channel does not show the planned image, before or after.
LEMMA OthersShown ==
  ASSUME Reserved, ApartInv, AliasesFit, refs = live,
         NEW a \in plan, AssignRow(a), NEW x \in Row(a[1]), x.cid = None,
         {c \in Cid : live[c] # None /\ Key[live[c]] = Key[x.name]} = {a[2]},
         NEW c \in Cid, c # a[2]
  PROVE  {y.id : y \in Shown(c)'} = {y.id : y \in Shown(c)}
<1> USE DEF ApartInv, TableInv
<1>1. x \in rows /\ x.id = a[1] /\ \A y \in rows : y.id = a[1] => y = x
  BY DEF Row, IdsUnique
<1>2. c # None /\ a[2] # None /\ a[2] \in Cid BY StoreAssumption DEF TypeOK
<1>3. Own(c)' = Own(c) BY <1>1, <1>2, AssignedRows DEF Own
<1>4. refs' = refs BY DEF AssignRow
<1>5. LegacyOf(c)' = LegacyOf(c)
  <2>1. CASE refs[c] = None BY <1>4, <2>1 DEF LegacyOf
  <2>2. CASE refs[c] # None
    <3>0. PICK n : n = refs[c] OBVIOUS
    <3>1. n \in Name /\ n # Base BY <3>0, <2>2, UsualNames DEF TypeOK, Snapshot, ChannelsUsual
    <3>2. Key[n] # Key[x.name] BY <2>2, <3>0
    <3>3. x.id \notin LegacyIds(n) BY <1>1, <3>1, <3>2, KnownByName
    <3>4. LegacyIds(n)' = LegacyIds(n) BY AssignedIds
    <3>5. Bearers(n)' = Bearers(n) BY <1>4 DEF Bearers
    <3>6. {y \in rows' : y.id \in LegacyIds(n) /\ y.cid = None}
            = {y \in rows : y.id \in LegacyIds(n) /\ y.cid = None}
      BY <1>1, <1>2, <3>3, AssignedRows
    <3>7. LegacyImage(n)' = LegacyImage(n) BY <3>4, <3>5, <3>6 DEF LegacyImage
    <3> QED BY <1>4, <3>0, <3>7 DEF LegacyOf
  <2> QED BY <2>1, <2>2
<1>6. LegacyIds(Base)' = LegacyIds(Base) BY AssignedIds
<1>7. {y.id : y \in {z \in rows' : z.id \in LegacyIds(Base)}}
        = {y.id : y \in {z \in rows : z.id \in LegacyIds(Base)}}
  BY AssignedRows
<1> QED BY <1>3, <1>4, <1>5, <1>6, <1>7 DEF Shown

\* An image under a name keeps another from being planned for the same channel.
LEMMA OneRowPerChannel ==
  ASSUME ApartInv, NEW x \in rows, NEW y \in rows, Key[x.name] = Key[y.name],
         Unambiguous(Key[x.name]), Usual(x.name)
  PROVE  x = y
<1> USE DEF ApartInv, TableInv
<1>1. x.name \in Name /\ x.name # Base BY UsualNames DEF TypeOK, ImageRow
<1>2. Owners(Key[x.name]) = LegacyIds(x.name)
  <2>1. \A m : Matches(m, x.name) <=> Key[m] = Key[x.name] BY <1>1 DEF Matches, Usual
  <2> QED BY <2>1 DEF LegacyIds, Owners
<1>3. IsFiniteSet(Owners(Key[x.name])) BY <1>1, <1>2, FewIds
<1>4. x.id \in Owners(Key[x.name]) /\ y.id \in Owners(Key[x.name]) BY DEF Owners
<1>5. Cardinality(Owners(Key[x.name])) \in Nat /\ Cardinality(Owners(Key[x.name])) # 0
  BY <1>3, <1>4, FS_CardinalityType, FS_EmptySet
<1>6. Cardinality(Owners(Key[x.name])) = 1 BY <1>5 DEF Unambiguous
<1>7. PICK i : Owners(Key[x.name]) = {i} BY <1>3, <1>6, FS_Singleton
<1>9. x.id = y.id BY <1>4, <1>7
<1> QED BY <1>9 DEF IdsUnique

\* After one assignment the others are still what would be planned.
LEMMA RestStays ==
  ASSUME Reserved, ApartInv, plan \subseteq Assignments,
         NEW a \in plan, AssignRow(a), NEW b \in plan, b # a, TypeOK'
  PROVE  b \in Assignments'
<1> USE DEF ApartInv, TableInv
<1>t. a \in Id \X Cid /\ b \in Id \X Cid BY DEF TypeOK
<1> DEFINE Bears(k) == {c \in Cid : live[c] # None /\ Key[live[c]] = k}
<1>1. PICK x \in Row(a[1]) : /\ x.cid = None /\ Bears(Key[x.name]) = {a[2]}
                             /\ Unambiguous(Key[x.name]) /\ Own(a[2]) = {}
  BY <1>t, PlannedRow DEF PlannedRows, PlannedFor
<1>2. PICK y \in Row(b[1]) : /\ y.cid = None /\ Bears(Key[y.name]) = {b[2]}
                             /\ Unambiguous(Key[y.name]) /\ Own(b[2]) = {}
  BY <1>t, PlannedRow DEF PlannedRows, PlannedFor
<1>3. x \in rows /\ x.id = a[1] /\ y \in rows /\ y.id = b[1] BY DEF Row
<1>4. b[2] # a[2] /\ b[1] # a[1]
  <2>1. CASE b[1] = a[1]
    <3>1. x = y BY <1>3, <2>1 DEF IdsUnique
    <3>2. a[2] = b[2] BY <1>1, <1>2, <3>1
    <3> QED BY <1>t, <2>1, <3>2
  <2>2. CASE b[2] = a[2]
    <3>1. live[a[2]] # None /\ Key[live[a[2]]] = Key[x.name] /\ Key[live[a[2]]] = Key[y.name]
      BY <1>1, <1>2, <2>2
    <3>2. Usual(x.name) BY <3>1, <1>t DEF ChannelsUsual, Usual
    <3>3. x = y BY <1>1, <1>3, <3>1, <3>2, OneRowPerChannel
    <3> QED BY <1>3, <1>t, <2>2, <3>3
  <2> QED BY <2>1, <2>2
<1>5. y \in rows' BY <1>3, <1>4, AssignedRows
<1>6. Own(b[2])' = {}
  <2>1. \A z \in rows' : z.id # a[1] => z \in rows BY AssignedRows
  <2>2. \A z \in rows' : z.id = a[1] => z.cid = a[2] BY AssignedRows
  <2> QED BY <1>2, <1>4, <2>1, <2>2 DEF Own
<1>7. Owners(Key[y.name])' = Owners(Key[y.name])
  <2>1. PICK k : k = Key[y.name] OBVIOUS
  <2>2. Owners(k)' = Owners(k) BY AssignedIds
  <2> QED BY <2>1, <2>2
<1>8. Unambiguous(Key[y.name])' BY <1>2, <1>7 DEF Unambiguous
<1>9. {c \in Cid : live'[c] # None /\ Key[live'[c]] = Key[y.name]} = {b[2]}
  BY <1>2 DEF AssignRow
<1>10. PlannedRows' BY PlannedRow, PTL
<1>11. PlannedFor(y, b[2])' BY <1>2, <1>6, <1>8, <1>9 DEF PlannedFor
<1>12. y \in Row(b[1])' BY <1>3, <1>5 DEF Row
<1> QED BY <1>t, <1>10, <1>11, <1>12 DEF PlannedRows

\* An assignment leaves alone what the channels have already.
LEMMA OwnKept ==
  ASSUME TableInv, Assign, NEW c \in Cid, Own(c) # {}
  PROVE  Own(c)' = Own(c)
<1> USE DEF TableInv
<1>1. PICK a \in plan :
        \/ /\ AssignRow(a)
           /\ \E x \in Row(a[1]) : x.cid = None
           /\ Own(a[2]) = {}
        \/ UNCHANGED <<rows, alias, refs, live, req>>
  BY AssignSteps
<1>2. CASE UNCHANGED rows BY <1>2 DEF Own
<1>3. CASE AssignRow(a) /\ Own(a[2]) = {} /\ \E x \in Row(a[1]) : x.cid = None
  <2>1. c # None BY StoreAssumption
  <2>2. \A x \in Own(c) : x.id # a[1] BY <1>3, <2>1 DEF Own, Row, IdsUnique
  <2>3. c # a[2] BY <1>3
  <2>4. \A y \in rows' : y.cid = c => y \in rows BY <1>3, <2>3, AssignedRows
  <2>5. \A x \in Own(c) : x \in rows' BY <1>3, <2>2, AssignedRows DEF Own
  <2> QED BY <2>4, <2>5 DEF Own
<1> QED BY <1>1, <1>2, <1>3

\* "never get guessed", for any number of images, in whatever order the assignments
\* are made and wherever they stop. Beside requests and renames the script leaves
\* the image of every channel alone that has one; and where nobody got in between
\* and the references are the channels', it writes down what the addresses showed
\* before, and the rest of its plan is still what it would plan.
THEOREM BackfillOnlyWritesDown == ASSUME Reserved PROVE Spec => BackfillChangesNothingShown
<1> DEFINE Inv == ApartInv /\ AliasesFit
           Same == Assign =>
                     /\ \A c \in Cid : Own(c) # {} => Own(c)' = Own(c)
                     /\ plan \subseteq Assignments /\ refs = live =>
                          /\ \A c \in Cid : {x.id : x \in Shown(c)'} = {x.id : x \in Shown(c)}
                          /\ plan' \subseteq Assignments'
<1>1. ASSUME Inv, TypeOK', Assign, plan \subseteq Assignments, refs = live
      PROVE  /\ \A c \in Cid : {x.id : x \in Shown(c)'} = {x.id : x \in Shown(c)}
             /\ plan' \subseteq Assignments'
  <2> USE DEF ApartInv, TableInv
  <2>1. PICK a \in plan :
          \/ /\ AssignRow(a) /\ plan' = plan \ {a}
             /\ \E x \in Row(a[1]) : x.cid = None
             /\ Own(a[2]) = {}
          \/ plan' = {} /\ UNCHANGED <<rows, alias, refs, live, req>>
    BY <1>1, AssignSteps
  <2>2. CASE plan' = {} /\ UNCHANGED <<rows, alias, refs>>
    BY <2>2 DEF Shown, Own, LegacyOf, LegacyImage, LegacyIds, Bearers, Matches
  <2>3. CASE AssignRow(a) /\ plan' = plan \ {a}
    <3>t. a \in Id \X Cid BY <1>1 DEF TypeOK
    <3>1. PICK x \in Row(a[1]) :
            /\ x.cid = None
            /\ {e \in Cid : live[e] # None /\ Key[live[e]] = Key[x.name]} = {a[2]}
            /\ Unambiguous(Key[x.name])
            /\ Own(a[2]) = {}
      BY <1>1, <3>t, PlannedRow DEF PlannedRows, PlannedFor
    <3>2. x \in rows /\ x.id = a[1] BY DEF Row
    <3>3. ASSUME NEW c \in Cid PROVE {z.id : z \in Shown(c)'} = {z.id : z \in Shown(c)}
      <4>1. CASE c = a[2]
        <5>1. Shown(c) = {x} BY <1>1, <3>1, <3>2, <3>t, <4>1, PlannedShown
        <5>2. {z.id : z \in Own(c)'} = {x.id}
          <6>1. \E z \in rows' : z.id = x.id BY <1>1, <2>3, <3>2, AssignedRows
          <6>2. \A z \in rows' : z.id = a[1] => z.cid = c BY <1>1, <2>3, <4>1, AssignedRows
          <6>3. \A z \in rows' : z.cid = c => z.id = a[1]
            BY <1>1, <2>3, <3>1, <4>1, AssignedRows DEF Own
          <6> QED BY <3>2, <6>1, <6>2, <6>3 DEF Own
        <5>3. Shown(c)' = Own(c)' BY <5>2 DEF Shown
        <5> QED BY <5>1, <5>2, <5>3
      <4>2. CASE c # a[2] BY <1>1, <2>3, <3>1, <4>2, OthersShown
      <4> QED BY <4>1, <4>2
    <3>4. ASSUME NEW b \in plan' PROVE b \in Assignments'
      <4>1. b \in plan /\ b # a BY <2>3
      <4> QED BY <1>1, <2>3, <4>1, RestStays
    <3> QED BY <3>3, <3>4
  <2> QED BY <2>1, <2>2, <2>3
<1>2. Init => Inv BY ApartInit, AliasesFitInit
<1>3. Inv /\ [Next]_vars => Inv' BY ApartStep, AliasesFitStep
<1>4. Inv /\ [Next]_vars => [Same]_vars
  <2>1. ApartInv /\ [Next]_vars => TypeOK' BY TypeStep DEF ApartInv, TableInv
  <2>2. ASSUME Inv, Assign, TypeOK' PROVE Same
    <3>1. \A c \in Cid : Own(c) # {} => Own(c)' = Own(c) BY <2>2, OwnKept DEF ApartInv
    <3>2. plan \subseteq Assignments /\ refs = live =>
            /\ \A c \in Cid : {x.id : x \in Shown(c)'} = {x.id : x \in Shown(c)}
            /\ plan' \subseteq Assignments'
      BY <1>1, <2>2
    <3> QED BY <3>1, <3>2
  <2>3. Inv /\ TypeOK' => Same BY <2>2
  <2> QED BY <2>1, <2>3
<1> QED BY <1>2, <1>3, <1>4, PTL DEF Spec, BackfillChangesNothingShown
=============================================================================
