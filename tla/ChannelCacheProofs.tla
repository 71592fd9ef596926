-------------------------- MODULE ChannelCacheProofs --------------------------
(* Theorems about ChannelCache, for every number of callers, mutations and     *)
(* commands.                                                                  *)
EXTENDS ChannelCache, TLAPS

\* Versions only grow; generations that reads captured are not from the future.
Ordered ==
  /\ floor <= version
  /\ \A f \in Fetch : fetch[f].generation <= generation

\* The answer of a read that the cache would still accept is fresh.
FreshReads ==
  \A f \in Fetch : fetch[f].stage \in {"read", "stored"} /\ Current(f) => fetch[f].saw >= floor

\* A caller waits for a read that is under way and whose answer, once there, is
\* not older than what the caller may expect.
FreshWaits ==
  \A r \in Reader :
    /\ reader[r].since <= version
    /\ reader[r].stage # "waiting" => reader[r].on = None
    /\ reader[r].on # None =>
         /\ fetch[reader[r].on].stage # "free"
         /\ fetch[reader[r].on].stage \in {"read", "stored"} =>
              fetch[reader[r].on].saw >= reader[r].since

\* CacheNotOlderThanMutation rests on FreshReads, ReadYourWrites on FreshWaits,
\* and this, for callers that share a read, on InFlightIsLive.
CacheInv ==
  /\ TypeOK
  /\ Ordered
  /\ FreshReads
  /\ FreshWaits
  /\ InFlightIsLive
  /\ CacheNotOlderThanMutation
  /\ ReadYourWrites

LEMMA CacheInit == Init => CacheInv
<1> SUFFICES ASSUME Init PROVE CacheInv
  OBVIOUS
<1> USE CacheAssumption DEF Init
<1>1. TypeOK
  <2>1. [stage |-> "free", generation |-> 0, saw |-> 0]
          \in [stage : FetchStage, generation : Nat, saw : 0..MaxVersion]
    BY DEF FetchStage
  <2>2. [stage |-> "idle", on |-> None, got |-> 0, since |-> 0]
          \in [stage : ReaderStage, on : {None} \cup Fetch, got : 0..MaxVersion,
              since : 0..MaxVersion]
    BY DEF ReaderStage
  <2> QED
    BY <2>1, <2>2 DEF TypeOK
<1>2. Ordered /\ FreshReads
  BY DEF Ordered, FreshReads
<1>3. FreshWaits /\ InFlightIsLive
  BY DEF FreshWaits, InFlightIsLive
<1>4. CacheNotOlderThanMutation /\ ReadYourWrites
  BY DEF CacheNotOlderThanMutation, ReadYourWrites
<1> QED
  BY <1>1, <1>2, <1>3, <1>4 DEF CacheInv

LEMMA ReadCachedStep == ASSUME CacheInv, NEW r \in Reader, ReadCached(r) PROVE CacheInv'
<1> USE CacheAssumption DEF CacheInv, TypeOK
<1>1. TypeOK'
  BY DEF ReadCached, Idle, Usable, FetchStage, ReaderStage
<1>2. Ordered'
  BY DEF ReadCached, Idle, Usable, Ordered
<1>3. FreshReads'
  BY DEF ReadCached, Idle, Usable, FreshReads, Current, Ordered
<1>4. FreshWaits'
  BY DEF ReadCached, Idle, Usable, FreshWaits, InFlightIsLive, Ordered
<1>5. InFlightIsLive'
  BY DEF ReadCached, Idle, Usable, InFlightIsLive, Current, Ordered
<1>6. CacheNotOlderThanMutation'
  BY DEF ReadCached, Idle, Usable, CacheNotOlderThanMutation, FreshReads
<1>7. ReadYourWrites'
  BY DEF ReadCached, Idle, Usable, ReadYourWrites, FreshWaits,
         CacheNotOlderThanMutation
<1> QED
  BY <1>1, <1>2, <1>3, <1>4, <1>5, <1>6, <1>7

LEMMA JoinFetchStep == ASSUME CacheInv, NEW r \in Reader, JoinFetch(r) PROVE CacheInv'
<1> USE CacheAssumption DEF CacheInv, TypeOK
<1>1. TypeOK'
  BY DEF JoinFetch, Idle, Usable, AwaitFetch, FetchStage, ReaderStage
<1>2. Ordered'
  BY DEF JoinFetch, Idle, Usable, AwaitFetch, Ordered
<1>3. FreshReads'
  BY DEF JoinFetch, Idle, Usable, AwaitFetch, FreshReads, Current, Ordered
<1>4. FreshWaits'
  BY DEF JoinFetch, Idle, Usable, AwaitFetch, FreshWaits, FreshReads, InFlightIsLive,
         Ordered
<1>5. InFlightIsLive'
  BY DEF JoinFetch, Idle, Usable, AwaitFetch, InFlightIsLive, Current, Ordered
<1>6. CacheNotOlderThanMutation'
  BY DEF JoinFetch, Idle, Usable, AwaitFetch, CacheNotOlderThanMutation, FreshReads
<1>7. ReadYourWrites'
  BY DEF JoinFetch, Idle, Usable, AwaitFetch, ReadYourWrites, FreshWaits,
         CacheNotOlderThanMutation
<1> QED
  BY <1>1, <1>2, <1>3, <1>4, <1>5, <1>6, <1>7

LEMMA StartFetchStep == ASSUME CacheInv, NEW r \in Reader, StartFetch(r) PROVE CacheInv'
<1> USE CacheAssumption DEF CacheInv, TypeOK
<1>1. TypeOK'
  BY DEF StartFetch, Idle, Usable, AwaitFetch, FetchStage, ReaderStage
<1>2. Ordered'
  BY DEF StartFetch, Idle, Usable, AwaitFetch, Ordered
<1>3. FreshReads'
  BY DEF StartFetch, Idle, Usable, AwaitFetch, FreshReads, Current, Ordered
<1>4. FreshWaits'
  BY DEF StartFetch, Idle, Usable, AwaitFetch, FreshWaits, InFlightIsLive, Ordered
<1>5. InFlightIsLive'
  BY DEF StartFetch, Idle, Usable, AwaitFetch, InFlightIsLive, Current, Ordered
<1>6. CacheNotOlderThanMutation'
  BY DEF StartFetch, Idle, Usable, AwaitFetch, CacheNotOlderThanMutation, FreshReads
<1>7. ReadYourWrites'
  BY DEF StartFetch, Idle, Usable, AwaitFetch, ReadYourWrites, FreshWaits,
         CacheNotOlderThanMutation
<1> QED
  BY <1>1, <1>2, <1>3, <1>4, <1>5, <1>6, <1>7

LEMMA AnswerStep == ASSUME CacheInv, NEW f \in Fetch, Answer(f) PROVE CacheInv'
<1> USE CacheAssumption DEF CacheInv, TypeOK
<1>1. TypeOK'
  <2>1. [fetch[f] EXCEPT !.stage = "read", !.saw = version]
          \in [stage : FetchStage, generation : Nat, saw : 0..MaxVersion]
    BY DEF FetchStage
  <2> QED
    BY <2>1 DEF Answer
<1>2. Ordered'
  BY DEF Answer, Ordered
<1>3. FreshReads'
  BY DEF Answer, FreshReads, Current, Ordered
<1>4. FreshWaits'
  BY DEF Answer, FreshWaits, InFlightIsLive, Ordered
<1>5. InFlightIsLive'
  BY DEF Answer, InFlightIsLive, Current, Ordered
<1>6. CacheNotOlderThanMutation'
  BY DEF Answer, CacheNotOlderThanMutation, FreshReads
<1>7. ReadYourWrites'
  BY DEF Answer, ReadYourWrites, FreshWaits, CacheNotOlderThanMutation
<1> QED
  BY <1>1, <1>2, <1>3, <1>4, <1>5, <1>6, <1>7

LEMMA FetchFailsStep == ASSUME CacheInv, NEW f \in Fetch, FetchFails(f) PROVE CacheInv'
<1> USE CacheAssumption DEF CacheInv, TypeOK
<1>1. TypeOK'
  BY DEF FetchFails, FetchStage, ReaderStage
<1>2. Ordered'
  BY DEF FetchFails, Ordered
<1>3. FreshReads'
  BY DEF FetchFails, FreshReads, Current, Ordered
<1>4. FreshWaits'
  BY DEF FetchFails, FreshWaits, InFlightIsLive, Ordered
<1>5. InFlightIsLive'
  BY DEF FetchFails, InFlightIsLive, Current, Ordered
<1>6. CacheNotOlderThanMutation'
  BY DEF FetchFails, CacheNotOlderThanMutation, FreshReads
<1>7. ReadYourWrites'
  BY DEF FetchFails, ReadYourWrites, FreshWaits, CacheNotOlderThanMutation
<1> QED
  BY <1>1, <1>2, <1>3, <1>4, <1>5, <1>6, <1>7

LEMMA StoreStep == ASSUME CacheInv, NEW f \in Fetch, Store(f) PROVE CacheInv'
<1> USE CacheAssumption DEF CacheInv, TypeOK
<1>1. TypeOK'
  BY DEF Store, FetchStage, ReaderStage
<1>2. Ordered'
  BY DEF Store, Ordered
<1>3. FreshReads'
  BY DEF Store, FreshReads, Current, Ordered
<1>4. FreshWaits'
  BY DEF Store, FreshWaits, InFlightIsLive, Ordered
<1>5. InFlightIsLive'
  BY DEF Store, InFlightIsLive, Current, Ordered
<1>6. CacheNotOlderThanMutation'
  BY DEF Store, CacheNotOlderThanMutation, FreshReads
<1>7. ReadYourWrites'
  BY DEF Store, ReadYourWrites, FreshWaits, CacheNotOlderThanMutation
<1> QED
  BY <1>1, <1>2, <1>3, <1>4, <1>5, <1>6, <1>7

LEMMA SettledReader ==
  ASSUME NEW rec \in [stage : ReaderStage, on : {None} \cup Fetch, got : 0..MaxVersion,
                      since : 0..MaxVersion],
         NEW st \in ReaderStage, NEW v \in 0..MaxVersion, NEW new,
         new = [rec EXCEPT !.on = None, !.stage = st, !.got = v]
  PROVE  /\ new \in [stage : ReaderStage, on : {None} \cup Fetch, got : 0..MaxVersion,
                     since : 0..MaxVersion]
         /\ new.on = None /\ new.since = rec.since /\ new.stage = st /\ new.got = v
OBVIOUS

LEMMA SettleStep == ASSUME CacheInv, NEW f \in Fetch, Settle(f) PROVE CacheInv'
<1> USE CacheAssumption DEF CacheInv, TypeOK
<1>a. /\ fetch' \in [Fetch -> [stage : FetchStage, generation : Nat, saw : 0..MaxVersion]]
      /\ fetch'[f].stage = "free" /\ fetch'[f].generation = 0
      /\ \A g \in Fetch \ {f} : fetch'[g] = fetch[g]
  <2>1. [stage |-> "free", generation |-> 0, saw |-> 0]
          \in [stage : FetchStage, generation : Nat, saw : 0..MaxVersion]
    BY DEF FetchStage
  <2> QED
    BY <2>1 DEF Settle
<1>r. reader \in [Reader -> [stage : ReaderStage, on : {None} \cup Fetch, got : 0..MaxVersion,
                            since : 0..MaxVersion]]
  BY DEF Settle
<1>s. /\ fetch[f].saw \in 0..MaxVersion /\ 0 \in 0..MaxVersion
      /\ "served" \in ReaderStage /\ "refused" \in ReaderStage
  BY DEF ReaderStage
<1>b. \A r \in Reader :
        /\ reader[r].on # f => reader'[r] = reader[r]
        /\ reader[r].on = f =>
             /\ reader'[r] \in [stage : ReaderStage, on : {None} \cup Fetch,
                               got : 0..MaxVersion, since : 0..MaxVersion]
             /\ reader'[r].on = None /\ reader'[r].since = reader[r].since
             /\ reader'[r].stage = "served" =>
                  fetch[f].stage = "stored" /\ reader'[r].got = fetch[f].saw
  <2> SUFFICES ASSUME NEW r \in Reader
               PROVE  /\ reader[r].on # f => reader'[r] = reader[r]
                      /\ reader[r].on = f =>
                           /\ reader'[r] \in [stage : ReaderStage, on : {None} \cup Fetch,
                                             got : 0..MaxVersion, since : 0..MaxVersion]
                           /\ reader'[r].on = None /\ reader'[r].since = reader[r].since
                           /\ reader'[r].stage = "served" =>
                                fetch[f].stage = "stored" /\ reader'[r].got = fetch[f].saw
    OBVIOUS
  <2>1. CASE reader[r].on # f
    BY <2>1 DEF Settle
  <2>2. CASE reader[r].on = f /\ fetch[f].stage = "stored"
    <3>1. reader'[r] = [reader[r] EXCEPT !.on = None, !.stage = "served", !.got = fetch[f].saw]
      BY <2>2 DEF Settle
    <3> HIDE DEF CacheInv, TypeOK
    <3>2. reader[r] \in [stage : ReaderStage, on : {None} \cup Fetch, got : 0..MaxVersion,
                        since : 0..MaxVersion]
      BY <1>r
    <3>3. /\ reader'[r] \in [stage : ReaderStage, on : {None} \cup Fetch, got : 0..MaxVersion,
                            since : 0..MaxVersion]
          /\ reader'[r].on = None /\ reader'[r].since = reader[r].since
          /\ reader'[r].stage = "served" /\ reader'[r].got = fetch[f].saw
      BY <1>s, <3>1, <3>2, SettledReader
    <3> QED
      BY <2>2, <3>3
  <2>3. CASE reader[r].on = f /\ fetch[f].stage # "stored"
    <3>1. reader'[r] = [reader[r] EXCEPT !.on = None, !.stage = "refused", !.got = 0]
      BY <2>3 DEF Settle
    <3> HIDE DEF CacheInv, TypeOK
    <3>2. reader[r] \in [stage : ReaderStage, on : {None} \cup Fetch, got : 0..MaxVersion,
                        since : 0..MaxVersion]
      BY <1>r
    <3>3. /\ reader'[r] \in [stage : ReaderStage, on : {None} \cup Fetch, got : 0..MaxVersion,
                            since : 0..MaxVersion]
          /\ reader'[r].on = None /\ reader'[r].since = reader[r].since
          /\ reader'[r].stage = "refused" /\ reader'[r].got = 0
      BY <1>s, <3>1, <3>2, SettledReader
    <3> QED
      BY <2>3, <3>3
  <2> QED
    BY <2>1, <2>2, <2>3
<1>c. /\ inFlight' = IF inFlight = f THEN None ELSE inFlight
      /\ DOMAIN reader' = Reader /\ reader' = [r \in Reader |-> reader'[r]]
      /\ UNCHANGED <<version, cached, expired, generation, mutator, floor>>
  BY DEF Settle, Forget
<1>1. TypeOK'
  BY <1>a, <1>b, <1>c
<1>2. Ordered'
  BY <1>a, <1>c DEF Ordered
<1>3. FreshReads'
  BY <1>a, <1>c DEF FreshReads, Current
<1>4. FreshWaits'
  BY <1>a, <1>b, <1>c DEF FreshWaits
<1>5. InFlightIsLive'
  BY <1>a, <1>c DEF InFlightIsLive, Current
<1>6. CacheNotOlderThanMutation'
  BY <1>c DEF CacheNotOlderThanMutation
<1>7. ReadYourWrites'
  BY <1>b, <1>c DEF ReadYourWrites, FreshWaits
<1> QED
  BY <1>1, <1>2, <1>3, <1>4, <1>5, <1>6, <1>7

LEMMA CommandStep == ASSUME CacheInv, NEW m \in Mutator, Command(m) PROVE CacheInv'
<1> USE CacheAssumption DEF CacheInv, TypeOK
<1>1. TypeOK'
  BY DEF Command, FetchStage, ReaderStage
<1>2. Ordered'
  BY DEF Command, Ordered
<1>3. FreshReads'
  BY DEF Command, FreshReads, Current, Ordered
<1>4. FreshWaits'
  BY DEF Command, FreshWaits, InFlightIsLive, Ordered
<1>5. InFlightIsLive'
  BY DEF Command, InFlightIsLive, Current, Ordered
<1>6. CacheNotOlderThanMutation'
  BY DEF Command, CacheNotOlderThanMutation, FreshReads
<1>7. ReadYourWrites'
  BY DEF Command, ReadYourWrites, FreshWaits, CacheNotOlderThanMutation
<1> QED
  BY <1>1, <1>2, <1>3, <1>4, <1>5, <1>6, <1>7

LEMMA LandStep == ASSUME CacheInv, NEW m \in Mutator, Land(m) PROVE CacheInv'
<1> USE CacheAssumption DEF CacheInv, TypeOK
<1>1. TypeOK'
  BY DEF Land, FetchStage, ReaderStage
<1>2. Ordered'
  BY DEF Land, Ordered
<1>3. FreshReads'
  BY DEF Land, FreshReads, Current, Ordered
<1>4. FreshWaits'
  BY DEF Land, FreshWaits, InFlightIsLive, Ordered
<1>5. InFlightIsLive'
  BY DEF Land, InFlightIsLive, Current, Ordered
<1>6. CacheNotOlderThanMutation'
  BY DEF Land, CacheNotOlderThanMutation, FreshReads
<1>7. ReadYourWrites'
  BY DEF Land, ReadYourWrites, FreshWaits, CacheNotOlderThanMutation
<1> QED
  BY <1>1, <1>2, <1>3, <1>4, <1>5, <1>6, <1>7

LEMMA ReturnStep == ASSUME CacheInv, NEW m \in Mutator, Return(m) PROVE CacheInv'
<1> USE CacheAssumption DEF CacheInv, TypeOK
<1>1. TypeOK'
  BY DEF Return, InvalidateCache, FetchStage, ReaderStage
<1>2. Ordered'
  BY DEF Return, InvalidateCache, Ordered
<1>3. FreshReads'
  BY DEF Return, InvalidateCache, FreshReads, Current, Ordered
<1>4. FreshWaits'
  BY DEF Return, InvalidateCache, FreshWaits, InFlightIsLive, Ordered
<1>5. InFlightIsLive'
  BY DEF Return, InvalidateCache, InFlightIsLive, Current, Ordered
<1>6. CacheNotOlderThanMutation'
  BY DEF Return, InvalidateCache, CacheNotOlderThanMutation, FreshReads
<1>7. ReadYourWrites'
  BY DEF Return, InvalidateCache, ReadYourWrites, FreshWaits,
         CacheNotOlderThanMutation
<1> QED
  BY <1>1, <1>2, <1>3, <1>4, <1>5, <1>6, <1>7

LEMMA ExpireStep == ASSUME CacheInv, Expire PROVE CacheInv'
<1> USE CacheAssumption DEF CacheInv, TypeOK
<1>1. TypeOK'
  BY DEF Expire, Usable, FetchStage, ReaderStage
<1>2. Ordered'
  BY DEF Expire, Usable, Ordered
<1>3. FreshReads'
  BY DEF Expire, Usable, FreshReads, Current, Ordered
<1>4. FreshWaits'
  BY DEF Expire, Usable, FreshWaits, InFlightIsLive, Ordered
<1>5. InFlightIsLive'
  BY DEF Expire, Usable, InFlightIsLive, Current, Ordered
<1>6. CacheNotOlderThanMutation'
  BY DEF Expire, Usable, CacheNotOlderThanMutation, FreshReads
<1>7. ReadYourWrites'
  BY DEF Expire, Usable, ReadYourWrites, FreshWaits, CacheNotOlderThanMutation
<1> QED
  BY <1>1, <1>2, <1>3, <1>4, <1>5, <1>6, <1>7

LEMMA CacheStep == CacheInv /\ [Next]_vars => CacheInv'
<1>1. ASSUME CacheInv, UNCHANGED vars PROVE CacheInv'
  BY <1>1 DEF CacheInv, TypeOK, Ordered, FreshReads, FreshWaits, InFlightIsLive,
              CacheNotOlderThanMutation, ReadYourWrites, Current, vars
<1> QED
  BY <1>1, ReadCachedStep, JoinFetchStep, StartFetchStep, AnswerStep, FetchFailsStep,
     StoreStep, SettleStep, CommandStep, LandStep, ReturnStep, ExpireStep DEF Next

\* A response started before a mutation cannot repopulate the cache.
THEOREM CacheFenced == Spec => []CacheNotOlderThanMutation
<1>1. CacheInv => CacheNotOlderThanMutation
  BY DEF CacheInv
<1> QED
  BY CacheInit, CacheStep, <1>1, PTL DEF Spec

\* Nobody who asks after a mutation returned is shown the tree before it.
THEOREM ReadsAreFresh == Spec => []ReadYourWrites
<1>1. CacheInv => ReadYourWrites
  BY DEF CacheInv
<1> QED
  BY CacheInit, CacheStep, <1>1, PTL DEF Spec
===============================================================================
