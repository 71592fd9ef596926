---------------------------- MODULE ChannelCache ----------------------------
(***************************************************************************)
(* TeamSpeakChannelsService (src/src/teamspeak/teamspeak-channels.ts): one  *)
(* cached snapshot of the channel list, one shared read in flight, and a    *)
(* generation that fences reads started before a mutation returned.         *)
(*                                                                          *)
(* The channel tree is reduced to its version: every command that changes   *)
(* it adds one.  A read's answer is the version at some moment between the  *)
(* request and the answer.  A mutation is any operation that ends in        *)
(* invalidateCache(): a banner URL, all banner URLs, a wallpaper attempt.   *)
(* Its command may land after it returned, when it had timed out.           *)
(***************************************************************************)
EXTENDS Integers, FiniteSets

CONSTANTS
  Reader,      \* callers of fetchLiveChannels
  Mutator,     \* operations that change channels
  Fetch,       \* slots for reads of the channel list
  None,        \* null
  MaxVersion   \* bound: how many commands land

ASSUME CacheAssumption ==
  /\ MaxVersion \in Nat
  /\ None \notin Fetch
  /\ IsFiniteSet(Fetch)

VARIABLES
  version,     \* of the channel tree on the server
  cached,      \* cachedResult: None or a version
  expired,     \* cachedResult.expiresAt has passed
  inFlight,    \* inFlightFetch
  generation,  \* cacheGeneration
  fetch,       \* the reads: stage, generation they captured, version they saw
  reader,      \* the callers: stage, the read they await, the version they got
  mutator,     \* the mutations: stage
  floor        \* history: the version at the last invalidateCache()

vars == <<version, cached, expired, inFlight, generation, fetch, reader, mutator, floor>>

\* read: the server has answered, nothing has run yet.  stored: `then` has run,
\* `finally` has not.
FetchStage  == {"free", "asked", "read", "stored", "failed"}
ReaderStage == {"idle", "waiting", "served", "refused"}

TypeOK ==
  /\ version \in 0..MaxVersion
  /\ cached \in {None} \cup 0..MaxVersion
  /\ expired \in BOOLEAN
  /\ inFlight \in {None} \cup Fetch
  /\ generation \in Nat
  /\ fetch \in [Fetch -> [stage : FetchStage, generation : Nat, saw : 0..MaxVersion]]
  /\ reader \in [Reader -> [stage : ReaderStage, on : {None} \cup Fetch,
                            got : 0..MaxVersion, since : 0..MaxVersion]]
  /\ mutator \in [Mutator -> {"idle", "sent", "landed", "late"}]
  /\ floor \in 0..MaxVersion

Init ==
  /\ version = 0
  /\ cached = None
  /\ expired = FALSE
  /\ inFlight = None
  /\ generation = 0
  /\ fetch = [f \in Fetch |-> [stage |-> "free", generation |-> 0, saw |-> 0]]
  /\ reader = [r \in Reader |-> [stage |-> "idle", on |-> None, got |-> 0, since |-> 0]]
  /\ mutator = [m \in Mutator |-> "idle"]
  /\ floor = 0

-----------------------------------------------------------------------------
(* fetchLiveChannels() *)

Usable == cached # None /\ ~expired

Idle(r) == reader[r].stage \in {"idle", "served", "refused"}

\* The cached snapshot answers at once.
ReadCached(r) ==
  /\ Idle(r)
  /\ Usable
  /\ reader' = [reader EXCEPT ![r] = [stage |-> "served", on |-> None,
                                      got |-> cached, since |-> floor]]
  /\ UNCHANGED <<version, cached, expired, inFlight, generation, fetch, mutator, floor>>

AwaitFetch(r, f) ==
  reader' = [reader EXCEPT ![r] = [stage |-> "waiting", on |-> f, got |-> 0, since |-> floor]]

\* A read is under way: share it.
JoinFetch(r) ==
  /\ Idle(r)
  /\ ~Usable
  /\ inFlight # None
  /\ AwaitFetch(r, inFlight)
  /\ UNCHANGED <<version, cached, expired, inFlight, generation, fetch, mutator, floor>>

StartFetch(r) ==
  /\ Idle(r)
  /\ ~Usable
  /\ inFlight = None
  /\ \E f \in Fetch :
       /\ fetch[f].stage = "free"
       /\ fetch' = [fetch EXCEPT ![f] = [stage |-> "asked", generation |-> generation, saw |-> 0]]
       /\ inFlight' = f
       /\ AwaitFetch(r, f)
  /\ UNCHANGED <<version, cached, expired, generation, mutator, floor>>

\* The server executes channellist.
Answer(f) ==
  /\ fetch[f].stage = "asked"
  /\ fetch' = [fetch EXCEPT ![f] = [@ EXCEPT !.stage = "read", !.saw = version]]
  /\ UNCHANGED <<version, cached, expired, inFlight, generation, reader, mutator, floor>>

\* The connection, the command or its answer fails or runs out of time.
FetchFails(f) ==
  /\ fetch[f].stage \in {"asked", "read"}
  /\ fetch' = [fetch EXCEPT ![f].stage = "failed"]
  /\ UNCHANGED <<version, cached, expired, inFlight, generation, reader, mutator, floor>>

\* mutant: the answer is cached whatever happened since the request.
UnfencedCurrent(f) == TRUE
Current(f) == fetch[f].generation = generation

\* `then`: cache the snapshot unless the cache was invalidated meanwhile.
Store(f) ==
  /\ fetch[f].stage = "read"
  /\ fetch' = [fetch EXCEPT ![f].stage = "stored"]
  /\ IF Current(f) THEN cached' = fetch[f].saw /\ expired' = FALSE
                   ELSE UNCHANGED <<cached, expired>>
  /\ UNCHANGED <<version, inFlight, generation, reader, mutator, floor>>

\* mutant: the slot is cleared after a success only.
ForgetStored(f) == inFlight' = IF inFlight = f /\ fetch[f].stage = "stored" THEN None ELSE inFlight
Forget(f) == inFlight' = IF inFlight = f THEN None ELSE inFlight

\* `finally`; then everybody who awaits this promise goes on with its outcome.
Settle(f) ==
  /\ fetch[f].stage \in {"stored", "failed"}
  /\ Forget(f)
  /\ reader' = [r \in Reader |->
                 IF reader[r].on # f THEN reader[r]
                 ELSE [reader[r] EXCEPT !.on = None,
                         !.stage = IF fetch[f].stage = "stored" THEN "served" ELSE "refused",
                         !.got = IF fetch[f].stage = "stored" THEN fetch[f].saw ELSE 0]]
  /\ fetch' = [fetch EXCEPT ![f] = [stage |-> "free", generation |-> 0, saw |-> 0]]
  /\ UNCHANGED <<version, cached, expired, generation, mutator, floor>>

\* Thirty seconds have passed.
Expire ==
  /\ Usable
  /\ expired' = TRUE
  /\ UNCHANGED <<version, cached, inFlight, generation, fetch, reader, mutator, floor>>

-----------------------------------------------------------------------------
(* Mutations *)

Command(m) ==
  /\ mutator[m] = "idle"
  /\ version < MaxVersion
  /\ mutator' = [mutator EXCEPT ![m] = "sent"]
  /\ UNCHANGED <<version, cached, expired, inFlight, generation, fetch, reader, floor>>

\* The server executes the command -- also when nobody waits for it any more.
Land(m) ==
  /\ mutator[m] \in {"sent", "late"}
  /\ version < MaxVersion
  /\ version' = version + 1
  /\ mutator' = [mutator EXCEPT ![m] = IF @ = "sent" THEN "landed" ELSE "idle"]
  /\ UNCHANGED <<cached, expired, inFlight, generation, fetch, reader, floor>>

\* mutant: the snapshot is dropped, the read in flight is not.
InvalidateCached == generation' = generation + 1 /\ cached' = None /\ UNCHANGED inFlight
\* mutant: the read in flight is dropped, the snapshot is not.
InvalidateInFlight == generation' = generation + 1 /\ inFlight' = None /\ UNCHANGED cached
InvalidateCache == generation' = generation + 1 /\ cached' = None /\ inFlight' = None

\* The operation returns or throws; its `finally` invalidates the cache.
Return(m) ==
  /\ mutator[m] \in {"sent", "landed"}
  /\ mutator' = [mutator EXCEPT ![m] = IF @ = "sent" THEN "late" ELSE "idle"]
  /\ InvalidateCache
  /\ floor' = version
  /\ UNCHANGED <<version, expired, fetch, reader>>

Next ==
  \/ \E r \in Reader : ReadCached(r) \/ JoinFetch(r) \/ StartFetch(r)
  \/ \E f \in Fetch : Answer(f) \/ FetchFails(f) \/ Store(f) \/ Settle(f)
  \/ \E m \in Mutator : Command(m) \/ Land(m) \/ Return(m)
  \/ Expire

Spec == Init /\ [][Next]_vars

\* A read ends, if only because runTeamSpeakOperation's deadlines end it.
LiveSpec ==
  Spec /\ \A f \in Fetch : WF_vars(Answer(f) \/ FetchFails(f) \/ Store(f) \/ Settle(f))

-----------------------------------------------------------------------------
(* Properties *)

\* "a response started before a mutation cannot repopulate the cache": what is
\* cached is never older than the last mutation that returned.
CacheNotOlderThanMutation == cached # None => cached >= floor

\* Whoever asks after a mutation returned sees its effects, also when it shares
\* a read that others have started.
ReadYourWrites == \A r \in Reader : reader[r].stage = "served" => reader[r].got >= reader[r].since

\* The shared read is of the current generation and not over: nobody is given
\* the outcome of a read that had already failed.
InFlightIsLive ==
  inFlight # None => fetch[inFlight].stage # "free" /\ Current(inFlight)

\* Every caller gets an answer or an error.
CallersReturn == \A r \in Reader : reader[r].stage = "waiting" ~> reader[r].stage # "waiting"
=============================================================================
