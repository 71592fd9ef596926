------------------------ MODULE ImageProcessingGate ------------------------
(***************************************************************************)
(* ImageProcessingGate.run (src/src/images/image-processing-gate.ts): a     *)
(* counter of occupied slots and a list of resolvers bound the wallpaper    *)
(* renderings that are active and the uploads that wait in memory.          *)
(*                                                                          *)
(* A slot is handed over: next() only resolves a promise, the waiter goes   *)
(* on in a later microtask, and other requests can call run() in between.   *)
(***************************************************************************)
EXTENDS Integers, Sequences, FiniteSets

CONSTANTS
  Request,      \* requests that may ask for the gate, again and again
  Concurrency,  \* slots
  QueueLimit    \* places in the list of waiters

ASSUME GateAssumption ==
  /\ IsFiniteSet(Request)
  /\ Concurrency \in Nat \ {0}
  /\ QueueLimit \in Nat

VARIABLES
  active,   \* the counter
  waiting,  \* the list of resolvers, by the request that waits for it
  place     \* where each request is

vars == <<active, waiting, place>>

\* granted: the resolver was called, the continuation has not run yet.
Place == {"outside", "waiting", "granted", "running"}

TypeOK ==
  /\ active \in Nat
  /\ waiting \in Seq(Request)
  /\ place \in [Request -> Place]

Init ==
  /\ active = 0
  /\ waiting = <<>>
  /\ place = [r \in Request |-> "outside"]

\* mutant: the limit is tested after the request was counted.
FullLate == active > Concurrency
Full == active >= Concurrency

Take == active' = active + 1

\* run() up to its first await: the operation starts at once if a slot is free.
Start(r) ==
  /\ place[r] = "outside"
  /\ ~Full
  /\ Take
  /\ place' = [place EXCEPT ![r] = "running"]
  /\ UNCHANGED waiting

Enqueue(r) ==
  /\ place[r] = "outside"
  /\ Full
  /\ Len(waiting) < QueueLimit
  /\ waiting' = Append(waiting, r)
  /\ place' = [place EXCEPT ![r] = "waiting"]
  /\ UNCHANGED active

\* The microtask after `await new Promise`: the operation starts.
Continue(r) ==
  /\ place[r] = "granted"
  /\ place' = [place EXCEPT ![r] = "running"]
  /\ UNCHANGED <<active, waiting>>

\* mutant: the slot is given back, the waiter finds its own way.
AfterNobody == active' = active - 1 /\ UNCHANGED waiting
\* The finally block: hand the slot to the first waiter or give it back.
After == IF waiting = <<>> THEN active' = active - 1 /\ UNCHANGED waiting
                           ELSE waiting' = Tail(waiting) /\ UNCHANGED active

\* The operation ended, with a result or an error.
Finish(r) ==
  /\ place[r] = "running"
  /\ After
  /\ place' = [q \in Request |->
                IF q = r THEN "outside"
                ELSE IF waiting' # waiting /\ q = Head(waiting) THEN "granted"
                ELSE place[q]]

\* ImageProcessingBusyError leaves no trace: a refused request stays outside.
Next == \E r \in Request : Start(r) \/ Enqueue(r) \/ Continue(r) \/ Finish(r)

Spec == Init /\ [][Next]_vars

\* Microtasks run and operations end.
LiveSpec == Spec /\ \A r \in Request : WF_vars(Continue(r)) /\ WF_vars(Finish(r))

-----------------------------------------------------------------------------
(* Properties *)

Holders == {r \in Request : place[r] \in {"granted", "running"}}

\* The counter is the number of requests that own a slot, those included whose
\* slot was handed over and whose continuation has not run; so at most
\* Concurrency renderings are active and at most QueueLimit uploads wait.
Bounded ==
  /\ active = Cardinality(Holders)
  /\ active <= Concurrency
  /\ Len(waiting) <= QueueLimit

\* Nobody waits while a slot is free, the list holds the requests that wait,
\* each once: no resolver is lost and no slot is left unused.
NoSlotWasted ==
  /\ waiting # <<>> => active = Concurrency
  /\ {waiting[i] : i \in 1..Len(waiting)} = {r \in Request : place[r] = "waiting"}
  /\ \A i, j \in 1..Len(waiting) : waiting[i] = waiting[j] => i = j

\* Slots go to the requests in the order they came: nobody starts while others
\* wait, and only the first of the list is let in.
FirstComeFirstServed ==
  [][\A r \in Request : place[r] \notin {"granted", "running"} /\ place'[r] \in {"granted", "running"}
       => waiting = <<>> \/ (place[r] = "waiting" /\ Head(waiting) = r)]_vars

\* A request that was accepted into the list gets its slot.
Served == \A r \in Request : place[r] = "waiting" ~> place[r] = "running"
=============================================================================
