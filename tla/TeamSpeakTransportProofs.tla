---------------------- MODULE TeamSpeakTransportProofs ----------------------
(***************************************************************************)
(* What runTeamSpeakOperation guarantees whatever its limits, its commands   *)
(* and the library do, and that it implements the abstract connection.       *)
(*                                                                          *)
(* The argument rests on one invariant.  Nothing is pending once stopped:    *)
(* stop() rejects what is outstanding and bounded() starts nothing after it. *)
(* So every action that stops the operation either closes an open connection *)
(* or finds nothing to reject, which is what the refinement needs.           *)
(***************************************************************************)
EXTENDS TeamSpeakTransport, TLAPS

\* The result is the callback's from the moment the try block ended.
ResultIsTheCallbacks ==
  /\ phase \in {"start", "connecting"} => call["operation"] = "new"
  /\ phase \in {"quitting", "returning", "settled"} =>
       /\ call["operation"] # "pending"
       /\ result \in {"value", "error"}
       /\ result = "value" <=> call["operation"] = "resolved"

\* The client is closed before the function returns.
ClosedBeforeReturn ==
  /\ phase \in {"returning", "settled"} => stopped
  /\ outcome # "none" => phase = "settled" /\ outcome = result

\* expiresAt is the earlier of the operation's deadline and the call's own.
Expires ==
  \A x \in Call : call[x] = "pending" =>
    /\ expiresAt[x] <= OperationMs
    /\ expiresAt[x] <= timer[x]

Inv ==
  /\ TypeOK
  /\ NothingPendingAfterStop
  /\ ResultIsTheCallbacks
  /\ ClosedBeforeReturn
  /\ Expires

-----------------------------------------------------------------------------
\* The calls that have names of their own are distinct from the commands.
LEMMA Calls ==
  /\ {"connect", "operation", "quit"} \subseteq Call
  /\ Command \subseteq Call
  /\ \A c \in Command : c # "connect" /\ c # "operation" /\ c # "quit"
BY TransportAssumption DEF Call

\* stop() leaves no call pending and settles no other.
LEMMA AbortedFacts ==
  ASSUME TypeOK
  PROVE  /\ Aborted \in [Call -> {"new", "pending", "resolved", "rejected"}]
         /\ \A x \in Call : Aborted[x] = IF call[x] = "pending" THEN "rejected" ELSE call[x]
BY DEF TypeOK, Aborted

\* What a call of bounded() does to any call.
LEMMA BoundedFacts ==
  ASSUME TypeOK, NothingPendingAfterStop, Expires,
         NEW x \in Call, NEW ms \in Nat, Bounded(x, ms)
  PROVE  /\ stopped' \in BOOLEAN
         /\ call' \in [Call -> {"new", "pending", "resolved", "rejected"}]
         /\ expiresAt' \in [Call -> 0..Never]
         /\ timer' \in [Call -> 0..Never]
         /\ lib' \in [Call -> {"idle", "running", "settled"}]
         /\ stopped => stopped'
         /\ \A y \in Call : call'[y] = "resolved" <=> call[y] = "resolved"
         /\ \A y \in Call : y # x /\ call'[y] = "pending" => call[y] = "pending"
         /\ \A y \in Call : y # x /\ call[y] = "new" => call'[y] = "new"
         /\ stopped' => \A y \in Call : call'[y] # "pending"
         /\ \A y \in Call : call'[y] = "pending" =>
              expiresAt'[y] <= OperationMs /\ expiresAt'[y] <= timer'[y]
<1>1. CASE Refused
  <2>1. /\ stopped' = TRUE
        /\ call' = [Aborted EXCEPT ![x] = "rejected"]
        /\ UNCHANGED <<expiresAt, timer, lib>>
    BY <1>1 DEF Bounded
  <2>2. call[x] = "new"
    BY DEF Bounded
  <2> QED
    BY <2>1, <2>2, AbortedFacts DEF TypeOK
<1>2. CASE ~Refused
  <2>1. /\ call[x] = "new"
        /\ call' = [call EXCEPT ![x] = "pending"]
        /\ expiresAt' = [expiresAt EXCEPT ![x] = Least(OperationMs, now + ms)]
        /\ timer' = [timer EXCEPT ![x] = Least(Never, now + ms)]
        /\ lib' = [lib EXCEPT ![x] = "running"]
        /\ UNCHANGED stopped
        /\ ~stopped
    BY <1>2 DEF Bounded, Refused
  <2>2. /\ now \in Nat /\ OperationMs \in Nat /\ Never \in Nat /\ OperationMs <= Never
    BY TransportAssumption DEF TypeOK, Never
  <2>3. /\ Least(OperationMs, now + ms) \in 0..Never
        /\ Least(Never, now + ms) \in 0..Never
        /\ Least(OperationMs, now + ms) <= OperationMs
        /\ Least(OperationMs, now + ms) <= Least(Never, now + ms)
    BY <2>2 DEF Least
  <2> QED
    BY <2>1, <2>3 DEF TypeOK, Expires
<1> QED
  BY <1>1, <1>2

\* stop() as part of another action.
LEMMA StopFacts ==
  ASSUME TypeOK, Stop
  PROVE  /\ stopped' = TRUE
         /\ call' \in [Call -> {"new", "pending", "resolved", "rejected"}]
         /\ \A x \in Call : call'[x] # "pending"
         /\ \A x \in Call : call[x] # "pending" => call'[x] = call[x]
         /\ \A x \in Call : call'[x] = "resolved" <=> call[x] = "resolved"
BY AbortedFacts DEF Stop

-----------------------------------------------------------------------------
\* The invariant holds at the start.
LEMMA InitInv == Init => Inv
<1> SUFFICES ASSUME Init PROVE Inv
  OBVIOUS
<1>1. Horizon \in Nat /\ Never \in 0..Never /\ 0 \in 0..Horizon
  BY TransportAssumption DEF Never
<1>2. TypeOK
  BY <1>1 DEF Init, TypeOK
<1> QED
  BY <1>2, Calls DEF Init, Inv, NothingPendingAfterStop, ResultIsTheCallbacks,
     ClosedBeforeReturn, Expires

\* The finally block preserves it: either branch ends the try block.
LEMMA FinallyInv ==
  ASSUME Inv, phase \in {"connecting", "operating"}, call["operation"] # "pending",
         NEW r \in {"value", "error"}, r = "value" <=> call["operation"] = "resolved",
         Finally(r)
  PROVE  Inv'
<1>1. /\ "quit" \in Call /\ "operation" \in Call
      /\ DisconnectMs \in Nat
      /\ outcome = "none"
  BY Calls, TransportAssumption DEF Inv, ClosedBeforeReturn
<1>2. CASE stopped
  BY <1>1, <1>2 DEF Finally, Inv, TypeOK, NothingPendingAfterStop, ResultIsTheCallbacks,
     ClosedBeforeReturn, Expires
<1>3. CASE ~stopped
  <2>1. Bounded("quit", DisconnectMs) /\ phase' = "quitting" /\ result' = r
        /\ deadline' = FALSE /\ UNCHANGED <<now, outcome>>
    BY <1>3 DEF Finally
  <2> QED
    BY <1>1, <2>1, BoundedFacts DEF Inv, TypeOK, NothingPendingAfterStop,
       ResultIsTheCallbacks, ClosedBeforeReturn, Expires
<1> QED
  BY <1>2, <1>3 DEF Inv, TypeOK

\* Every step preserves it.
LEMMA NextInv == Inv /\ [Next]_vars => Inv'
<1> SUFFICES ASSUME Inv, [Next]_vars PROVE Inv'
  OBVIOUS
<1>0. /\ TypeOK /\ NothingPendingAfterStop /\ Expires /\ ResultIsTheCallbacks
      /\ ClosedBeforeReturn
  BY DEF Inv
<1>1. CASE Start
  BY <1>0, <1>1, Calls, TransportAssumption, BoundedFacts
     DEF Start, Inv, TypeOK, NothingPendingAfterStop, ResultIsTheCallbacks,
         ClosedBeforeReturn, Expires
<1>2. CASE Connected
  <2>1. Never \in Nat
    BY TransportAssumption DEF Never
  <2>2. Bounded("operation", Never) /\ phase = "connecting" /\ phase' = "operating"
        /\ UNCHANGED <<now, deadline, result, outcome>>
    BY <1>2 DEF Connected, KeepDeadline
  <2> QED
    BY <1>0, <2>1, <2>2, Calls, BoundedFacts
       DEF Inv, TypeOK, NothingPendingAfterStop, ResultIsTheCallbacks,
           ClosedBeforeReturn, Expires
<1>3. CASE NotConnected
  <2>1. /\ phase = "connecting" /\ call["operation"] = "new" /\ Finally("error")
    BY <1>0, <1>3 DEF NotConnected, ResultIsTheCallbacks
  <2> QED
    BY <2>1, FinallyInv
<1>4. CASE OperationSettled
  <2>1. /\ phase = "operating" /\ call["operation"] # "pending"
        /\ Finally(IF call["operation"] = "resolved" THEN "value" ELSE "error")
    BY <1>4 DEF OperationSettled
  <2> QED
    BY <2>1, FinallyInv
<1>5. CASE QuitSettled
  <2>1. CASE stopped
    BY <1>0, <1>5, <2>1 DEF QuitSettled, Inv, TypeOK, NothingPendingAfterStop,
       ResultIsTheCallbacks, ClosedBeforeReturn, Expires
  <2>2. CASE ~stopped
    <3>1. Stop /\ phase' = "returning" /\ phase = "quitting"
          /\ UNCHANGED <<now, deadline, expiresAt, timer, lib, result, outcome>>
      BY <1>5, <2>2 DEF QuitSettled
    <3> QED
      BY <1>0, <3>1, Calls, StopFacts DEF Inv, TypeOK, NothingPendingAfterStop,
         ResultIsTheCallbacks, ClosedBeforeReturn, Expires
  <2> QED
    BY <1>0, <2>1, <2>2 DEF TypeOK
<1>6. CASE Return
  BY <1>0, <1>6 DEF Return, Reported, Inv, TypeOK, NothingPendingAfterStop,
     ResultIsTheCallbacks, ClosedBeforeReturn, Expires
<1>7. CASE DeadlineFires
  <2>1. CASE stopped
    BY <1>0, <1>7, <2>1 DEF DeadlineFires, Inv, TypeOK, NothingPendingAfterStop,
       ResultIsTheCallbacks, ClosedBeforeReturn, Expires
  <2>2. CASE ~stopped
    <3>1. Stop /\ deadline' = FALSE
          /\ UNCHANGED <<now, phase, expiresAt, timer, lib, result, outcome>>
      BY <1>7, <2>2 DEF DeadlineFires
    <3> QED
      BY <1>0, <3>1, Calls, StopFacts DEF Inv, TypeOK, NothingPendingAfterStop,
         ResultIsTheCallbacks, ClosedBeforeReturn, Expires
  <2> QED
    BY <1>0, <2>1, <2>2 DEF TypeOK
<1>8. ASSUME NEW x \in Call, TimerFires(x) PROVE Inv'
  <2>1. Stop /\ UNCHANGED <<now, phase, deadline, expiresAt, timer, lib, result, outcome>>
    BY <1>8 DEF TimerFires
  <2> QED
    BY <1>0, <2>1, Calls, StopFacts DEF Inv, TypeOK, NothingPendingAfterStop,
       ResultIsTheCallbacks, ClosedBeforeReturn, Expires
<1>9. ASSUME NEW x \in Call, Fulfilled(x) PROVE Inv'
  <2>0. /\ lib' = [lib EXCEPT ![x] = "settled"]
        /\ UNCHANGED <<now, phase, deadline, expiresAt, timer, result, outcome>>
    BY <1>9 DEF Fulfilled
  <2>1. CASE InTime(x)
    <3>1. /\ call' = [call EXCEPT ![x] = IF @ = "pending" THEN "resolved" ELSE @]
          /\ UNCHANGED stopped
      BY <1>9, <2>1 DEF Fulfilled
    <3> QED
      BY <1>0, <2>0, <3>1, Calls DEF Inv, TypeOK, NothingPendingAfterStop,
         ResultIsTheCallbacks, ClosedBeforeReturn, Expires
  <2>2. CASE ~InTime(x)
    <3>1. Stop
      BY <1>9, <2>2 DEF Fulfilled
    <3> QED
      BY <1>0, <2>0, <3>1, Calls, StopFacts DEF Inv, TypeOK, NothingPendingAfterStop,
         ResultIsTheCallbacks, ClosedBeforeReturn, Expires
  <2> QED
    BY <2>1, <2>2
<1>10. ASSUME NEW x \in Call, Failed(x) PROVE Inv'
  BY <1>0, <1>10, Calls DEF Failed, Inv, TypeOK, NothingPendingAfterStop,
     ResultIsTheCallbacks, ClosedBeforeReturn, Expires
<1>11. ASSUME NEW x \in Command, Execute(x) PROVE Inv'
  <2>1. /\ Bounded(x, CommandMs) /\ x \in Call /\ x # "operation" /\ CommandMs \in Nat
        /\ "operation" \in Call
        /\ UNCHANGED <<now, phase, deadline, result, outcome>>
    BY <1>11, Calls, TransportAssumption DEF Execute
  <2> QED
    BY <1>0, <2>1, BoundedFacts DEF Inv, TypeOK, NothingPendingAfterStop,
       ResultIsTheCallbacks, ClosedBeforeReturn, Expires
<1>12. CASE Tick
  BY <1>0, <1>12, TransportAssumption DEF Tick, Inv, TypeOK, NothingPendingAfterStop,
     ResultIsTheCallbacks, ClosedBeforeReturn, Expires
<1>13. CASE UNCHANGED vars
  BY <1>0, <1>13 DEF vars, Inv, TypeOK, NothingPendingAfterStop, ResultIsTheCallbacks,
     ClosedBeforeReturn, Expires
<1> QED
  BY <1>1, <1>2, <1>3, <1>4, <1>5, <1>6, <1>7, <1>8, <1>9, <1>10, <1>11, <1>12, <1>13
     DEF Next, Own, External

LEMMA Invariance == Spec => []Inv
<1> QED
  BY InitInv, NextInv, PTL DEF Spec

-----------------------------------------------------------------------------
\* However many commands are issued and whenever they are answered, none is
\* left waiting on a client that was stopped.
THEOREM NothingLeftPending == Spec => []NothingPendingAfterStop
<1>1. Inv => NothingPendingAfterStop
  BY DEF Inv
<1> QED
  BY <1>1, Invariance, PTL

\* The caller of runTeamSpeakOperation hears the callback's outcome, and only
\* after the client was closed.
THEOREM OutcomeSound == Spec => []OutcomeIsTheCallbacks
<1>1. Inv => OutcomeIsTheCallbacks
  BY DEF Inv, TypeOK, ResultIsTheCallbacks, ClosedBeforeReturn, OutcomeIsTheCallbacks
<1> QED
  BY <1>1, Invariance, PTL

\* A late answer is a timeout, also when its timer has not fired yet.
THEOREM LateAnswersFail == Spec => AnswersInTime
<1> DEFINE A == \A x \in Call : call[x] = "pending" /\ call'[x] = "resolved"
                  => now < OperationMs /\ now < timer[x]
<1>1. Inv /\ [Next]_vars => [A]_vars
  <2> SUFFICES ASSUME Inv, Next, NEW x \in Call,
                      call[x] = "pending", call'[x] = "resolved"
               PROVE  now < OperationMs /\ now < timer[x]
    OBVIOUS
  <2>0. TypeOK /\ NothingPendingAfterStop /\ Expires
    BY DEF Inv
  <2>1. ~Stop
    BY <2>0, StopFacts
  <2>2. ASSUME NEW y \in Call, NEW ms \in Nat PROVE ~Bounded(y, ms)
    BY <2>0, <2>2, BoundedFacts
  <2>3. /\ CommandMs \in Nat /\ DisconnectMs \in Nat /\ Never \in Nat
        /\ call' # call
    BY TransportAssumption DEF Never
  <2>4. ~Start /\ ~Connected
    BY <2>2, <2>3, Calls DEF Start, Connected
  <2>5. ~NotConnected /\ ~OperationSettled
    BY <2>2, <2>3, Calls DEF NotConnected, OperationSettled, Finally
  <2>6. ~QuitSettled /\ ~Return /\ ~DeadlineFires /\ ~Tick /\ \A y \in Call : ~TimerFires(y)
    BY <2>1, <2>3 DEF QuitSettled, Return, DeadlineFires, Tick, TimerFires
  <2>7. \A y \in Command : ~Execute(y)
    BY <2>2, <2>3, Calls DEF Execute
  <2>8. \A y \in Call : ~Failed(y)
    BY <2>0 DEF Failed, TypeOK
  <2>9. PICK y \in Call : Fulfilled(y)
    BY <2>4, <2>5, <2>6, <2>7, <2>8 DEF Next, Own, External
  <2>10. y = x /\ InTime(x)
    BY <2>0, <2>1, <2>9 DEF Fulfilled, TypeOK
  <2> QED
    BY <2>0, <2>10, TransportAssumption DEF InTime, Expires, TypeOK, Never
<1>2. [][A]_vars => AnswersInTime
  BY DEF AnswersInTime
<1> QED
  BY <1>1, <1>2, Invariance, PTL DEF Spec

-----------------------------------------------------------------------------
\* A step of the operation is a step of the connection or leaves it alone.
LEMMA StepSimulation == Inv /\ [Next]_vars => [C!Next]_<<~stopped, call, outcome>>
<1> SUFFICES ASSUME Inv, [Next]_vars
             PROVE  C!Next \/ UNCHANGED <<stopped, call, outcome>>
  OBVIOUS
<1> USE DEF C!Next, C!Issue, C!Resolve, C!Reject, C!Close, C!Report
<1>0. TypeOK /\ NothingPendingAfterStop /\ ClosedBeforeReturn
  BY DEF Inv
<1>1. ASSUME Stop, UNCHANGED outcome
      PROVE  C!Next \/ UNCHANGED <<stopped, call, outcome>>
  <2>1. CASE stopped
    <3>1. call' = call
      BY <1>0, <1>1, <2>1 DEF Stop, Aborted, NothingPendingAfterStop, TypeOK
    <3> QED
      BY <1>1, <2>1, <3>1 DEF Stop
  <2>2. CASE ~stopped
    <3>1. C!Close({})
      BY <1>1, <2>2 DEF Stop, Aborted
    <3>2. \E late \in {{}} \cup {{x} : x \in Call} : C!Close(late)
      <4> HIDE DEF C!Close
      <4> QED
        BY <3>1
    <3> QED
      BY <3>2
  <2> QED
    BY <1>0, <2>1, <2>2 DEF TypeOK
<1>2. ASSUME NEW x \in Call, NEW ms, Bounded(x, ms), UNCHANGED outcome
      PROVE  C!Next
  <2>1. CASE ~Refused
    <3>1. C!Issue(x)
      BY <1>2, <2>1 DEF Bounded, Refused
    <3> QED
      BY <3>1
  <2>2. CASE Refused /\ stopped
    <3>1. /\ call[x] = "new" /\ stopped' = TRUE
          /\ call' = [Aborted EXCEPT ![x] = "rejected"]
      BY <1>2, <2>2 DEF Bounded
    <3>2. Aborted = call
      BY <1>0, <2>2 DEF Aborted, NothingPendingAfterStop, TypeOK
    <3>3. C!Issue(x)
      BY <1>2, <2>2, <3>1, <3>2
    <3> QED
      BY <3>3
  <2>3. CASE Refused /\ ~stopped
    <3>1. /\ call[x] = "new" /\ stopped' = TRUE
          /\ call' = [Aborted EXCEPT ![x] = "rejected"]
      BY <1>2, <2>3 DEF Bounded
    <3>2. call' = [y \in Call |-> IF call[y] = "pending" \/ y \in {x} THEN "rejected" ELSE call[y]]
      BY <3>1 DEF Aborted
    <3>3. C!Close({x})
      BY <1>2, <2>3, <3>1, <3>2
    <3>4. \E late \in {{}} \cup {{y} : y \in Call} : C!Close(late)
      <4> HIDE DEF C!Close
      <4> QED
        BY <1>2, <3>3
    <3> QED
      BY <3>4
  <2> QED
    BY <1>0, <2>1, <2>2, <2>3 DEF TypeOK
<1>3. ASSUME NEW r, Finally(r)
      PROVE  C!Next \/ UNCHANGED <<stopped, call, outcome>>
  BY <1>2, <1>3, Calls DEF Finally
<1>4. CASE Start \/ Connected
  BY <1>2, <1>4, Calls DEF Start, Connected
<1>5. CASE NotConnected \/ OperationSettled
  BY <1>3, <1>5 DEF NotConnected, OperationSettled
<1>6. CASE QuitSettled \/ DeadlineFires
  BY <1>1, <1>6 DEF QuitSettled, DeadlineFires
<1>7. CASE Return
  <2>1. stopped /\ outcome = "none" /\ outcome' \in {"value", "error"}
        /\ UNCHANGED <<stopped, call>>
    BY <1>7 DEF Return, Reported, Inv, ResultIsTheCallbacks, ClosedBeforeReturn, TypeOK
  <2> QED
    BY <2>1
<1>8. ASSUME NEW x \in Call, TimerFires(x)
      PROVE  C!Next \/ UNCHANGED <<stopped, call, outcome>>
  BY <1>1, <1>8 DEF TimerFires
<1>9. ASSUME NEW x \in Call, Fulfilled(x)
      PROVE  C!Next \/ UNCHANGED <<stopped, call, outcome>>
  <2>1. CASE ~InTime(x)
    BY <1>1, <1>9, <2>1 DEF Fulfilled
  <2>2. CASE InTime(x) /\ call[x] = "pending"
    <3>1. ~stopped /\ call' = [call EXCEPT ![x] = "resolved"] /\ UNCHANGED <<stopped, outcome>>
      BY <1>0, <1>9, <2>2 DEF Fulfilled, NothingPendingAfterStop, TypeOK
    <3>2. C!Resolve(x)
      BY <2>2, <3>1
    <3> QED
      BY <3>2
  <2>3. CASE InTime(x) /\ call[x] # "pending"
    BY <1>0, <1>9, <2>3 DEF Fulfilled, TypeOK
  <2> QED
    BY <2>1, <2>2, <2>3
<1>10. ASSUME NEW x \in Call, Failed(x)
       PROVE  C!Next \/ UNCHANGED <<stopped, call, outcome>>
  <2>1. CASE call[x] = "pending"
    <3>1. C!Reject(x)
      BY <1>10, <2>1 DEF Failed
    <3> QED
      BY <3>1
  <2>2. CASE call[x] # "pending"
    BY <1>0, <1>10, <2>2 DEF Failed, TypeOK
  <2> QED
    BY <2>1, <2>2
<1>11. ASSUME NEW x \in Command, Execute(x) PROVE C!Next
  BY <1>2, <1>11, Calls DEF Execute
<1>12. CASE Tick
  BY <1>12 DEF Tick
<1>13. CASE UNCHANGED vars
  BY <1>13 DEF vars
<1> QED
  BY <1>4, <1>5, <1>6, <1>7, <1>8, <1>9, <1>10, <1>11, <1>12, <1>13
     DEF Next, Own, External

\* The transport implements the connection the rest of the application relies
\* on: what WallpaperRun assumes of a connection is what this code provides.
THEOREM TransportIsConnection == Spec => ImplementsConnection
<1>1. Init => C!Init
  BY DEF Init, C!Init
<1> QED
  BY <1>1, StepSimulation, Invariance, PTL DEF Spec, ImplementsConnection, C!Spec
=============================================================================
