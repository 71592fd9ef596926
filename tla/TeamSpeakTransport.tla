------------------------- MODULE TeamSpeakTransport -------------------------
(***************************************************************************)
(* runTeamSpeakOperation (src/src/teamspeak/teamspeak-transport.ts): one    *)
(* client from connect to quit, under a deadline for the whole operation, a *)
(* timeout for every command and one for the disconnect.                    *)
(*                                                                          *)
(* The client library is external: each of its promises may settle at any   *)
(* time or never, also after this module gave the call up.  The callback is *)
(* external too: while it runs -- it may still run when its outcome was     *)
(* decided -- it issues commands.  Timers may fire late (the event loop may *)
(* be busy), never early.                                                   *)
(***************************************************************************)
EXTENDS Integers

CONSTANTS
  Command,       \* calls of client.execute
  CommandMs,     \* limits, in ticks
  OperationMs,
  DisconnectMs,
  Horizon        \* bound of the clock

ASSUME TransportAssumption ==
  /\ {CommandMs, OperationMs, DisconnectMs, Horizon} \subseteq Nat
  /\ OperationMs + CommandMs + DisconnectMs <= Horizon
  /\ Command \cap {"connect", "operation", "quit"} = {}

Call == Command \cup {"connect", "operation", "quit"}

VARIABLES
  now,        \* Date.now(), from the start of the operation
  phase,      \* where runTeamSpeakOperation is
  stopped,    \* `stopped` is set and forceQuit was called
  deadline,   \* the operation's timer is set
  call,       \* the promise each bounded() returned; `pending` are the pending ones
  expiresAt,  \* of each call
  timer,      \* when its timer is due
  lib,        \* the library's promise behind it
  result,     \* of the try block
  outcome     \* of the promise runTeamSpeakOperation returned

vars == <<now, phase, stopped, deadline, call, expiresAt, timer, lib, result, outcome>>

Never == Horizon + 1

TypeOK ==
  /\ now \in 0..Horizon
  /\ phase \in {"start", "connecting", "operating", "quitting", "returning", "settled"}
  /\ stopped \in BOOLEAN
  /\ deadline \in BOOLEAN
  /\ call \in [Call -> {"new", "pending", "resolved", "rejected"}]
  /\ expiresAt \in [Call -> 0..Never]
  /\ timer \in [Call -> 0..Never]
  /\ lib \in [Call -> {"idle", "running", "settled"}]
  /\ result \in {"none", "value", "error"}
  /\ outcome \in {"none", "value", "error"}

Init ==
  /\ now = 0
  /\ phase = "start"
  /\ stopped = FALSE
  /\ deadline = TRUE
  /\ call = [x \in Call |-> "new"]
  /\ expiresAt = [x \in Call |-> Never]
  /\ timer = [x \in Call |-> Never]
  /\ lib = [x \in Call |-> "idle"]
  /\ result = "none"
  /\ outcome = "none"

-----------------------------------------------------------------------------
Least(m, n) == IF m < n THEN m ELSE n

\* mutant: only the commands are rejected.
AbortedCommands == [x \in Call |-> IF x \in Command /\ call[x] = "pending" THEN "rejected" ELSE call[x]]
\* stop(): reject whatever is pending, then close.
Aborted == [x \in Call |-> IF call[x] = "pending" THEN "rejected" ELSE call[x]]

Stop ==
  /\ stopped' = TRUE
  /\ call' = Aborted

\* mutant: a call is started although the operation was stopped.
RefusedOnTime == now >= OperationMs
Refused == stopped \/ now >= OperationMs

\* bounded(start, ms); ms = Never stands for undefined.
Bounded(x, ms) ==
  /\ call[x] = "new"
  /\ IF Refused
       THEN /\ stopped' = TRUE
            /\ call' = [Aborted EXCEPT ![x] = "rejected"]
            /\ UNCHANGED <<expiresAt, timer, lib>>
       ELSE /\ call' = [call EXCEPT ![x] = "pending"]
            /\ expiresAt' = [expiresAt EXCEPT ![x] = Least(OperationMs, now + ms)]
            /\ timer' = [timer EXCEPT ![x] = Least(Never, now + ms)]
            /\ lib' = [lib EXCEPT ![x] = "running"]
            /\ UNCHANGED stopped

Start ==
  /\ phase = "start"
  /\ Bounded("connect", CommandMs)
  /\ phase' = "connecting"
  /\ UNCHANGED <<now, deadline, result, outcome>>

\* Handshake, callback or quit call client.execute, which was replaced.
Execute(c) ==
  /\ \E x \in {"connect", "operation", "quit"} : lib[x] = "running"
  /\ Bounded(c, CommandMs)
  /\ UNCHANGED <<now, phase, deadline, result, outcome>>

\* mutant: an answer is taken whenever it arrives.
InTimeAlways(x) == TRUE
InTime(x) == now < expiresAt[x]

\* The library's promise is fulfilled.
Fulfilled(x) ==
  /\ lib[x] = "running"
  /\ lib' = [lib EXCEPT ![x] = "settled"]
  /\ IF InTime(x)
       THEN /\ call' = [call EXCEPT ![x] = IF @ = "pending" THEN "resolved" ELSE @]
            /\ UNCHANGED stopped
       ELSE Stop
  /\ UNCHANGED <<now, phase, deadline, expiresAt, timer, result, outcome>>

\* It is rejected, or start() throws.
Failed(x) ==
  /\ lib[x] = "running"
  /\ lib' = [lib EXCEPT ![x] = "settled"]
  /\ call' = [call EXCEPT ![x] = IF @ = "pending" THEN "rejected" ELSE @]
  /\ UNCHANGED <<now, phase, stopped, deadline, expiresAt, timer, result, outcome>>

TimerFires(x) ==
  /\ call[x] = "pending"
  /\ now >= timer[x]
  /\ Stop
  /\ UNCHANGED <<now, phase, deadline, expiresAt, timer, lib, result, outcome>>

DeadlineFires ==
  /\ deadline
  /\ now >= OperationMs
  /\ deadline' = FALSE
  /\ IF stopped THEN UNCHANGED <<stopped, call>> ELSE Stop
  /\ UNCHANGED <<now, phase, expiresAt, timer, lib, result, outcome>>

\* The finally block: disconnect unless the connection is closed already.
Finally(r) ==
  /\ result' = r
  /\ deadline' = FALSE
  /\ IF stopped THEN /\ phase' = "returning"
                     /\ UNCHANGED <<stopped, call, expiresAt, timer, lib>>
                ELSE /\ phase' = "quitting"
                     /\ Bounded("quit", DisconnectMs)
  /\ UNCHANGED <<now, outcome>>

\* mutant: the deadline is cancelled once the handshake succeeded.
KeepDeadlineNot == deadline' = FALSE
KeepDeadline == UNCHANGED deadline

Connected ==
  /\ phase = "connecting"
  /\ call["connect"] = "resolved"
  /\ Bounded("operation", Never)
  /\ phase' = "operating"
  /\ KeepDeadline
  /\ UNCHANGED <<now, result, outcome>>

NotConnected ==
  /\ phase = "connecting"
  /\ call["connect"] = "rejected"
  /\ Finally("error")

OperationSettled ==
  /\ phase = "operating"
  /\ call["operation"] \in {"resolved", "rejected"}
  /\ Finally(IF call["operation"] = "resolved" THEN "value" ELSE "error")

\* Graceful or not, the client is closed by force.
QuitSettled ==
  /\ phase = "quitting"
  /\ call["quit"] \in {"resolved", "rejected"}
  /\ IF stopped THEN UNCHANGED <<stopped, call>> ELSE Stop
  /\ phase' = "returning"
  /\ UNCHANGED <<now, deadline, expiresAt, timer, lib, result, outcome>>

\* mutant: a disconnect that failed is the operation's outcome.
ReportedQuit == IF call["quit"] = "rejected" THEN "error" ELSE result
Reported == result

Return ==
  /\ phase = "returning"
  /\ phase' = "settled"
  /\ outcome' = Reported
  /\ UNCHANGED <<now, stopped, deadline, call, expiresAt, timer, lib, result>>

Tick ==
  /\ now < Horizon
  /\ now' = now + 1
  /\ UNCHANGED <<phase, stopped, deadline, call, expiresAt, timer, lib, result, outcome>>

\* runTeamSpeakOperation itself: microtasks and timers.
Own ==
  \/ Start \/ Connected \/ NotConnected \/ OperationSettled \/ QuitSettled \/ Return
  \/ DeadlineFires \/ \E x \in Call : TimerFires(x)

\* The client library and the callback.
External == \E x \in Call : Fulfilled(x) \/ Failed(x) \/ (x \in Command /\ Execute(x))

Next == Own \/ External \/ Tick

Spec == Init /\ [][Next]_vars

\* Time passes and the event loop turns; nothing is asked of the library or of
\* the callback.
LiveSpec == Spec /\ WF_vars(Own) /\ WF_vars(Tick)

-----------------------------------------------------------------------------
(* Properties *)

\* Once stopped, by a timeout or at the end, no call is left pending: neither
\* one that was outstanding nor one made afterwards by a callback that goes on.
NothingPendingAfterStop == stopped => \A x \in Call : call[x] # "pending"

\* The caller hears the outcome only when the client is closed, and it is the
\* callback's: no failure to disconnect and no late answer changes it.
OutcomeIsTheCallbacks ==
  outcome # "none" =>
    /\ stopped
    /\ outcome = "value" <=> call["operation"] = "resolved"

\* An answer counts only before its deadline, however late the timer fires.
AnswersInTime ==
  [][\A x \in Call : call[x] = "pending" /\ call'[x] = "resolved"
       => now < OperationMs /\ now < timer[x]]_vars

\* The operation ends although the server, the library and the callback may
\* never do anything again.
Settles == <>(outcome # "none")

\* To its users the operation is a connection as Connection describes it.
C == INSTANCE Connection WITH open <- ~stopped
ImplementsConnection == C!Spec
=============================================================================
