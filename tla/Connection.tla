----------------------------- MODULE Connection -----------------------------
(***************************************************************************)
(* What the rest of the application may expect of one TeamSpeak connection: *)
(* calls are answered while it is open; once it is closed every call that   *)
(* was outstanding has failed and no other is started; the operation has    *)
(* one outcome, reported after the connection was closed.  WallpaperRun     *)
(* uses it in this form (conn, Send, Stop).                                 *)
(***************************************************************************)
CONSTANT Call  \* the promises handed out: connect, operation, quit, commands

VARIABLES
  open,     \* the connection is usable
  call,     \* what became of each call
  outcome   \* of the operation, as its caller sees it

CallStage == {"new", "pending", "resolved", "rejected"}

Init ==
  /\ open = TRUE
  /\ call = [x \in Call |-> "new"]
  /\ outcome = "none"

Issue(x) ==
  /\ call[x] = "new"
  /\ call' = [call EXCEPT ![x] = IF open THEN "pending" ELSE "rejected"]
  /\ UNCHANGED <<open, outcome>>

Resolve(x) ==
  /\ open
  /\ call[x] = "pending"
  /\ call' = [call EXCEPT ![x] = "resolved"]
  /\ UNCHANGED <<open, outcome>>

Reject(x) ==
  /\ call[x] = "pending"
  /\ call' = [call EXCEPT ![x] = "rejected"]
  /\ UNCHANGED <<open, outcome>>

\* Everything outstanding fails with the connection, and so do the calls in
\* `late`, which are just being made.
Close(late) ==
  /\ open
  /\ \A x \in late : call[x] = "new"
  /\ open' = FALSE
  /\ call' = [x \in Call |-> IF call[x] = "pending" \/ x \in late THEN "rejected" ELSE call[x]]
  /\ UNCHANGED outcome

Report(o) ==
  /\ ~open
  /\ outcome = "none"
  /\ outcome' = o
  /\ UNCHANGED <<open, call>>

Next ==
  \/ \E x \in Call : Issue(x) \/ Resolve(x) \/ Reject(x)
  \/ \E late \in {{}} \cup {{x} : x \in Call} : Close(late)
  \/ \E o \in {"value", "error"} : Report(o)

Spec == Init /\ [][Next]_<<open, call, outcome>>
=============================================================================
