---------------------------- MODULE RequestReply ----------------------------
(***************************************************************************)
(* What SendReceive promises its callers, with no table, mutex, listener   *)
(* or message id in sight: a request is written at most once, the server   *)
(* replies to it at most once, and a call that returns an answer or the    *)
(* server's refusal returns the reply to its own request.  A reply may be  *)
(* lost on the way; the caller may always give up.                         *)
(***************************************************************************)
CONSTANT Goroutines

VARIABLES phase,     \* "idle", "calling" (not written yet) or "sent"
          reply,     \* what became of the reply to the current request
          outcome    \* how the last call returned

vars == <<phase, reply, outcome>>

Init ==
  /\ phase = [g \in Goroutines |-> "idle"]
  /\ reply = [g \in Goroutines |-> "none"]
  /\ outcome = [g \in Goroutines |-> "none"]

Begin(g) ==
  /\ phase[g] = "idle"
  /\ phase' = [phase EXCEPT ![g] = "calling"]
  /\ outcome' = [outcome EXCEPT ![g] = "none"]
  /\ UNCHANGED reply

(* Nobody may be left to receive it.                                       *)
Send(g) ==
  /\ phase[g] = "calling"
  /\ phase' = [phase EXCEPT ![g] = "sent"]
  /\ \E r \in {"none", "lost"} : reply' = [reply EXCEPT ![g] = r]
  /\ UNCHANGED outcome

ServerReplies(g) ==
  /\ phase[g] = "sent" /\ reply[g] = "none"
  /\ \E t \in {"answer", "error"} : reply' = [reply EXCEPT ![g] = t]
  /\ UNCHANGED <<phase, outcome>>

(* A closed connection or one read of several packets loses many at once.  *)
Lose ==
  /\ \E S \in SUBSET {g \in Goroutines : phase[g] = "sent"} :
       reply' = [g \in Goroutines |-> IF g \in S THEN "lost" ELSE reply[g]]
  /\ UNCHANGED <<phase, outcome>>

Return(g, how) ==
  /\ phase' = [phase EXCEPT ![g] = "idle"]
  /\ reply' = [reply EXCEPT ![g] = "none"]
  /\ outcome' = [outcome EXCEPT ![g] = how]

Fail(g)   == phase[g] = "calling" /\ Return(g, "failed")
GiveUp(g) == phase[g] = "sent" /\ Return(g, "timeout")

Take(g) ==
  /\ phase[g] = "sent"
  /\ \/ reply[g] = "answer" /\ Return(g, "answered")
     \/ reply[g] = "error" /\ Return(g, "refused")

Next ==
  \/ \E g \in Goroutines : Begin(g) \/ Send(g) \/ ServerReplies(g) \/ Fail(g) \/ GiveUp(g) \/ Take(g)
  \/ Lose

Spec == Init /\ [][Next]_vars
=============================================================================
