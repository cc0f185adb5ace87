------------------------------ MODULE TcpClient ------------------------------
(***************************************************************************)
(* The client's connection object, client/internal/tcpclient: caller       *)
(* goroutines send requests with SendReceive and wait for the answer, one  *)
(* listener goroutine reads the socket and hands every packet to the       *)
(* caller waiting for its message id or to the handler of its type.  One   *)
(* mutex guards the table of pending requests, the table of handlers, the  *)
(* credentials and the writes.                                             *)
(*                                                                         *)
(* A critical section that neither blocks nor calls out is one atomic      *)
(* step, enabled while the mutex is free.  Two sections are split because  *)
(* they block while holding it: the write to the socket and the listener's *)
(* hand-over of an answer on the caller's unbuffered channel.              *)
(***************************************************************************)
EXTENDS Naturals, Sequences, FiniteSets

CONSTANTS Callers,    \* goroutines that call SendReceive (UI, page loader)
          Listener,   \* the goroutine started by Connect
          MsgIds,     \* message ids; one is reused only when no trace is left
          NoId,       \* not a message id
          Free,       \* owner of the mutex when nobody holds it
          MaxInbox    \* bound: packets in the socket's receive buffer

ASSUME ListenerAssumption == Listener \notin Callers
ASSUME IdAssumption == NoId \notin MsgIds
ASSUME FreeAssumption == Free \notin Callers \cup {Listener}
ASSUME InboxAssumption == MaxInbox \in Nat

Goroutines == Callers \cup {Listener}

(* What packet.payload makes of a request: "open" needs no credentials     *)
(* (ReqKey, ReqLogin, ReqSignup), "authed" does, "oversized" is refused.   *)
Classes == {"open", "authed", "oversized"}

Packet == [type : {"answer", "error"}, id : MsgIds] \cup [type : {"push"}, id : {NoId}]
NoPacket == [type |-> "none", id |-> NoId]

VARIABLES
  conn,      \* the TCP connection: "none", "up", or "eof" once the server is gone
  mu,        \* the goroutine that holds TCPServer.mu, or Free
  pending,   \* keys of pendingResponses
  auth,      \* which of authToken and authID are set
  handlers,  \* whether a RecvMessage handler is registered
  pc,        \* where each goroutine is in SendReceive
  req,       \* the message id of its current request
  class,     \* the class of its current request
  outcome,   \* how its last SendReceive returned
  lpc,       \* where the listener is in its loop
  packet,    \* the packet the listener is dispatching
  inbox,     \* packets sent by the server and not yet read
  asked      \* requests the server has received and not answered

callVars == <<pc, req, class, outcome>>
netVars  == <<inbox, asked>>
vars == <<conn, mu, pending, auth, handlers, callVars, lpc, packet, netVars>>

TypeOK ==
  /\ conn \in {"none", "up", "eof"}
  /\ mu \in Goroutines \cup {Free}
  /\ pending \subseteq MsgIds
  /\ auth \subseteq {"token", "id"}
  /\ handlers \in BOOLEAN
  /\ pc \in [Goroutines -> {"idle", "registered", "writing", "select", "timedOut", "writeFailed"}]
  /\ req \in [Goroutines -> MsgIds \cup {NoId}]
  /\ class \in [Goroutines -> Classes]
  /\ outcome \in [Goroutines -> {"none", "answered", "refused", "failed", "timeout"}]
  /\ lpc \in {"off", "read", "lookup", "handing", "handler", "called"}
  /\ packet \in Packet \cup {NoPacket}
  /\ inbox \in Seq(Packet)
  /\ asked \subseteq MsgIds

InboxIds == {inbox[i].id : i \in 1..Len(inbox)}
InFlight == asked \cup InboxIds \cup {packet.id}

(* Mutant: an id is drawn that only the table is checked for, so that it   *)
(* may still be travelling.                                                *)
FreshId_Reused(id) == id \in MsgIds \ pending

(* createPacket draws 16 random bytes: an id no goroutine, table entry or  *)
(* packet still carries.                                                   *)
FreshId(id) == id \in MsgIds /\ id \notin InFlight \cup pending \cup {req[g] : g \in Goroutines}

Init ==
  /\ conn = "none"
  /\ mu = Free
  /\ pending = {}
  /\ auth = {}
  /\ handlers = FALSE
  /\ pc = [g \in Goroutines |-> "idle"]
  /\ req = [g \in Goroutines |-> NoId]
  /\ class = [g \in Goroutines |-> "open"]
  /\ outcome = [g \in Goroutines |-> "none"]
  /\ lpc = "off"
  /\ packet = NoPacket
  /\ inbox = <<>>
  /\ asked = {}

-----------------------------------------------------------------------------
(* Set-up and the small locked setters.                                    *)

(* The handshake has been read when Connect returns; a dial that keeps     *)
(* failing ends the program, so only the success is a step.                *)
Connect ==
  /\ conn = "none"
  /\ conn' = "up"
  /\ lpc' = "read"
  /\ UNCHANGED <<mu, pending, auth, handlers, callVars, packet, netVars>>

RegisterHandler ==
  /\ mu = Free
  /\ ~handlers
  /\ handlers' = TRUE
  /\ UNCHANGED <<conn, mu, pending, auth, callVars, lpc, packet, netVars>>

(* Login and Signup set the token, then the id, once the server answered.  *)
SetAuthToken(g) ==
  /\ mu = Free
  /\ g \in Callers /\ pc[g] = "idle" /\ outcome[g] = "answered"
  /\ auth' = auth \cup {"token"}
  /\ UNCHANGED <<conn, mu, pending, handlers, callVars, lpc, packet, netVars>>

SetAuthID(g) ==
  /\ mu = Free
  /\ g \in Callers /\ pc[g] = "idle" /\ outcome[g] = "answered"
  /\ "token" \in auth
  /\ auth' = auth \cup {"id"}
  /\ UNCHANGED <<conn, mu, pending, handlers, callVars, lpc, packet, netVars>>

-----------------------------------------------------------------------------
(* SendReceive.                                                            *)

(* The listener's own goroutine calls it from inside the message handler   *)
(* (an unknown sender's public key), any other one when it likes.          *)
MayCall(g) == IF g = Listener THEN lpc = "handler" ELSE conn # "none"

(* Register the response channel under a fresh message id.                 *)
Call(g) ==
  /\ mu = Free
  /\ pc[g] = "idle" /\ MayCall(g)
  /\ \E id \in MsgIds, c \in IF g = Listener THEN {"authed"} ELSE Classes :
       /\ FreshId(id)
       /\ req' = [req EXCEPT ![g] = id]
       /\ class' = [class EXCEPT ![g] = c]
       /\ pending' = pending \cup {id}
  /\ pc' = [pc EXCEPT ![g] = "registered"]
  /\ outcome' = [outcome EXCEPT ![g] = "none"]
  /\ lpc' = IF g = Listener THEN "called" ELSE lpc
  /\ UNCHANGED <<conn, mu, auth, handlers, packet, netVars>>

PayloadFails(g) ==
  \/ class[g] = "oversized"
  \/ class[g] = "authed" /\ auth # {"token", "id"}

Return(g, how) ==
  /\ pc' = [pc EXCEPT ![g] = "idle"]
  /\ req' = [req EXCEPT ![g] = NoId]
  /\ outcome' = [outcome EXCEPT ![g] = how]

(* packet.payload returns an error: the pending entry stays behind.        *)
BuildFails(g) ==
  /\ pc[g] = "registered" /\ PayloadFails(g)
  /\ Return(g, "failed")
  /\ UNCHANGED <<conn, mu, pending, auth, handlers, class, lpc, packet, netVars>>

StartWrite(g) ==
  /\ mu = Free
  /\ pc[g] = "registered" /\ ~PayloadFails(g)
  /\ mu' = g
  /\ pc' = [pc EXCEPT ![g] = "writing"]
  /\ UNCHANGED <<conn, pending, auth, handlers, req, class, outcome, lpc, packet, netVars>>

(* A write to a connection whose peer is gone may still succeed.           *)
WriteDone(g) ==
  /\ pc[g] = "writing"
  /\ asked' = IF conn = "up" THEN asked \cup {req[g]} ELSE asked
  /\ mu' = Free
  /\ pc' = [pc EXCEPT ![g] = "select"]
  /\ UNCHANGED <<conn, pending, auth, handlers, req, class, outcome, lpc, packet, inbox>>

(* Mutants: the failed write jumps to no known place; the unlock is missing. *)
WriteFails_Astray(g) ==
  /\ pc[g] = "writing" /\ conn = "eof"
  /\ mu' = Free
  /\ pc' = [pc EXCEPT ![g] = "failed"]
  /\ UNCHANGED <<conn, pending, auth, handlers, req, class, outcome, lpc, packet, netVars>>

WriteFails_KeepsLock(g) ==
  /\ pc[g] = "writing" /\ conn = "eof"
  /\ pc' = [pc EXCEPT ![g] = "writeFailed"]
  /\ UNCHANGED <<conn, mu, pending, auth, handlers, req, class, outcome, lpc, packet, netVars>>

WriteFails(g) ==
  /\ pc[g] = "writing" /\ conn = "eof"
  /\ mu' = Free
  /\ pc' = [pc EXCEPT ![g] = "writeFailed"]
  /\ UNCHANGED <<conn, pending, auth, handlers, req, class, outcome, lpc, packet, netVars>>

(* The write's error path: lock again, delete the entry, return.           *)
CleanUp(g) ==
  /\ mu = Free
  /\ pc[g] = "writeFailed"
  /\ pending' = pending \ {req[g]}
  /\ Return(g, "failed")
  /\ UNCHANGED <<conn, mu, auth, handlers, class, lpc, packet, netVars>>

(* The five-second timer wins the select; the mutex is not taken yet.      *)
Timeout(g) ==
  /\ pc[g] = "select"
  /\ pc' = [pc EXCEPT ![g] = "timedOut"]
  /\ UNCHANGED <<conn, mu, pending, auth, handlers, req, class, outcome, lpc, packet, netVars>>

(* Mutants: the timeout branch drops the whole table; it does not lock.    *)
Abandon_DropsAll(g) ==
  /\ mu = Free
  /\ pc[g] = "timedOut"
  /\ pending' = {}
  /\ Return(g, "timeout")
  /\ UNCHANGED <<conn, mu, auth, handlers, class, lpc, packet, netVars>>

Abandon_Unlocked(g) ==
  /\ pc[g] = "timedOut"
  /\ pending' = pending \ {req[g]}
  /\ Return(g, "timeout")
  /\ UNCHANGED <<conn, mu, auth, handlers, class, lpc, packet, netVars>>

(* The timeout branch: lock, delete the entry, return the error.           *)
Abandon(g) ==
  /\ mu = Free
  /\ pc[g] = "timedOut"
  /\ pending' = pending \ {req[g]}
  /\ Return(g, "timeout")
  /\ UNCHANGED <<conn, mu, auth, handlers, class, lpc, packet, netVars>>

-----------------------------------------------------------------------------
(* The listener's loop.                                                    *)

(* One Read may return several packets; parsePacket sees the first one.    *)
Read ==
  /\ lpc = "read"
  /\ \E n \in 1..Len(inbox) : inbox' = SubSeq(inbox, n + 1, Len(inbox))
  /\ packet' = Head(inbox)
  /\ lpc' = "lookup"
  /\ UNCHANGED <<conn, mu, pending, auth, handlers, callVars, asked>>

(* With the mutex held: a pending request's answer is handed over without  *)
(* releasing it, a push goes to its handler after releasing it, anything   *)
(* else is dropped.                                                        *)
Lookup ==
  /\ lpc = "lookup" /\ mu = Free
  /\ \/ /\ packet.id \in pending
        /\ mu' = Listener
        /\ lpc' = "handing"
        /\ UNCHANGED packet
     \/ /\ packet.id \notin pending
        /\ packet.type = "push" /\ handlers
        /\ lpc' = "handler"
        /\ UNCHANGED <<mu, packet>>
     \/ /\ packet.id \notin pending
        /\ ~(packet.type = "push" /\ handlers)
        /\ lpc' = "read"
        /\ packet' = NoPacket
        /\ UNCHANGED mu
  /\ UNCHANGED <<conn, pending, auth, handlers, callVars, netVars>>

(* Mutant: the type of the answer is not looked at.                        *)
Deliver_Unchecked(g) ==
  /\ lpc = "handing"
  /\ pc[g] = "select" /\ req[g] = packet.id
  /\ Return(g, "answered")
  /\ pending' = pending \ {packet.id}
  /\ mu' = Free
  /\ lpc' = "read"
  /\ packet' = NoPacket
  /\ UNCHANGED <<conn, auth, handlers, class, netVars>>

(* The rendezvous on the unbuffered channel: the listener's send and the   *)
(* caller's receive are one step; then the entry goes and the mutex too.   *)
Deliver(g) ==
  /\ lpc = "handing"
  /\ pc[g] = "select" /\ req[g] = packet.id
  /\ Return(g, IF packet.type = "error" THEN "refused" ELSE "answered")
  /\ pending' = pending \ {packet.id}
  /\ mu' = Free
  /\ lpc' = "read"
  /\ packet' = NoPacket
  /\ UNCHANGED <<conn, auth, handlers, class, netVars>>

(* Mutant: the handler runs on a goroutine of its own.                     *)
HandlerReturns_Spawned ==
  /\ lpc \in {"handler", "called"}
  /\ lpc' = "read"
  /\ packet' = NoPacket
  /\ UNCHANGED <<conn, mu, pending, auth, handlers, callVars, netVars>>

HandlerReturns ==
  /\ lpc \in {"handler", "called"} /\ pc[Listener] = "idle"
  /\ lpc' = "read"
  /\ packet' = NoPacket
  /\ UNCHANGED <<conn, mu, pending, auth, handlers, callVars, netVars>>

-----------------------------------------------------------------------------
(* The server and the network, as far as the client can tell.              *)

ServerAnswers(id) ==
  /\ conn = "up" /\ id \in asked /\ Len(inbox) < MaxInbox
  /\ asked' = asked \ {id}
  /\ \E t \in {"answer", "error"} : inbox' = Append(inbox, [type |-> t, id |-> id])
  /\ UNCHANGED <<conn, mu, pending, auth, handlers, callVars, lpc, packet>>

(* The connection's server process died or lost the registry entry: the    *)
(* request gets no answer.                                                 *)
ServerForgets(id) ==
  /\ id \in asked
  /\ asked' = asked \ {id}
  /\ UNCHANGED <<conn, mu, pending, auth, handlers, callVars, lpc, packet, inbox>>

(* Another user's message: a packet with the sender's message id.          *)
ServerPush ==
  /\ conn = "up" /\ "token" \in auth /\ Len(inbox) < MaxInbox
  /\ inbox' = Append(inbox, [type |-> "push", id |-> NoId])
  /\ UNCHANGED <<conn, mu, pending, auth, handlers, callVars, lpc, packet, asked>>

(* The server closes or resets: unread packets may be lost.  The client    *)
(* never dials again, its listener keeps reading errors.                   *)
ConnLost ==
  /\ conn = "up"
  /\ conn' = "eof"
  /\ asked' = {}
  /\ inbox' \in {inbox, <<>>}
  /\ UNCHANGED <<mu, pending, auth, handlers, callVars, lpc, packet>>

-----------------------------------------------------------------------------
CallerStep(g) ==
  \/ SetAuthToken(g) \/ SetAuthID(g)
  \/ Call(g) \/ BuildFails(g) \/ StartWrite(g) \/ WriteDone(g) \/ WriteFails(g)
  \/ CleanUp(g) \/ Timeout(g) \/ Abandon(g) \/ Deliver(g)

Next ==
  \/ Connect \/ RegisterHandler
  \/ \E g \in Goroutines : CallerStep(g)
  \/ Read \/ Lookup \/ HandlerReturns
  \/ \E id \in MsgIds : ServerAnswers(id) \/ ServerForgets(id)
  \/ ServerPush \/ ConnLost

(* Local steps of a running goroutine are weakly fair.  Taking the mutex   *)
(* is strongly fair: sync.Mutex hands itself to a waiter starved for 1 ms. *)
(* Nothing is assumed of the server, nor that callers ever call.           *)
Fairness ==
  /\ \A g \in Goroutines :
       /\ WF_vars(BuildFails(g)) /\ WF_vars(WriteDone(g) \/ WriteFails(g)) /\ WF_vars(Timeout(g))
       /\ SF_vars(StartWrite(g)) /\ SF_vars(CleanUp(g)) /\ SF_vars(Abandon(g))
       /\ WF_vars(Deliver(g))
  /\ WF_vars(Read) /\ SF_vars(Lookup) /\ WF_vars(HandlerReturns)

Spec == Init /\ [][Next]_vars
FairSpec == Spec /\ Fairness

-----------------------------------------------------------------------------
(* Properties.                                                             *)

(* The listener is handing an answer to a caller whose timer has fired:    *)
(* the caller waits for the mutex, the listener for the caller.            *)
Jammed == lpc = "handing" /\ \E g \in Goroutines : pc[g] = "timedOut" /\ req[g] = packet.id

(* A goroutine that waits for its answer, or is on its way there, finds    *)
(* its channel in the table until the listener takes it out to answer it:  *)
(* no other goroutine's clean-up, and no late answer, removes the entry.   *)
WaitersAreRegistered ==
  \A g \in Goroutines : pc[g] \in {"registered", "writing", "select"} => req[g] \in pending

(* When the listener blocks on a channel there is a caller that owns it    *)
(* and has sent its request, so that only that caller's timer can wedge    *)
(* the listener.  The entries that a failed payload leaves behind, and     *)
(* callers that have not written yet, are never handed anything.           *)
HandOverHasReceiver ==
  lpc = "handing" => \E g \in Callers : pc[g] \in {"select", "timedOut"} /\ req[g] = packet.id

(* A request made from inside the message handler runs on the listener's   *)
(* own goroutine, so its answer is never read while it waits: it always    *)
(* ends in an error or in the timeout, after which the answer is dropped.  *)
HandlerRequestNeverAnswered == outcome[Listener] \notin {"answered", "refused"}

(* A listener that hands over to a caller past its timer never gets out,   *)
(* nor does anybody else who needs the mutex: no step of any goroutine,    *)
(* of the server or of the network ends it.                                *)
JamIsPermanent == [][Jammed => Jammed']_vars

(* Every SendReceive returns, answered or not, unless the late-answer jam  *)
(* has struck; a lost connection, a silent server and a write error all    *)
(* end in a return.                                                        *)
CallsReturnUnlessJammed ==
  \A g \in Goroutines : pc[g] # "idle" ~> (pc[g] = "idle" \/ Jammed)

(* What the timeout branch says it does: a request that is not answered    *)
(* within five seconds returns "timeout waiting for response".             *)
TimedOutCallsReturn == \A g \in Callers : pc[g] = "timedOut" ~> pc[g] = "idle"

-----------------------------------------------------------------------------
(* The promise to the callers.                                             *)

Phase(g) ==
  IF pc[g] = "idle" THEN "idle"
  ELSE IF pc[g] \in {"select", "timedOut"} THEN "sent" ELSE "calling"

(* Where the reply to g's request is: still to come, on its way or lost.   *)
Travelling(id) == {inbox[i] : i \in {j \in 1..Len(inbox) : inbox[j].id = id}}
                    \cup (IF packet.id = id THEN {packet} ELSE {})
Reply(g) ==
  IF Phase(g) # "sent" \/ req[g] \in asked THEN "none"
  ELSE IF Travelling(req[g]) = {} THEN "lost"
  ELSE (CHOOSE p \in Travelling(req[g]) : TRUE).type

Promise == INSTANCE RequestReply WITH
  phase <- [g \in Goroutines |-> Phase(g)],
  reply <- [g \in Goroutines |-> Reply(g)]

(* A call returns an answer only as the reply to the request it wrote      *)
(* itself, at most once, whatever is pending, late, dropped or leaked:     *)
(* SendReceive implements RequestReply.                                    *)
ImplementsRequestReply == Promise!Spec
=============================================================================
