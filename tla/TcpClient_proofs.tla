--------------------------- MODULE TcpClient_proofs ---------------------------
(***************************************************************************)
(* Proofs of the safety properties of TcpClient, for any number of caller  *)
(* goroutines and message ids, and of its implementation of RequestReply.  *)
(***************************************************************************)
EXTENDS TcpClient, SequenceTheorems, TLAPS

-----------------------------------------------------------------------------
(* The inductive invariant.                                                *)

Idle(g) == pc[g] = "idle"
Waiting(g) == pc[g] \in {"select", "timedOut"}

(* Exactly the idle goroutines carry no request, and no two carry the same. *)
RequestsAreDistinct ==
  /\ \A g \in Goroutines : Idle(g) <=> req[g] = NoId
  /\ \A g, h \in Goroutines : req[g] = req[h] /\ ~Idle(g) => g = h

(* Who holds the mutex, and when the listener's goroutine is in a call.    *)
MutexIsOwned ==
  /\ \A g \in Goroutines : pc[g] = "writing" => mu = g
  /\ lpc = "handing" => mu = Listener
  /\ ~Idle(Listener) => lpc = "called"

(* What travels was written by a caller that still waits, or is of no more *)
(* interest to the table; only such ids are handed over.                   *)
FlightIsWaitedFor ==
  /\ \A g \in Goroutines : req[g] \in InFlight /\ ~Idle(g) => Waiting(g)
  /\ \A id \in InFlight \cap pending : \E g \in Goroutines : req[g] = id

PacketMatchesListener ==
  /\ conn = "none" => lpc = "off"
  /\ lpc \in {"off", "read", "handler", "called"} => packet.id = NoId
  /\ lpc = "handing" => packet.id \in pending

IInv ==
  /\ TypeOK
  /\ RequestsAreDistinct
  /\ MutexIsOwned
  /\ WaitersAreRegistered
  /\ FlightIsWaitedFor
  /\ PacketMatchesListener
  /\ HandlerRequestNeverAnswered

-----------------------------------------------------------------------------
(* The receive buffer.                                                     *)

(* A read takes away ids and adds none, and what it keeps is well formed.  *)
LEMMA ReadShrinksInbox ==
  ASSUME NEW s \in Seq(Packet), NEW n \in 1..Len(s)
  PROVE  /\ SubSeq(s, n + 1, Len(s)) \in Seq(Packet)
         /\ Head(s) \in Packet
         /\ Head(s).id \in {s[i].id : i \in 1..Len(s)}
         /\ {SubSeq(s, n + 1, Len(s))[i].id : i \in 1..Len(SubSeq(s, n + 1, Len(s)))}
              \subseteq {s[i].id : i \in 1..Len(s)}
<1>1. Head(s) = s[1] /\ 1 \in 1..Len(s)
  OBVIOUS
<1>2. /\ Len(SubSeq(s, n + 1, Len(s))) = Len(s) - n
      /\ \A i \in 1..(Len(s) - n) : SubSeq(s, n + 1, Len(s))[i] = s[n + i] /\ n + i \in 1..Len(s)
  OBVIOUS
<1>3. SubSeq(s, n + 1, Len(s)) \in Seq(Packet)
  OBVIOUS
<1> QED
  BY <1>1, <1>2, <1>3

(* An arriving packet adds its own id.                                     *)
LEMMA ArrivalExtendsInbox ==
  ASSUME NEW s \in Seq(Packet), NEW p \in Packet
  PROVE  /\ Append(s, p) \in Seq(Packet)
         /\ {Append(s, p)[i].id : i \in 1..Len(Append(s, p))}
              \subseteq {s[i].id : i \in 1..Len(s)} \cup {p.id}
<1>1. /\ Len(Append(s, p)) = Len(s) + 1
      /\ \A i \in 1..Len(s) : Append(s, p)[i] = s[i]
      /\ Append(s, p)[Len(s) + 1] = p
  OBVIOUS
<1> QED
  BY <1>1

LEMMA PacketFields ==
  /\ \A p \in Packet \cup {NoPacket} : p.id \in MsgIds \cup {NoId}
  /\ \A p \in Packet : p.type \in {"answer", "error", "push"} /\ (p.type = "push" => p.id = NoId)
  /\ [type |-> "push", id |-> NoId] \in Packet
  /\ \A t \in {"answer", "error"}, id \in MsgIds : [type |-> t, id |-> id] \in Packet
BY DEF Packet, NoPacket

-----------------------------------------------------------------------------
(* The invariant.                                                          *)

LEMMA InitIInv == Init => IInv
<1> SUFFICES ASSUME Init PROVE IInv
  OBVIOUS
<1> USE DEF Init
<1>1. <<>> \in Seq(Packet)
  OBVIOUS
<1>2. TypeOK
  BY <1>1 DEF TypeOK, Classes, Goroutines
<1>3. InFlight = {NoId}
  BY DEF InFlight, InboxIds, NoPacket
<1> QED
  BY <1>2, <1>3, IdAssumption
  DEF IInv, RequestsAreDistinct, MutexIsOwned, WaitersAreRegistered, FlightIsWaitedFor,
      PacketMatchesListener, HandlerRequestNeverAnswered, Idle, Waiting, Goroutines, NoPacket

(* The ids that travel depend on three variables only.                     *)
LEMMA FlightDepends == UNCHANGED <<inbox, asked, packet>> => UNCHANGED InFlight
BY DEF InFlight, InboxIds

(* The steps that touch neither requests nor what travels.                 *)
LEMMA SetUpIInv ==
  ASSUME IInv,
         Connect \/ RegisterHandler \/ \E g \in Goroutines : SetAuthToken(g) \/ SetAuthID(g)
  PROVE  IInv'
<1>1. UNCHANGED <<mu, pending, pc, req, class, outcome, packet, inbox, asked, InFlight>>
  BY FlightDepends DEF Connect, RegisterHandler, SetAuthToken, SetAuthID, callVars, netVars
<1>2. UNCHANGED <<lpc, conn>> \/ (lpc' = "read" /\ lpc = "off" /\ conn' = "up")
  BY DEF Connect, RegisterHandler, SetAuthToken, SetAuthID, IInv, PacketMatchesListener, TypeOK
<1>3. TypeOK'
  BY <1>1, <1>2 DEF Connect, RegisterHandler, SetAuthToken, SetAuthID, IInv, TypeOK
<1> QED
  BY <1>1, <1>2, <1>3
  DEF IInv, RequestsAreDistinct, MutexIsOwned, WaitersAreRegistered, FlightIsWaitedFor,
      PacketMatchesListener, HandlerRequestNeverAnswered, Idle, Waiting

LEMMA CallIInv ==
  ASSUME IInv, NEW g \in Goroutines, Call(g)
  PROVE  IInv'
<1>1. PICK id \in MsgIds :
        /\ FreshId(id)
        /\ req' = [req EXCEPT ![g] = id]
        /\ pending' = pending \cup {id}
  BY DEF Call
<1>2. UNCHANGED <<conn, mu, packet, inbox, asked, InFlight>>
  BY FlightDepends DEF Call, netVars
<1>3. TypeOK'
  BY <1>1, <1>2 DEF Call, IInv, TypeOK, Classes
<1>4. /\ id \notin InFlight /\ id \notin pending /\ id # NoId
      /\ \A h \in Goroutines : req[h] # id
  BY <1>1, IdAssumption DEF FreshId
<1>5. /\ pc' = [pc EXCEPT ![g] = "registered"] /\ pc[g] = "idle"
      /\ outcome' = [outcome EXCEPT ![g] = "none"]
      /\ g # Listener => conn # "none" /\ lpc' = lpc
      /\ g = Listener => lpc = "handler" /\ lpc' = "called"
  BY DEF Call, MayCall
<1>6. RequestsAreDistinct'
  BY <1>1, <1>4, <1>5 DEF IInv, TypeOK, RequestsAreDistinct, Idle
<1>7. MutexIsOwned' /\ HandlerRequestNeverAnswered'
  BY <1>2, <1>5, Listener \in Goroutines
  DEF IInv, TypeOK, MutexIsOwned, HandlerRequestNeverAnswered, Idle, Goroutines
<1>8. WaitersAreRegistered'
  BY <1>1, <1>5 DEF IInv, TypeOK, WaitersAreRegistered
<1>9. FlightIsWaitedFor'
  BY <1>1, <1>2, <1>4, <1>5, IdAssumption DEF IInv, TypeOK, FlightIsWaitedFor, RequestsAreDistinct, Idle, Waiting
<1>10. PacketMatchesListener'
  BY <1>1, <1>2, <1>5 DEF IInv, TypeOK, PacketMatchesListener
<1> QED
  BY <1>3, <1>6, <1>7, <1>8, <1>9, <1>10 DEF IInv

(* The three ways to return without an answer.                             *)
LEMMA ReturnIInv ==
  ASSUME IInv, NEW g \in Goroutines, BuildFails(g) \/ CleanUp(g) \/ Abandon(g)
  PROVE  IInv'
<1>1. /\ UNCHANGED <<conn, mu, lpc, packet, inbox, asked, InFlight>>
      /\ class' = class /\ auth' = auth /\ handlers' = handlers
  BY FlightDepends DEF BuildFails, CleanUp, Abandon, netVars
<1>2. /\ pc[g] \in {"registered", "writeFailed", "timedOut"}
      /\ pc' = [pc EXCEPT ![g] = "idle"]
      /\ req' = [req EXCEPT ![g] = NoId]
      /\ \E how \in {"failed", "timeout"} : outcome' = [outcome EXCEPT ![g] = how]
  BY DEF BuildFails, CleanUp, Abandon, Return
<1>3. \/ pending' = pending /\ pc[g] = "registered"
      \/ pending' = pending \ {req[g]} /\ mu = Free
  BY DEF BuildFails, CleanUp, Abandon
<1>4. TypeOK'
  BY <1>1, <1>2, <1>3 DEF IInv, TypeOK
<1>5. RequestsAreDistinct'
  BY <1>2 DEF IInv, TypeOK, RequestsAreDistinct, Idle
<1>6. MutexIsOwned' /\ HandlerRequestNeverAnswered'
  BY <1>1, <1>2 DEF IInv, TypeOK, MutexIsOwned, HandlerRequestNeverAnswered, Idle, Goroutines
<1>7. WaitersAreRegistered'
  BY <1>2, <1>3 DEF IInv, TypeOK, WaitersAreRegistered, RequestsAreDistinct, Idle
<1>8. FlightIsWaitedFor'
  BY <1>1, <1>2, <1>3 DEF IInv, TypeOK, FlightIsWaitedFor, RequestsAreDistinct, Idle, Waiting
<1>9. PacketMatchesListener'
  BY <1>1, <1>2, <1>3, FreeAssumption
  DEF IInv, TypeOK, PacketMatchesListener, MutexIsOwned, Goroutines
<1> QED
  BY <1>4, <1>5, <1>6, <1>7, <1>8, <1>9 DEF IInv

(* The steps of a call that change neither the table nor the request.      *)
LEMMA WriteIInv ==
  ASSUME IInv, NEW g \in Goroutines, StartWrite(g) \/ WriteDone(g) \/ WriteFails(g) \/ Timeout(g)
  PROVE  IInv'
<1>1. /\ UNCHANGED <<conn, pending, auth, handlers, req, class, outcome, lpc, packet, inbox>>
      /\ InFlight \subseteq InFlight'
      /\ \/ InFlight' \subseteq InFlight
         \/ InFlight' \subseteq InFlight \cup {req[g]} /\ pc'[g] = "select"
  <2>1. CASE WriteDone(g)
    BY <2>1 DEF WriteDone, InFlight, InboxIds, IInv, TypeOK
  <2>2. CASE StartWrite(g) \/ WriteFails(g) \/ Timeout(g)
    BY <2>2, FlightDepends DEF StartWrite, WriteFails, Timeout, netVars
  <2> QED
    BY <2>1, <2>2
<1>2. \/ mu = Free /\ mu' = g /\ pc[g] = "registered" /\ pc' = [pc EXCEPT ![g] = "writing"] /\ UNCHANGED asked
      \/ mu' = Free /\ pc[g] = "writing" /\ pc' = [pc EXCEPT ![g] = "select"]
           /\ (asked' = asked \/ asked' = asked \cup {req[g]})
      \/ mu' = Free /\ pc[g] = "writing" /\ pc' = [pc EXCEPT ![g] = "writeFailed"] /\ UNCHANGED asked
      \/ mu' = mu /\ pc[g] = "select" /\ pc' = [pc EXCEPT ![g] = "timedOut"] /\ UNCHANGED asked
  BY DEF StartWrite, WriteDone, WriteFails, Timeout, netVars
<1>3. RequestsAreDistinct /\ req[g] \in MsgIds
  BY <1>2 DEF IInv, TypeOK, RequestsAreDistinct, Idle
<1>4. TypeOK'
  BY <1>1, <1>2, <1>3 DEF IInv, TypeOK
<1>5. RequestsAreDistinct'
  BY <1>1, <1>2 DEF IInv, TypeOK, RequestsAreDistinct, Idle
<1>6. MutexIsOwned'
  BY <1>1, <1>2, FreeAssumption DEF IInv, TypeOK, MutexIsOwned, Idle, Goroutines
<1>7. WaitersAreRegistered'
  BY <1>1, <1>2 DEF IInv, TypeOK, WaitersAreRegistered
<1>8. FlightIsWaitedFor'
  <2>1. \A h \in Goroutines : req'[h] \in InFlight' /\ ~Idle(h)' => Waiting(h)'
    BY <1>1, <1>2, <1>3 DEF IInv, TypeOK, FlightIsWaitedFor, RequestsAreDistinct, Idle, Waiting
  <2>2. \A id \in InFlight' \cap pending' : \E h \in Goroutines : req'[h] = id
    BY <1>1 DEF IInv, FlightIsWaitedFor
  <2> QED
    BY <2>1, <2>2 DEF FlightIsWaitedFor
<1>9. PacketMatchesListener' /\ HandlerRequestNeverAnswered'
  BY <1>1 DEF IInv, PacketMatchesListener, HandlerRequestNeverAnswered
<1> QED
  BY <1>4, <1>5, <1>6, <1>7, <1>8, <1>9 DEF IInv

LEMMA ReadIInv ==
  ASSUME IInv, Read
  PROVE  IInv'
<1>1. PICK n \in 1..Len(inbox) : inbox' = SubSeq(inbox, n + 1, Len(inbox))
  BY DEF Read
<1>2. /\ inbox' \in Seq(Packet) /\ packet' \in Packet /\ packet'.id \in InboxIds
      /\ InboxIds' \subseteq InboxIds
  <2>1. inbox \in Seq(Packet)
    BY DEF IInv, TypeOK
  <2>2. /\ SubSeq(inbox, n + 1, Len(inbox)) \in Seq(Packet)
        /\ Head(inbox) \in Packet
        /\ Head(inbox).id \in {inbox[i].id : i \in 1..Len(inbox)}
        /\ {SubSeq(inbox, n + 1, Len(inbox))[i].id : i \in 1..Len(SubSeq(inbox, n + 1, Len(inbox)))}
             \subseteq {inbox[i].id : i \in 1..Len(inbox)}
    BY <2>1, ReadShrinksInbox
  <2>3. packet' = Head(inbox)
    BY DEF Read
  <2> QED
    BY <1>1, <2>2, <2>3 DEF InboxIds
<1>3. InFlight' \subseteq InFlight
  BY <1>2 DEF InFlight, Read
<1>4. /\ UNCHANGED <<conn, mu, pending, auth, handlers, pc, req, class, outcome, asked>>
      /\ lpc = "read" /\ lpc' = "lookup"
  BY DEF Read, callVars
<1> QED
  BY <1>2, <1>3, <1>4
  DEF IInv, TypeOK, RequestsAreDistinct, MutexIsOwned, WaitersAreRegistered, FlightIsWaitedFor,
      PacketMatchesListener, HandlerRequestNeverAnswered, Idle, Waiting

(* Forgetting packets and requests disturbs nothing.                       *)
LEMMA FlightShrinks ==
  ASSUME IInv, UNCHANGED <<mu, pending, pc, req, outcome>>, InFlight' \subseteq InFlight
  PROVE  (RequestsAreDistinct /\ WaitersAreRegistered /\ FlightIsWaitedFor /\ HandlerRequestNeverAnswered)'
BY DEF IInv, RequestsAreDistinct, WaitersAreRegistered, FlightIsWaitedFor,
       HandlerRequestNeverAnswered, Idle, Waiting

LEMMA LookupIInv ==
  ASSUME IInv, Lookup
  PROVE  IInv'
<1>1. /\ UNCHANGED <<conn, pending, auth, handlers, pc, req, class, outcome, inbox, asked>>
      /\ lpc = "lookup" /\ mu = Free
      /\ \/ packet.id \in pending /\ mu' = Listener /\ lpc' = "handing" /\ packet' = packet
         \/ mu' = mu /\ packet.type = "push" /\ lpc' = "handler" /\ packet' = packet
         \/ mu' = mu /\ lpc' = "read" /\ packet' = NoPacket
  BY DEF Lookup, callVars, netVars
<1>2. TypeOK'
  BY <1>1 DEF IInv, TypeOK, Goroutines
<1>3. MutexIsOwned'
  BY <1>1, FreeAssumption DEF IInv, TypeOK, MutexIsOwned, Idle, Goroutines
<1>4. PacketMatchesListener'
  BY <1>1, PacketFields DEF IInv, TypeOK, PacketMatchesListener, NoPacket
<1>5. (RequestsAreDistinct /\ WaitersAreRegistered /\ HandlerRequestNeverAnswered)'
  BY <1>1 DEF IInv, RequestsAreDistinct, WaitersAreRegistered, HandlerRequestNeverAnswered, Idle
<1>6. FlightIsWaitedFor'
  <2>1. InFlight' \subseteq InFlight \cup {NoId}
    BY <1>1 DEF InFlight, InboxIds, NoPacket
  <2> QED
    BY <1>1, <2>1, IdAssumption
    DEF IInv, TypeOK, FlightIsWaitedFor, RequestsAreDistinct, Idle, Waiting
<1> QED
  BY <1>2, <1>3, <1>4, <1>5, <1>6 DEF IInv

(* Whoever receives is a caller: the listener is never in a call while it  *)
(* hands an answer over.                                                   *)
LEMMA DeliverIInv ==
  ASSUME IInv, NEW g \in Goroutines, Deliver(g)
  PROVE  IInv'
<1>1. /\ UNCHANGED <<conn, auth, handlers, class, inbox, asked>>
      /\ lpc = "handing" /\ lpc' = "read" /\ mu' = Free /\ packet' = NoPacket
      /\ pc[g] = "select" /\ req[g] = packet.id
      /\ pending' = pending \ {packet.id}
      /\ pc' = [pc EXCEPT ![g] = "idle"] /\ req' = [req EXCEPT ![g] = NoId]
      /\ \E how \in {"answered", "refused"} : outcome' = [outcome EXCEPT ![g] = how]
  BY DEF Deliver, Return, netVars
<1>2. /\ mu = Listener /\ g # Listener /\ pc[Listener] = "idle"
      /\ \A h \in Goroutines : pc[h] = "writing" => h = Listener
  BY <1>1 DEF IInv, MutexIsOwned, Idle, Goroutines
<1>3. TypeOK'
  BY <1>1 DEF IInv, TypeOK
<1>4. RequestsAreDistinct'
  BY <1>1 DEF IInv, TypeOK, RequestsAreDistinct, Idle
<1>5. MutexIsOwned' /\ HandlerRequestNeverAnswered'
  BY <1>1, <1>2 DEF IInv, TypeOK, MutexIsOwned, HandlerRequestNeverAnswered, Idle, Goroutines
<1>6. WaitersAreRegistered'
  BY <1>1 DEF IInv, TypeOK, WaitersAreRegistered, RequestsAreDistinct, Idle
<1>7. FlightIsWaitedFor'
  <2>1. InFlight' \subseteq InFlight \cup {NoId}
    BY <1>1 DEF InFlight, InboxIds, NoPacket
  <2> QED
    BY <1>1, <2>1, IdAssumption
    DEF IInv, TypeOK, FlightIsWaitedFor, RequestsAreDistinct, Idle, Waiting
<1>8. PacketMatchesListener'
  BY <1>1 DEF IInv, PacketMatchesListener, NoPacket
<1> QED
  BY <1>3, <1>4, <1>5, <1>6, <1>7, <1>8 DEF IInv

LEMMA HandlerReturnsIInv ==
  ASSUME IInv, HandlerReturns
  PROVE  IInv'
<1>1. /\ UNCHANGED <<conn, mu, pending, auth, handlers, pc, req, class, outcome, inbox, asked>>
      /\ lpc \in {"handler", "called"} /\ pc[Listener] = "idle"
      /\ lpc' = "read" /\ packet' = NoPacket
  BY DEF HandlerReturns, callVars, netVars
<1>2. InFlight' \subseteq InFlight
  BY <1>1 DEF InFlight, InboxIds, NoPacket, IInv, PacketMatchesListener
<1>3. TypeOK' /\ MutexIsOwned' /\ PacketMatchesListener'
  BY <1>1 DEF IInv, TypeOK, MutexIsOwned, PacketMatchesListener, Idle, NoPacket
<1> QED
  BY <1>1, <1>2, <1>3, FlightShrinks DEF IInv

LEMMA ServerIInv ==
  ASSUME IInv,
         \/ \E id \in MsgIds : ServerAnswers(id) \/ ServerForgets(id)
         \/ ServerPush \/ ConnLost
  PROVE  IInv'
<1>1. /\ UNCHANGED <<mu, pending, auth, handlers, pc, req, class, outcome, lpc, packet>>
      /\ conn' = "none" => conn = "none"
  BY DEF ServerAnswers, ServerForgets, ServerPush, ConnLost, callVars
<1>2. InFlight' \subseteq InFlight \cup {NoId} /\ inbox' \in Seq(Packet) /\ asked' \subseteq asked
  <2>1. ASSUME NEW id \in MsgIds, ServerAnswers(id)
        PROVE  /\ InFlight' \subseteq InFlight /\ inbox' \in Seq(Packet) /\ asked' \subseteq asked
    <3>1. PICK t \in {"answer", "error"} : inbox' = Append(inbox, [type |-> t, id |-> id])
      BY <2>1 DEF ServerAnswers
    <3>2. [type |-> t, id |-> id] \in Packet /\ [type |-> t, id |-> id].id = id
      BY PacketFields
    <3>3. inbox' \in Seq(Packet) /\ InboxIds' \subseteq InboxIds \cup {id}
      BY <3>1, <3>2, ArrivalExtendsInbox DEF InboxIds, IInv, TypeOK
    <3> QED
      BY <2>1, <3>3 DEF ServerAnswers, InFlight
  <2>2. ASSUME NEW id \in MsgIds, ServerForgets(id)
        PROVE  /\ InFlight' \subseteq InFlight /\ inbox' \in Seq(Packet) /\ asked' \subseteq asked
    BY <2>2 DEF ServerForgets, InFlight, InboxIds, IInv, TypeOK
  <2>3. ASSUME ServerPush
        PROVE  InFlight' \subseteq InFlight \cup {NoId} /\ inbox' \in Seq(Packet) /\ asked' \subseteq asked
    <3>1. [type |-> "push", id |-> NoId] \in Packet /\ [type |-> "push", id |-> NoId].id = NoId
      BY PacketFields
    <3>2. inbox' \in Seq(Packet) /\ InboxIds' \subseteq InboxIds \cup {NoId}
      BY <2>3, <3>1, ArrivalExtendsInbox DEF ServerPush, InboxIds, IInv, TypeOK
    <3> QED
      BY <2>3, <3>2 DEF ServerPush, InFlight
  <2>4. ASSUME ConnLost
        PROVE  InFlight' \subseteq InFlight /\ inbox' \in Seq(Packet) /\ asked' \subseteq asked
    <3>1. CASE inbox' = inbox
      BY <2>4, <3>1 DEF ConnLost, InFlight, InboxIds, IInv, TypeOK
    <3>2. CASE inbox' = <<>>
      <4>1. inbox' \in Seq(Packet) /\ InboxIds' = {}
        BY <3>2 DEF InboxIds
      <4> QED
        BY <2>4, <4>1 DEF ConnLost, InFlight
    <3> QED
      BY <2>4, <3>1, <3>2 DEF ConnLost
  <2> QED
    BY <2>1, <2>2, <2>3, <2>4
<1>3. TypeOK' /\ MutexIsOwned' /\ PacketMatchesListener'
  <2>1. conn' \in {"none", "up", "eof"}
    BY DEF ServerAnswers, ServerForgets, ServerPush, ConnLost, IInv, TypeOK
  <2> QED
    BY <1>1, <1>2, <2>1 DEF IInv, TypeOK, MutexIsOwned, PacketMatchesListener, Idle
<1>4. (RequestsAreDistinct /\ WaitersAreRegistered /\ HandlerRequestNeverAnswered)'
  BY <1>1 DEF IInv, RequestsAreDistinct, WaitersAreRegistered, HandlerRequestNeverAnswered, Idle
<1>5. FlightIsWaitedFor'
  BY <1>1, <1>2, IdAssumption DEF IInv, TypeOK, FlightIsWaitedFor, RequestsAreDistinct, Idle, Waiting
<1> QED
  BY <1>3, <1>4, <1>5 DEF IInv

LEMMA StutterIInv ==
  ASSUME IInv, UNCHANGED vars
  PROVE  IInv'
<1>1. UNCHANGED InFlight
  BY FlightDepends DEF vars, netVars
<1> QED
  BY <1>1
  DEF vars, callVars, netVars, IInv, TypeOK, RequestsAreDistinct, MutexIsOwned, WaitersAreRegistered,
      FlightIsWaitedFor, PacketMatchesListener, HandlerRequestNeverAnswered, Idle, Waiting

LEMMA NextIInv == IInv /\ [Next]_vars => IInv'
<1> SUFFICES ASSUME IInv, [Next]_vars PROVE IInv'
  OBVIOUS
<1>1. CASE Connect \/ RegisterHandler
  BY <1>1, SetUpIInv
<1>2. ASSUME NEW g \in Goroutines, CallerStep(g) PROVE IInv'
  BY <1>2, SetUpIInv, CallIInv, ReturnIInv, WriteIInv, DeliverIInv DEF CallerStep
<1>3. CASE Read \/ Lookup \/ HandlerReturns
  BY <1>3, ReadIInv, LookupIInv, HandlerReturnsIInv
<1>4. CASE (\E id \in MsgIds : ServerAnswers(id) \/ ServerForgets(id)) \/ ServerPush \/ ConnLost
  BY <1>4, ServerIInv
<1>5. CASE UNCHANGED vars
  BY <1>5, StutterIInv
<1> QED
  BY <1>1, <1>2, <1>3, <1>4, <1>5 DEF Next

LEMMA Invariance == Spec => []IInv
BY InitIInv, NextIInv, PTL DEF Spec

-----------------------------------------------------------------------------
(* The theorems.                                                           *)

(* Every variable keeps its type.                                          *)
THEOREM TypeCorrect == Spec => []TypeOK
<1>1. IInv => TypeOK
  BY DEF IInv
<1> QED
  BY <1>1, Invariance, PTL

(* A waiting caller's response channel stays in the table.                 *)
THEOREM WaitersStayRegistered == Spec => []WaitersAreRegistered
<1>1. IInv => WaitersAreRegistered
  BY DEF IInv
<1> QED
  BY <1>1, Invariance, PTL

(* The listener blocks only on a caller that has sent its request.         *)
THEOREM HandOverIsOwned == Spec => []HandOverHasReceiver
<1>1. ASSUME IInv PROVE HandOverHasReceiver
  <2> SUFFICES ASSUME lpc = "handing"
               PROVE  \E g \in Callers : pc[g] \in {"select", "timedOut"} /\ req[g] = packet.id
    BY DEF HandOverHasReceiver
  <2>1. packet.id \in pending /\ packet.id \in InFlight
    BY <1>1 DEF IInv, PacketMatchesListener, InFlight
  <2>2. PICK g \in Goroutines : req[g] = packet.id
    BY <1>1, <2>1 DEF IInv, FlightIsWaitedFor
  <2>3. ~Idle(g)
    BY <1>1, <2>1, <2>2, IdAssumption DEF IInv, TypeOK, RequestsAreDistinct
  <2>4. Waiting(g) /\ g # Listener
    BY <1>1, <2>1, <2>2, <2>3 DEF IInv, FlightIsWaitedFor, MutexIsOwned
  <2> QED
    BY <2>2, <2>4 DEF Waiting, Goroutines
<1> QED
  BY <1>1, Invariance, PTL

(* A request made inside the message handler is never answered.            *)
THEOREM HandlerRequestsTimeOut == Spec => []HandlerRequestNeverAnswered
<1>1. IInv => HandlerRequestNeverAnswered
  BY DEF IInv
<1> QED
  BY <1>1, Invariance, PTL

(* The late-answer jam is for ever: the caller past its timer needs the    *)
(* mutex to move, the listener needs the caller, and nobody else can take  *)
(* the mutex from the listener or the packet from its hands.               *)
THEOREM JamsArePermanent == Spec => JamIsPermanent
<1>1. ASSUME IInv, Jammed, [Next]_vars PROVE Jammed'
  <2>1. PICK g \in Goroutines : lpc = "handing" /\ pc[g] = "timedOut" /\ req[g] = packet.id
    BY <1>1 DEF Jammed
  <2>2. /\ mu = Listener /\ mu # Free /\ pc[Listener] = "idle"
        /\ \A h \in Goroutines : pc[h] # "writing"
    BY <1>1, <2>1, FreeAssumption DEF IInv, MutexIsOwned, Idle, Goroutines
  <2>3. conn # "none" /\ packet.id # NoId
    BY <1>1, <2>1, IdAssumption DEF IInv, TypeOK, PacketMatchesListener
  <2>4. \A h \in Goroutines : req[h] = packet.id => h = g
    BY <1>1, <2>1 DEF IInv, RequestsAreDistinct, Idle
  <2>5. ASSUME NEW h \in Goroutines, CallerStep(h) PROVE Jammed'
    <3>1. BuildFails(h) \/ Timeout(h)
      BY <2>1, <2>2, <2>4, <2>5
      DEF CallerStep, SetAuthToken, SetAuthID, Call, StartWrite, WriteDone, WriteFails, CleanUp,
          Abandon, Deliver
    <3>2. h # g /\ lpc' = lpc /\ packet' = packet /\ pc'[g] = pc[g] /\ req'[g] = req[g]
      BY <1>1, <2>1, <3>1 DEF BuildFails, Timeout, Return, IInv, TypeOK
    <3> QED
      BY <2>1, <3>2 DEF Jammed
  <2>6. CASE Connect \/ RegisterHandler \/ Read \/ Lookup \/ HandlerReturns
    BY <2>1, <2>2, <2>3, <2>6 DEF Connect, RegisterHandler, Read, Lookup, HandlerReturns
  <2>7. CASE (\E id \in MsgIds : ServerAnswers(id) \/ ServerForgets(id)) \/ ServerPush \/ ConnLost
    BY <2>1, <2>7 DEF ServerAnswers, ServerForgets, ServerPush, ConnLost, callVars, Jammed
  <2>8. CASE UNCHANGED vars
    BY <2>1, <2>8 DEF vars, callVars, Jammed
  <2> QED
    BY <1>1, <2>5, <2>6, <2>7, <2>8 DEF Next
<1>2. IInv /\ [Next]_vars => [Jammed => Jammed']_vars
  BY <1>1
<1> QED
  BY <1>2, Invariance, PTL DEF Spec, JamIsPermanent

-----------------------------------------------------------------------------
(* SendReceive keeps its promise: every step of TcpClient is a step of      *)
(* RequestReply or changes nothing that RequestReply can see.  It rests on  *)
(* IInv and on the fact that a request or its reply is in one place at a    *)
(* time.                                                                    *)

(* A message id is with the server, in the receive buffer or in the          *)
(* listener's hands, and there is one packet of it at most.                *)

OnceInBuffer(s) == \A i, j \in 1..Len(s) : s[i].id = s[j].id /\ s[i].id # NoId => i = j
TravelsOnce ==
  /\ OnceInBuffer(inbox)
  /\ InboxIds \cap asked = {}
  /\ packet.id # NoId => packet.id \notin asked \cup InboxIds

LEMMA ReadOnce ==
  ASSUME NEW s \in Seq(Packet), NEW n \in 1..Len(s), OnceInBuffer(s)
  PROVE  LET t == SubSeq(s, n + 1, Len(s)) IN
         /\ OnceInBuffer(t)
         /\ {t[i] : i \in 1..Len(t)} \subseteq {s[i] : i \in 1..Len(s)}
         /\ Head(s) \in {s[i] : i \in 1..Len(s)}
         /\ Head(s).id # NoId => \A i \in 1..Len(t) : t[i].id # Head(s).id
<1> DEFINE t == SubSeq(s, n + 1, Len(s))
<1>1. Head(s) = s[1] /\ 1 \in 1..Len(s) /\ Len(s) \in Nat /\ n \in Nat
  OBVIOUS
<1>2. Len(t) = Len(s) - n /\ \A i \in 1..Len(t) : t[i] = s[n + i] /\ n + i \in 1..Len(s) /\ n + i # 1
  OBVIOUS
<1> HIDE DEF t
<1>3. OnceInBuffer(t)
  <2> SUFFICES ASSUME NEW i \in 1..Len(t), NEW j \in 1..Len(t), t[i].id = t[j].id, t[i].id # NoId PROVE i = j
    BY DEF OnceInBuffer
  <2>1. n + i = n + j
    <3>1. s[n + i].id = s[n + j].id /\ s[n + i].id # NoId /\ n + i \in 1..Len(s) /\ n + j \in 1..Len(s)
      BY <1>2
    <3> QED
      BY <3>1 DEF OnceInBuffer
  <2> QED
    BY <1>1, <1>2, <2>1
<1>4. Head(s).id # NoId => \A i \in 1..Len(t) : t[i].id # Head(s).id
  BY <1>1, <1>2 DEF OnceInBuffer
<1> QED
  BY <1>1, <1>2, <1>3, <1>4 DEF t

LEMMA ArrivesOnce ==
  ASSUME NEW s \in Seq(Packet), NEW p \in Packet, OnceInBuffer(s),
         p.id # NoId => p.id \notin {s[i].id : i \in 1..Len(s)}
  PROVE  /\ OnceInBuffer(Append(s, p))
         /\ {Append(s, p)[i] : i \in 1..Len(Append(s, p))} = {s[i] : i \in 1..Len(s)} \cup {p}
<1> DEFINE t == Append(s, p)
<1>1. /\ Len(t) = Len(s) + 1 /\ Len(s) \in Nat /\ t[Len(s) + 1] = p
      /\ \A i \in 1..Len(s) : t[i] = s[i]
  OBVIOUS
<1> HIDE DEF t
<1>2. OnceInBuffer(t)
  <2> SUFFICES ASSUME NEW i \in 1..Len(t), NEW j \in 1..Len(t), t[i].id = t[j].id, t[i].id # NoId PROVE i = j
    BY DEF OnceInBuffer
  <2>1. CASE i \in 1..Len(s) /\ j \in 1..Len(s)
    BY <1>1, <2>1 DEF OnceInBuffer
  <2>2. CASE i = Len(s) + 1 \/ j = Len(s) + 1
    BY <1>1, <2>2
  <2> QED
    BY <1>1, <2>1, <2>2
<1>3. {t[i] : i \in 1..Len(t)} = {s[i] : i \in 1..Len(s)} \cup {p}
  BY <1>1
<1> QED
  BY <1>2, <1>3 DEF t

Unread == {inbox[i] : i \in 1..Len(inbox)}

LEMMA UnreadIds ==
  /\ InboxIds = {p.id : p \in Unread}
  /\ \A id : Travelling(id) = {p \in Unread \cup {packet} : p.id = id}
<1>1. InboxIds = {p.id : p \in Unread}
  BY DEF InboxIds, Unread
<1>2. ASSUME NEW id PROVE Travelling(id) = {p \in Unread \cup {packet} : p.id = id}
  BY DEF Travelling, Unread
<1> QED
  BY <1>1, <1>2

(* What travels under an id.                                               *)
LEMMA TravellingIsOne ==
  ASSUME TypeOK, TravelsOnce, NEW id \in MsgIds
  PROVE  /\ \A p, q \in Travelling(id) : p = q
         /\ \A p \in Travelling(id) : p.type \in {"answer", "error"}
         /\ id \in asked => Travelling(id) = {}
         /\ id \notin InFlight => Travelling(id) = {} /\ id \notin asked
<1>1. Unread \subseteq Packet /\ packet \in Packet \cup {NoPacket} /\ id # NoId
  BY IdAssumption DEF TypeOK, Unread
<1>2. /\ Travelling(id) = {p \in Unread \cup {packet} : p.id = id}
      /\ InboxIds = {p.id : p \in Unread}
  BY UnreadIds
<1>3. \A p, q \in Unread : p.id = id /\ q.id = id => p = q
  BY <1>1 DEF Unread, TravelsOnce, OnceInBuffer
<1>4. packet.id = id => \A p \in Unread : p.id # id
  BY <1>1, <1>2 DEF TravelsOnce
<1>5. \A p \in Travelling(id) : p.type \in {"answer", "error"}
  BY <1>1, <1>2 DEF Packet, NoPacket
<1>6. id \in asked => Travelling(id) = {}
  BY <1>1, <1>2 DEF TravelsOnce
<1>7. id \notin InFlight => Travelling(id) = {} /\ id \notin asked
  BY <1>2 DEF InFlight
<1> QED
  BY <1>2, <1>3, <1>4, <1>5, <1>6, <1>7

LEMMA InitTravels == Init => TravelsOnce
BY DEF Init, TravelsOnce, OnceInBuffer, InboxIds, NoPacket

LEMMA NextTravels ==
  ASSUME IInv, TravelsOnce, [Next]_vars
  PROVE  TravelsOnce'
<1>1. TypeOK /\ inbox \in Seq(Packet) /\ asked \subseteq MsgIds /\ InboxIds = {p.id : p \in Unread}
  BY UnreadIds DEF IInv, TypeOK
<1>9. InboxIds' = {p.id : p \in Unread'}
  BY DEF InboxIds, Unread
<1>2. CASE UNCHANGED <<inbox, asked, packet>>
  BY <1>2 DEF TravelsOnce, InboxIds
<1>3. ASSUME NEW g \in Goroutines, WriteDone(g) PROVE TravelsOnce'
  <2>1. req[g] \notin InFlight
    BY <1>3 DEF WriteDone, IInv, FlightIsWaitedFor, Idle, Waiting
  <2>2. UNCHANGED <<inbox, packet>> /\ asked' \subseteq asked \cup {req[g]}
    BY <1>3 DEF WriteDone
  <2> QED
    BY <2>1, <2>2 DEF TravelsOnce, InFlight, InboxIds
<1>4. ASSUME packet' = NoPacket, UNCHANGED <<inbox, asked>> PROVE TravelsOnce'
  BY <1>4 DEF TravelsOnce, InboxIds, NoPacket
<1>5. CASE Read
  <2>1. PICK n \in 1..Len(inbox) : inbox' = SubSeq(inbox, n + 1, Len(inbox))
    BY <1>5 DEF Read
  <2>2. packet' = Head(inbox) /\ UNCHANGED asked
    BY <1>5 DEF Read
  <2>3. /\ OnceInBuffer(inbox') /\ Unread' \subseteq Unread /\ packet' \in Unread
        /\ packet'.id # NoId => \A i \in 1..Len(inbox') : inbox'[i].id # packet'.id
    BY <1>1, <2>1, <2>2, ReadOnce DEF TravelsOnce, Unread
  <2>4. InboxIds' \subseteq InboxIds /\ packet'.id \in InboxIds /\ (packet'.id # NoId => packet'.id \notin InboxIds')
    BY <1>1, <2>3 DEF InboxIds, Unread
  <2> QED
    BY <2>2, <2>3, <2>4 DEF TravelsOnce
<1>6. ASSUME NEW id \in MsgIds, ServerAnswers(id) PROVE TravelsOnce'
  <2>1. PICK t \in {"answer", "error"} : inbox' = Append(inbox, [type |-> t, id |-> id])
    BY <1>6 DEF ServerAnswers
  <2>2. PICK p \in Packet : p = [type |-> t, id |-> id]
    BY PacketFields
  <2>3. id \in asked /\ asked' = asked \ {id} /\ packet' = packet /\ p.id = id /\ id # NoId
    BY <1>6, <2>2, IdAssumption DEF ServerAnswers
  <2>4. p.id \notin InboxIds
    BY <2>3 DEF TravelsOnce
  <2>5. OnceInBuffer(inbox') /\ Unread' = Unread \cup {p}
    BY <1>1, <2>1, <2>2, <2>4, ArrivesOnce DEF TravelsOnce, InboxIds, Unread
  <2>6. InboxIds' = InboxIds \cup {id}
    BY <1>9, <1>1, <2>3, <2>5
  <2> QED
    BY <2>3, <2>5, <2>6 DEF TravelsOnce
<1>7. CASE ServerPush
  <2>1. PICK p \in Packet : p = [type |-> "push", id |-> NoId]
    BY PacketFields
  <2>2. inbox' = Append(inbox, p) /\ UNCHANGED <<asked, packet>> /\ p.id = NoId /\ NoId \notin asked
    BY <1>1, <1>7, <2>1, IdAssumption DEF ServerPush
  <2>3. OnceInBuffer(inbox') /\ Unread' = Unread \cup {p}
    BY <1>1, <2>2, ArrivesOnce DEF TravelsOnce, Unread
  <2>4. InboxIds' = InboxIds \cup {NoId}
    BY <1>9, <1>1, <2>2, <2>3
  <2> QED
    BY <2>2, <2>3, <2>4 DEF TravelsOnce
<1>8. CASE (\E id \in MsgIds : ServerForgets(id)) \/ ConnLost
  <2>1. asked' \subseteq asked /\ packet' = packet /\ inbox' \in {inbox, <<>>}
    BY <1>8 DEF ServerForgets, ConnLost
  <2>2. OnceInBuffer(inbox') /\ InboxIds' \subseteq InboxIds
    BY <2>1 DEF TravelsOnce, OnceInBuffer, InboxIds
  <2> QED
    BY <2>1, <2>2 DEF TravelsOnce
<1> QED
  <2>1. \/ UNCHANGED <<inbox, asked, packet>>
        \/ \E g \in Goroutines : WriteDone(g)
        \/ packet' = NoPacket /\ UNCHANGED <<inbox, asked>>
        \/ Read \/ (\E id \in MsgIds : ServerAnswers(id) \/ ServerForgets(id)) \/ ServerPush \/ ConnLost
    BY DEF Next, CallerStep, Connect, RegisterHandler, SetAuthToken, SetAuthID, Call, BuildFails, StartWrite,
           WriteFails, CleanUp, Timeout, Abandon, Lookup, Deliver, HandlerReturns, netVars, vars
  <2> QED
    BY <1>2, <1>3, <1>4, <1>5, <1>6, <1>7, <1>8, <2>1

LEMMA EveryIdTravelsOnce == Spec => []TravelsOnce
BY InitTravels, NextTravels, Invariance, PTL DEF Spec

-----------------------------------------------------------------------------
(* The promise, step by step.                                              *)

PhaseMap == [g \in Goroutines |-> Phase(g)]
ReplyMap == [g \in Goroutines |-> Reply(g)]

(* A goroutine whose call, and whose request or reply, stays where it is.   *)
Untouched(h) ==
  /\ UNCHANGED <<pc[h], req[h]>>
  /\ \A id \in MsgIds : Phase(h) = "sent" /\ id = req[h] =>
       (id \in asked' <=> id \in asked) /\ Travelling(id)' = Travelling(id)

ReplyTo(id, waits, travelling) ==
  IF waits THEN "none" ELSE IF travelling = {} THEN "lost" ELSE (CHOOSE p \in travelling : TRUE).type

LEMMA ReplyOf ==
  ASSUME IInv, NEW h \in Goroutines, Phase(h) = "sent"
  PROVE  /\ req[h] \in MsgIds
         /\ \A id : id = req[h] => Reply(h) = ReplyTo(id, id \in asked, Travelling(id))
         /\ \A id : id = req'[h] /\ Phase(h)' = "sent" => Reply(h)' = ReplyTo(id, id \in asked', Travelling(id)')
<1>1. req[h] \in MsgIds
  BY DEF IInv, TypeOK, RequestsAreDistinct, Idle, Phase
<1>2. \A id : id = req[h] => Reply(h) = ReplyTo(id, id \in asked, Travelling(id))
  BY DEF Reply, ReplyTo
<1>3. \A id : id = req'[h] /\ Phase(h)' = "sent" => Reply(h)' = ReplyTo(id, id \in asked', Travelling(id)')
  BY DEF Reply, ReplyTo, Travelling
<1> QED
  BY <1>1, <1>2, <1>3

LEMMA UntouchedSeen ==
  ASSUME IInv, NEW h \in Goroutines, Untouched(h)
  PROVE  Phase(h)' = Phase(h) /\ Reply(h)' = Reply(h)
<1>1. UNCHANGED <<pc[h], req[h]>> /\ Phase(h)' = Phase(h)
  BY DEF Untouched, Phase
<1>2. CASE Phase(h) # "sent"
  BY <1>1, <1>2 DEF Reply
<1>3. CASE Phase(h) = "sent"
  <2>1. PICK id \in MsgIds : id = req[h] /\ id = req'[h]
    BY <1>1, <1>3, ReplyOf
  <2>2. (id \in asked' <=> id \in asked) /\ Travelling(id)' = Travelling(id)
    BY <1>3, <2>1 DEF Untouched
  <2> QED
    BY <1>1, <1>3, <2>1, <2>2, ReplyOf DEF ReplyTo
<1> QED
  BY <1>1, <1>2, <1>3

LEMMA TravelDepends == UNCHANGED <<inbox, packet>> => \A id : Travelling(id)' = Travelling(id)
BY DEF Travelling

(* A step of one call leaves the others alone.                             *)
LEMMA OthersUntouched ==
  ASSUME IInv, NEW g \in Goroutines, \A h \in Goroutines \ {g} : UNCHANGED <<pc[h], req[h]>>,
         \A id \in MsgIds : id # req[g] => (id \in asked' <=> id \in asked) /\ Travelling(id)' = Travelling(id)
  PROVE  \A h \in Goroutines \ {g} : Phase(h)' = Phase(h) /\ Reply(h)' = Reply(h)
<1> SUFFICES ASSUME NEW h \in Goroutines \ {g} PROVE Untouched(h)
  BY UntouchedSeen
<1>1. Phase(h) = "sent" => req[h] # req[g]
  BY DEF IInv, RequestsAreDistinct, Idle, Phase
<1> QED
  BY <1>1 DEF Untouched

(* What is seen of a step of one call, of no step and of a loss.           *)
LEMMA OneIsSeen ==
  ASSUME NEW g \in Goroutines, NEW p, NEW r, Phase(g)' = p, Reply(g)' = r,
         \A h \in Goroutines \ {g} : Phase(h)' = Phase(h) /\ Reply(h)' = Reply(h)
  PROVE  PhaseMap' = [PhaseMap EXCEPT ![g] = p] /\ ReplyMap' = [ReplyMap EXCEPT ![g] = r]
BY DEF PhaseMap, ReplyMap

LEMMA NothingIsSeen ==
  ASSUME UNCHANGED outcome, \A h \in Goroutines : Phase(h)' = Phase(h) /\ Reply(h)' = Reply(h)
  PROVE  UNCHANGED Promise!vars
BY DEF Promise!vars

LEMMA LossIsSeen ==
  ASSUME UNCHANGED outcome,
         \A h \in Goroutines : /\ Phase(h)' = Phase(h)
                               /\ Reply(h)' = Reply(h) \/ (Phase(h) = "sent" /\ Reply(h)' = "lost")
  PROVE  Promise!Lose
<1> DEFINE S == {h \in Goroutines : Phase(h) = "sent" /\ Reply(h)' = "lost"}
<1>1. /\ S \in SUBSET {h \in Goroutines : PhaseMap[h] = "sent"}
      /\ ReplyMap' = [h \in Goroutines |-> IF h \in S THEN "lost" ELSE ReplyMap[h]]
      /\ PhaseMap' = PhaseMap
  BY DEF PhaseMap, ReplyMap
<1> QED
  BY <1>1 DEF Promise!Lose, PhaseMap, ReplyMap

LEMMA SeenInit == Init => Promise!Init
<1> SUFFICES ASSUME Init PROVE Promise!Init
  OBVIOUS
<1>1. \A g \in Goroutines : Phase(g) = "idle" /\ Reply(g) = "none"
  BY DEF Init, Phase, Reply
<1> QED
  BY <1>1 DEF Promise!Init, Init


Refines == Promise!Next \/ UNCHANGED Promise!vars

(* Nothing moves that a caller could see: set-up, the start or the failure  *)
(* of a write, the timer.                                                  *)
LEMMA QuietSeen ==
  ASSUME IInv, UNCHANGED <<req, outcome, inbox, packet, asked>>,
         \A h \in Goroutines : Phase(h)' = Phase(h)
  PROVE  Refines
<1> SUFFICES ASSUME NEW h \in Goroutines PROVE Reply(h)' = Reply(h)
  BY NothingIsSeen DEF Refines
<1>1. CASE Phase(h) # "sent"
  BY <1>1 DEF Reply
<1>2. CASE Phase(h) = "sent"
  <2>1. PICK id \in MsgIds : id = req[h] /\ id = req'[h]
    BY <1>2, ReplyOf
  <2> QED
    BY <1>2, <2>1, ReplyOf, TravelDepends
<1> QED
  BY <1>1, <1>2

LEMMA SetUpSeen ==
  ASSUME IInv, Connect \/ RegisterHandler \/ \E g \in Goroutines : SetAuthToken(g) \/ SetAuthID(g)
  PROVE  Refines
BY QuietSeen DEF Connect, RegisterHandler, SetAuthToken, SetAuthID, callVars, netVars, Phase

LEMMA CallSeen ==
  ASSUME IInv, NEW g \in Goroutines, Call(g)
  PROVE  Refines
<1>1. /\ TypeOK /\ pc[g] = "idle" /\ pc' = [pc EXCEPT ![g] = "registered"]
      /\ \E id \in MsgIds : req' = [req EXCEPT ![g] = id]
      /\ outcome' = [outcome EXCEPT ![g] = "none"] /\ UNCHANGED <<inbox, packet, asked>>
  BY DEF Call, netVars, IInv
<1>2. \A h \in Goroutines \ {g} : UNCHANGED <<pc[h], req[h]>>
  BY <1>1 DEF TypeOK
<1>3. \A h \in Goroutines \ {g} : Phase(h)' = Phase(h) /\ Reply(h)' = Reply(h)
  BY <1>1, <1>2, OthersUntouched, TravelDepends
<1>4. Phase(g) = "idle" /\ Phase(g)' = "calling" /\ Reply(g) = "none" /\ Reply(g)' = "none"
  BY <1>1 DEF Phase, Reply, TypeOK
<1>5. PhaseMap' = [PhaseMap EXCEPT ![g] = "calling"] /\ ReplyMap' = [ReplyMap EXCEPT ![g] = "none"]
  BY <1>3, <1>4, OneIsSeen
<1>6. PhaseMap[g] = "idle" /\ [ReplyMap EXCEPT ![g] = "none"] = ReplyMap
  BY <1>4 DEF PhaseMap, ReplyMap
<1>7. Promise!Begin(g)
  BY <1>1, <1>5, <1>6 DEF Promise!Begin, PhaseMap, ReplyMap
<1> QED
  BY <1>7 DEF Refines, Promise!Next

(* A call that returns without an answer.                                  *)
LEMMA ReturnSeen ==
  ASSUME IInv, NEW g \in Goroutines, BuildFails(g) \/ CleanUp(g) \/ Abandon(g)
  PROVE  Refines
<1>1. /\ TypeOK /\ pc' = [pc EXCEPT ![g] = "idle"] /\ req' = [req EXCEPT ![g] = NoId]
      /\ UNCHANGED <<inbox, packet, asked>>
      /\ \/ pc[g] \in {"registered", "writeFailed"} /\ outcome' = [outcome EXCEPT ![g] = "failed"]
         \/ pc[g] = "timedOut" /\ outcome' = [outcome EXCEPT ![g] = "timeout"]
  BY DEF BuildFails, CleanUp, Abandon, Return, netVars, IInv
<1>2. \A h \in Goroutines \ {g} : UNCHANGED <<pc[h], req[h]>>
  BY <1>1 DEF TypeOK
<1>3. \A h \in Goroutines \ {g} : Phase(h)' = Phase(h) /\ Reply(h)' = Reply(h)
  BY <1>1, <1>2, OthersUntouched, TravelDepends
<1>4. Phase(g)' = "idle" /\ Reply(g)' = "none"
  BY <1>1 DEF Phase, Reply, TypeOK
<1>5. PhaseMap' = [PhaseMap EXCEPT ![g] = "idle"] /\ ReplyMap' = [ReplyMap EXCEPT ![g] = "none"]
  BY <1>3, <1>4, OneIsSeen
<1>6. PhaseMap[g] = IF pc[g] = "timedOut" THEN "sent" ELSE "calling"
  BY <1>1 DEF PhaseMap, Phase
<1>7. Promise!Fail(g) \/ Promise!GiveUp(g)
  BY <1>1, <1>5, <1>6 DEF Promise!Fail, Promise!GiveUp, Promise!Return, PhaseMap, ReplyMap
<1> QED
  BY <1>7 DEF Refines, Promise!Next

(* The write is done: the request is with the server or, without a          *)
(* connection, lost.                                                       *)
LEMMA WriteSeen ==
  ASSUME IInv, TravelsOnce, NEW g \in Goroutines,
         StartWrite(g) \/ WriteDone(g) \/ WriteFails(g) \/ Timeout(g)
  PROVE  Refines
<1>1. CASE StartWrite(g) \/ WriteFails(g) \/ Timeout(g)
  <2>1. /\ UNCHANGED <<req, outcome, inbox, packet, asked>>
        /\ \/ pc[g] \in {"registered", "writing"} /\ \E s \in {"writing", "writeFailed"} : pc' = [pc EXCEPT ![g] = s]
           \/ pc[g] = "select" /\ pc' = [pc EXCEPT ![g] = "timedOut"]
    BY <1>1 DEF StartWrite, WriteFails, Timeout, netVars
  <2>2. \A h \in Goroutines : Phase(h)' = Phase(h)
    BY <2>1 DEF IInv, TypeOK, Phase
  <2> QED
    BY <2>1, <2>2, QuietSeen
<1>2. CASE WriteDone(g)
  <2>1. /\ TypeOK /\ pc[g] = "writing" /\ pc' = [pc EXCEPT ![g] = "select"]
        /\ UNCHANGED <<req, outcome, inbox, packet>>
        /\ asked' = asked \/ asked' = asked \cup {req[g]}
    BY <1>2 DEF WriteDone, IInv
  <2>2. PICK id \in MsgIds : id = req[g] /\ id = req'[g]
    BY <2>1 DEF IInv, TypeOK, RequestsAreDistinct, Idle
  <2>3. id \notin asked /\ Travelling(id) = {} /\ Travelling(id)' = {}
    <3>1. id \notin InFlight
      BY <2>1, <2>2 DEF IInv, FlightIsWaitedFor, Idle, Waiting
    <3> QED
      BY <2>1, <3>1, TravellingIsOne, TravelDepends
  <2>4. \A h \in Goroutines \ {g} : UNCHANGED <<pc[h], req[h]>>
    BY <2>1 DEF TypeOK
  <2>5. \A h \in Goroutines \ {g} : Phase(h)' = Phase(h) /\ Reply(h)' = Reply(h)
    BY <2>1, <2>4, OthersUntouched, TravelDepends
  <2>6. Phase(g) = "calling" /\ Phase(g)' = "sent"
    BY <2>1 DEF Phase, TypeOK
  <2>7. Reply(g)' = ReplyTo(id, id \in asked', Travelling(id)')
    BY <2>2, <2>6 DEF Reply, ReplyTo, Travelling
  <2>8. PICK r \in {"none", "lost"} : Reply(g)' = r
    BY <2>3, <2>7 DEF ReplyTo
  <2>9. PhaseMap' = [PhaseMap EXCEPT ![g] = "sent"] /\ ReplyMap' = [ReplyMap EXCEPT ![g] = r]
    BY <2>5, <2>6, <2>8, OneIsSeen
  <2>10. PhaseMap[g] = "calling"
    BY <2>6 DEF PhaseMap
  <2>11. Promise!Send(g)
    BY <2>1, <2>9, <2>10 DEF Promise!Send, PhaseMap, ReplyMap
  <2> QED
    BY <2>11 DEF Refines, Promise!Next
<1> QED
  BY <1>1, <1>2

(* The answer that is handed over is the reply to the caller's own request. *)
LEMMA DeliverSeen ==
  ASSUME IInv, TravelsOnce, NEW g \in Goroutines, Deliver(g)
  PROVE  Refines
<1> DEFINE how == IF packet.type = "error" THEN "refused" ELSE "answered"
<1>1. /\ TypeOK /\ pc[g] = "select" /\ req[g] = packet.id /\ packet' = NoPacket /\ UNCHANGED <<inbox, asked>>
      /\ pc' = [pc EXCEPT ![g] = "idle"] /\ req' = [req EXCEPT ![g] = NoId]
      /\ outcome' = [outcome EXCEPT ![g] = how]
  BY DEF Deliver, Return, netVars, IInv
<1>2. PICK id \in MsgIds : id = req[g] /\ Phase(g) = "sent"
  BY <1>1 DEF IInv, TypeOK, RequestsAreDistinct, Idle, Phase
<1>3. packet \in Travelling(id)
  BY <1>1, <1>2 DEF Travelling
<1>4. /\ \A p \in Travelling(id) : p = packet
      /\ packet.type \in {"answer", "error"} /\ id \notin asked
  BY <1>1, <1>3, TravellingIsOne
<1>5. Reply(g) = packet.type
  <2>1. (CHOOSE p \in Travelling(id) : TRUE) = packet
    BY <1>3, <1>4
  <2> QED
    BY <1>2, <1>3, <1>4, <2>1, ReplyOf DEF ReplyTo
<1>6. \A h \in Goroutines \ {g} : UNCHANGED <<pc[h], req[h]>>
  BY <1>1 DEF TypeOK
<1>7. \A k \in MsgIds : k # req[g] => Travelling(k)' = Travelling(k)
  BY <1>1, IdAssumption DEF Travelling, NoPacket
<1>8. \A h \in Goroutines \ {g} : Phase(h)' = Phase(h) /\ Reply(h)' = Reply(h)
  BY <1>1, <1>6, <1>7, OthersUntouched
<1>9. Phase(g)' = "idle" /\ Reply(g)' = "none"
  BY <1>1 DEF Phase, Reply, TypeOK
<1>10. PhaseMap' = [PhaseMap EXCEPT ![g] = "idle"] /\ ReplyMap' = [ReplyMap EXCEPT ![g] = "none"]
  BY <1>8, <1>9, OneIsSeen
<1>11. PhaseMap[g] = "sent" /\ ReplyMap[g] = packet.type
  BY <1>2, <1>5 DEF PhaseMap, ReplyMap
<1>12. Promise!Take(g)
  BY <1>1, <1>4, <1>10, <1>11 DEF Promise!Take, Promise!Return, PhaseMap, ReplyMap
<1> QED
  BY <1>12 DEF Refines, Promise!Next

(* Requests and replies that are dropped.                                  *)
LEMMA DropSeen ==
  ASSUME IInv, TravelsOnce, UNCHANGED <<pc, req, outcome>>,
         \A id \in MsgIds : /\ id \in asked' => id \in asked
                            /\ id \notin asked => Travelling(id)' \subseteq Travelling(id)
                            /\ id \in asked /\ id \notin asked' => Travelling(id)' = {}
  PROVE  Refines
<1> SUFFICES ASSUME NEW h \in Goroutines
             PROVE  /\ Phase(h)' = Phase(h)
                    /\ Reply(h)' = Reply(h) \/ (Phase(h) = "sent" /\ Reply(h)' = "lost")
  BY LossIsSeen DEF Refines, Promise!Next
<1>1. Phase(h)' = Phase(h)
  BY DEF Phase
<1>2. CASE Phase(h) # "sent"
  BY <1>1, <1>2 DEF Reply
<1>3. CASE Phase(h) = "sent"
  <2>1. PICK id \in MsgIds : id = req[h] /\ id = req'[h]
    BY <1>3, ReplyOf
  <2>2. /\ Reply(h) = ReplyTo(id, id \in asked, Travelling(id))
        /\ Reply(h)' = ReplyTo(id, id \in asked', Travelling(id)')
    BY <1>1, <1>3, <2>1, ReplyOf
  <2>3. \A p, q \in Travelling(id) : p = q
    BY TravellingIsOne DEF IInv
  <2>4. Travelling(id)' = {} \/ Travelling(id)' = Travelling(id) \/ id \in asked
    BY <2>3
  <2> QED
    BY <1>1, <1>3, <2>2, <2>4 DEF ReplyTo
<1> QED
  BY <1>2, <1>3, <1>1

(* A read takes one packet up and forgets what came with it.               *)
LEMMA ListenerSeen ==
  ASSUME IInv, TravelsOnce, Read \/ Lookup \/ HandlerReturns
  PROVE  Refines
<1>1. UNCHANGED <<pc, req, outcome, asked>>
  BY DEF Read, Lookup, HandlerReturns, callVars, netVars
<1>2. \A id \in MsgIds : Travelling(id)' \subseteq Travelling(id)
  <2>1. CASE Read
    <3>1. PICK n \in 1..Len(inbox) : inbox' = SubSeq(inbox, n + 1, Len(inbox))
      BY <2>1 DEF Read
    <3>2. inbox \in Seq(Packet) /\ packet' = Head(inbox)
      BY <2>1 DEF Read, IInv, TypeOK
    <3>3. /\ {inbox'[i] : i \in 1..Len(inbox')} \subseteq {inbox[i] : i \in 1..Len(inbox)}
          /\ packet' \in {inbox[i] : i \in 1..Len(inbox)}
      BY <3>1, <3>2, ReadOnce DEF TravelsOnce
    <3> QED
      BY <3>3 DEF Travelling
  <2>2. CASE Lookup \/ HandlerReturns
    <3>1. UNCHANGED inbox /\ packet' \in {packet, NoPacket}
      BY <2>2 DEF Lookup, HandlerReturns, netVars
    <3> QED
      BY <3>1, IdAssumption DEF Travelling, NoPacket
  <2> QED
    BY <2>1, <2>2
<1> QED
  BY <1>1, <1>2, DropSeen

(* The server replies to the caller that is waiting, or to nobody.         *)
LEMMA ReplySeen ==
  ASSUME IInv, TravelsOnce, NEW id \in MsgIds, ServerAnswers(id)
  PROVE  Refines
<1>1. PICK t \in {"answer", "error"} : inbox' = Append(inbox, [type |-> t, id |-> id])
  BY DEF ServerAnswers
<1>2. PICK p \in Packet : p = [type |-> t, id |-> id]
  BY PacketFields
<1>3. /\ TypeOK /\ inbox' = Append(inbox, p) /\ p.id = id /\ p.type = t /\ id # NoId
      /\ id \in asked /\ asked' = asked \ {id} /\ UNCHANGED <<pc, req, outcome, packet>>
  BY <1>1, <1>2, IdAssumption DEF ServerAnswers, callVars, IInv
<1>4. Unread' = Unread \cup {p}
  <2>1. p.id \notin {inbox[i].id : i \in 1..Len(inbox)} /\ inbox \in Seq(Packet)
    BY <1>3 DEF TravelsOnce, InboxIds, TypeOK
  <2> QED
    BY <1>3, <2>1, ArrivesOnce DEF TravelsOnce, Unread
<1>5. \A k \in MsgIds : Travelling(k)' = Travelling(k) \cup (IF k = id THEN {p} ELSE {})
  <2>1. \A k : Travelling(k)' = {q \in Unread' \cup {packet'} : q.id = k}
    BY DEF Travelling, Unread
  <2>2. \A k : Travelling(k) = {q \in Unread \cup {packet} : q.id = k}
    BY UnreadIds
  <2> QED
    BY <1>3, <1>4, <2>1, <2>2
<1>6. \A k \in MsgIds : k # id => (k \in asked' <=> k \in asked) /\ Travelling(k)' = Travelling(k)
  BY <1>3, <1>5
<1>7. Travelling(id) = {} /\ Travelling(id)' = {p}
  BY <1>3, <1>5, TravellingIsOne
<1>8. ASSUME NEW g \in Goroutines, req[g] = id, Phase(g) = "sent" PROVE Refines
  <2>1. \A h \in Goroutines \ {g} : Phase(h)' = Phase(h) /\ Reply(h)' = Reply(h)
    BY <1>3, <1>6, <1>8, OthersUntouched
  <2>2. Phase(g)' = "sent" /\ Reply(g) = "none" /\ Reply(g)' = t
    <3>1. Phase(g)' = "sent"
      BY <1>3, <1>8 DEF Phase
    <3>2. /\ Reply(g) = ReplyTo(id, id \in asked, Travelling(id))
          /\ Reply(g)' = ReplyTo(id, id \in asked', Travelling(id)')
      BY <1>3, <1>8, <3>1, ReplyOf
    <3>3. (CHOOSE q \in {p} : TRUE) = p
      OBVIOUS
    <3> QED
      BY <1>3, <1>7, <3>1, <3>2, <3>3 DEF ReplyTo
  <2>3. PhaseMap' = [PhaseMap EXCEPT ![g] = "sent"] /\ ReplyMap' = [ReplyMap EXCEPT ![g] = t]
    BY <2>1, <2>2, OneIsSeen
  <2>4. PhaseMap[g] = "sent" /\ ReplyMap[g] = "none" /\ [PhaseMap EXCEPT ![g] = "sent"] = PhaseMap
    BY <1>8, <2>2 DEF PhaseMap, ReplyMap
  <2>5. Promise!ServerReplies(g)
    BY <1>3, <2>3, <2>4 DEF Promise!ServerReplies, PhaseMap, ReplyMap
  <2> QED
    BY <2>5 DEF Refines, Promise!Next
<1>9. ASSUME \A g \in Goroutines : req[g] # id \/ Phase(g) # "sent" PROVE Refines
  <2> SUFFICES ASSUME NEW g \in Goroutines PROVE Untouched(g)
    BY <1>3, UntouchedSeen, NothingIsSeen DEF Refines
  <2> QED
    BY <1>3, <1>6, <1>9 DEF Untouched
<1> QED
  BY <1>8, <1>9

LEMMA ServerSeen ==
  ASSUME IInv, TravelsOnce, (\E id \in MsgIds : ServerForgets(id)) \/ ServerPush \/ ConnLost
  PROVE  Refines
<1>1. TypeOK /\ UNCHANGED <<pc, req, outcome, packet>> /\ asked' \subseteq asked
  BY DEF ServerForgets, ServerPush, ConnLost, callVars, IInv
<1>2. \A id \in MsgIds : Travelling(id)' \subseteq Travelling(id)
  <2>1. CASE ServerPush
    <3>1. PICK p \in Packet : p = [type |-> "push", id |-> NoId]
      BY PacketFields
    <3>2. inbox' = Append(inbox, p) /\ p.id = NoId /\ inbox \in Seq(Packet)
      BY <1>1, <2>1, <3>1 DEF ServerPush, TypeOK
    <3>3. Unread' = Unread \cup {p}
      BY <3>2, ArrivesOnce DEF TravelsOnce, Unread
    <3>4. \A k : Travelling(k)' = {q \in Unread' \cup {packet'} : q.id = k}
      BY DEF Travelling, Unread
    <3>5. \A k : Travelling(k) = {q \in Unread \cup {packet} : q.id = k}
      BY UnreadIds
    <3> QED
      BY <1>1, <3>2, <3>3, <3>4, <3>5, IdAssumption
  <2>2. CASE (\E id \in MsgIds : ServerForgets(id)) \/ ConnLost
    <3>1. inbox' \in {inbox, <<>>}
      BY <2>2 DEF ServerForgets, ConnLost
    <3> QED
      BY <1>1, <3>1 DEF Travelling
  <2> QED
    BY <2>1, <2>2
<1>3. \A id \in MsgIds : id \in asked => Travelling(id)' = {}
  BY <1>1, <1>2, TravellingIsOne
<1> QED
  BY <1>1, <1>2, <1>3, DropSeen

LEMMA NextSeen ==
  ASSUME IInv, TravelsOnce, [Next]_vars
  PROVE  Refines
<1>1. ASSUME NEW g \in Goroutines, CallerStep(g) PROVE Refines
  BY <1>1, SetUpSeen, CallSeen, ReturnSeen, WriteSeen, DeliverSeen DEF CallerStep
<1>2. CASE Connect \/ RegisterHandler
  BY <1>2, SetUpSeen
<1>3. CASE Read \/ Lookup \/ HandlerReturns
  BY <1>3, ListenerSeen
<1>4. CASE (\E id \in MsgIds : ServerAnswers(id) \/ ServerForgets(id)) \/ ServerPush \/ ConnLost
  BY <1>4, ReplySeen, ServerSeen
<1>5. CASE UNCHANGED vars
  <2>1. \A h \in Goroutines : Phase(h)' = Phase(h)
    BY <1>5 DEF vars, callVars, Phase
  <2> QED
    BY <1>5, <2>1, QuietSeen DEF vars, callVars, netVars
<1> QED
  BY <1>1, <1>2, <1>3, <1>4, <1>5 DEF Next

(* SendReceive implements its promise: a call returns an answer only as the *)
(* reply to the request it wrote itself, at most once.                     *)
THEOREM PromiseIsKept == Spec => ImplementsRequestReply
<1>1. Init => Promise!Init
  BY SeenInit
<1>2. IInv /\ TravelsOnce /\ [Next]_vars => [Promise!Next]_Promise!vars
  BY NextSeen DEF Refines
<1> QED
  BY <1>1, <1>2, Invariance, EveryIdTravelsOnce, PTL DEF Spec, ImplementsRequestReply, Promise!Spec
=============================================================================
