----------------------------- MODULE Relay_proofs -----------------------------
(***************************************************************************)
(* Proofs about Relay, for any connections, users, messages and quotas:    *)
(* its types, that the registry never crashes, that an acknowledged        *)
(* message is stored and that pushes arrive in the order of the messages   *)
(* table and at most once (PushesInOrder).  The invariants are proved one  *)
(* on top of the other, each with the help of those before it.             *)
(***************************************************************************)
EXTENDS Relay, SequenceTheorems, TLAPS

-----------------------------------------------------------------------------
(* Queues as sets.                                                         *)

LEMMA AppendRange ==
  ASSUME NEW S, NEW s \in Seq(S), NEW e \in S
  PROVE  Append(s, e) \in Seq(S) /\ Range(Append(s, e)) = Range(s) \cup {e}
<1>1. /\ Append(s, e) \in Seq(S) /\ Len(Append(s, e)) = Len(s) + 1 /\ Len(s) \in Nat
      /\ \A i \in 1..Len(s) : Append(s, e)[i] = s[i]
      /\ Append(s, e)[Len(s) + 1] = e
  BY AppendProperties, LenProperties
<1>2. Range(Append(s, e)) = {Append(s, e)[i] : i \in 1..Len(Append(s, e))} /\ Range(s) = {s[i] : i \in 1..Len(s)}
  BY <1>1, RangeEquality
<1> QED
  BY <1>1, <1>2

LEMMA TailRange ==
  ASSUME NEW S, NEW s \in Seq(S), s # <<>>
  PROVE  /\ Tail(s) \in Seq(S) /\ Head(s) \in S /\ Head(s) \in Range(s)
         /\ Range(Tail(s)) \subseteq Range(s)
<1>1. /\ Tail(s) \in Seq(S) /\ Head(s) \in S /\ Len(s) \in Nat \ {0} /\ Head(s) = s[1]
      /\ Len(Tail(s)) = Len(s) - 1 /\ \A i \in 1..Len(Tail(s)) : Tail(s)[i] = s[i + 1]
  BY HeadTailProperties, EmptySeq
<1>2. Range(Tail(s)) = {Tail(s)[i] : i \in 1..Len(Tail(s))} /\ Range(s) = {s[i] : i \in 1..Len(s)}
  <2>1. Tail(s) \in Seq(S)
    BY <1>1
  <2> QED
    BY ONLY s \in Seq(S), <2>1, RangeEquality
<1>3. \A i \in 1..Len(Tail(s)) : i + 1 \in 1..Len(s)
  BY <1>1
<1>4. Head(s) \in Range(s)
  <2>1. 1 \in 1..Len(s)
    BY <1>1
  <2>2. Head(s) = s[1] /\ Range(s) = {s[i] : i \in 1..Len(s)}
    BY <1>1, <1>2
  <2> QED
    BY ONLY <2>1, <2>2
<1>5. \A x \in Range(Tail(s)) : x \in Range(s)
  BY <1>1, <1>2, <1>3
<1> QED
  BY <1>1, <1>4, <1>5

LEMMA EmptyRange == Range(<<>>) = {}
BY DEF Range

-----------------------------------------------------------------------------
(* The typing invariant.                                                   *)

Mails(c) == Range(mbox[c])
Unread(c) == Range(sock[c])
Calls == Range(regQ)

Handling == {"announce", "insert", "reply", "replied", "lookup", "asked", "push", "pushing"}
Calling == {"replied", "asked", "pushing"}

(* A request about a message is about one of the device's own.             *)
RequestOf(c, r) ==
  r \in Request /\ (r.type \in {"send_message", "req_pub_key"} => r.msg \in Msgs /\ SentBy[r.msg] = c)

OwnRequests == \A c \in Conns :
  /\ \A r \in Unread(c) : RequestOf(c, r)
  /\ \A x \in Mails(c) : x.kind = "tcp" => RequestOf(c, x.body)

(* A pushed packet carries one message; the handshake has no id, which no  *)
(* client waits for.                                                       *)
WholePacket(p) ==
  /\ p.type = "recv_message" => \E m \in Msgs : p.msgs = {m}
  /\ p.type = "handshake" => p.id = 0
PacketsAreWhole == \A c \in Conns :
  /\ \A x \in Mails(c) : x.kind = "send_data" => WholePacket(x.body)
  /\ Waiting(c) => tries[c] # 0

(* A handler has its request and its answer; past the insertion its user   *)
(* sends a message.                                                        *)
HandlerIsWhole(c) ==
  /\ hpc[c] \in Handling =>
       /\ RequestOf(c, job[c])
       /\ answer[c] \in Packet /\ answer[c].id = job[c].id /\ answer[c].type \in {job[c].type, "error"}
       /\ answer[c].type = "send_message" => answer[c].msgs = {job[c].msg} /\ To[job[c].msg] \in Users
  /\ hpc[c] \in {"insert", "lookup", "asked", "push", "pushing"} => answer[c].type = "send_message"
  /\ hpc[c] \in {"push", "pushing"} => target[c] \in Conns
  /\ hpc[c] = "announce" => job[c].type \in {"req_login", "req_signup", "req_logout"}
HandlersAreWhole == \A c \in Conns : HandlerIsWhole(c)

(* The calls in the registry's mailbox are those the handlers wait for.    *)
IsCall(x) == x.op \in {"send_data", "get_connection_uuid"}
Push(c) == [type |-> "recv_message", id |-> job[c].id, msgs |-> {job[c].msg}]
CallOf(x) ==
  \/ /\ x.op = "get_connection_uuid" /\ hpc[x.from] = "asked"
     /\ x.user = To[job[x.from].msg]
  \/ /\ x.op = "send_data" /\ hpc[x.from] = "replied"
     /\ x.conn = x.from /\ x.body = answer[x.from]
  \/ /\ x.op = "send_data" /\ hpc[x.from] = "pushing"
     /\ x.conn = target[x.from] /\ x.body = Push(x.from)
CallsAreAwaited ==
  /\ \A x \in Calls : IsCall(x) => CallOf(x)
  /\ \A i, j \in 1..Len(regQ) : IsCall(regQ[i]) /\ IsCall(regQ[j]) /\ regQ[i].from = regQ[j].from => i = j

(* No process without a connection.                                        *)
ProcessesAreSpawned == \A c \in Conns : cl[c] = "off" => hpc[c] = "off"

Typed ==
  TypeOK /\ OwnRequests /\ PacketsAreWhole /\ HandlersAreWhole /\ CallsAreAwaited /\ ProcessesAreSpawned

-----------------------------------------------------------------------------
(* Members of the message types.                                           *)

LEMMA MailFields ==
  /\ \A x \in Mail : /\ x.kind \in {"tcp", "tcp_closed", "send_data"}
                     /\ x.kind = "tcp" => x.body \in Request
                     /\ x.kind = "send_data" => x.body \in Packet
  /\ \A r \in Request : [kind |-> "tcp", body |-> r] \in Mail
  /\ \A p \in Packet : [kind |-> "send_data", body |-> p] \in Mail
  /\ [kind |-> "tcp_closed"] \in Mail
BY DEF Mail

LEMMA RegMailFields ==
  /\ \A x \in RegMail : /\ x.op \in {"add", "remove", "update", "send_data", "get_connection_uuid"}
                        /\ x.op # "get_connection_uuid" => x.conn \in Conns
                        /\ x.op = "update" => x.user \in Users \cup {Nobody}
                        /\ x.op = "send_data" => x.from \in Conns /\ x.body \in Packet
                        /\ x.op = "get_connection_uuid" => x.from \in Conns /\ x.user \in Users
  /\ \A c \in Conns : /\ [op |-> "add", conn |-> c] \in RegMail
                      /\ [op |-> "remove", conn |-> c] \in RegMail
                      /\ \A u \in Users \cup {Nobody} : [op |-> "update", conn |-> c, user |-> u] \in RegMail
                      /\ \A u \in Users : [op |-> "get_connection_uuid", from |-> c, user |-> u] \in RegMail
                      /\ \A d \in Conns, p \in Packet :
                           [op |-> "send_data", from |-> c, conn |-> d, body |-> p] \in RegMail
BY DEF RegMail

LEMMA PacketFields ==
  /\ \A p \in Packet : p.type \in RequestTypes \cup {"handshake", "error", "recv_message"} /\ p.id \in Nat /\ p.msgs \subseteq Msgs
  /\ \A t \in RequestTypes \cup {"handshake", "error", "recv_message"}, i \in Nat, M \in SUBSET Msgs :
       [type |-> t, id |-> i, msgs |-> M] \in Packet
  /\ Handshake \in Packet /\ WholePacket(Handshake) /\ Handshake.type = "handshake"
BY DEF Packet, Handshake, WholePacket

LEMMA RequestFields ==
  /\ \A r \in Request : r.type \in RequestTypes /\ r.id \in Nat /\ r.token \in Tokens /\ r.msg \in Msgs \cup {Nobody}
  /\ \A t \in RequestTypes, i \in Nat, k \in Tokens, m \in Msgs \cup {Nobody} :
       [type |-> t, id |-> i, token |-> k, msg |-> m] \in Request
BY DEF Request

-----------------------------------------------------------------------------
(* What keeps the parts of the invariant.                                  *)

OthersKept(c) == \A d \in Conns \ {c} : UNCHANGED <<hpc[d], job[d], answer[d], target[d]>>

LEMMA QueueMembers ==
  ASSUME TypeOK
  PROVE  /\ \A x \in Calls : x \in RegMail /\ (IsCall(x) => x.from \in Conns)
         /\ \A c \in Conns : Mails(c) \subseteq Mail /\ Unread(c) \subseteq Request
<1>1. regQ \in Seq(RegMail) /\ \A c \in Conns : mbox[c] \in Seq(Mail) /\ sock[c] \in Seq(Request)
  BY DEF TypeOK
<1>2. Calls \subseteq RegMail /\ \A c \in Conns : Mails(c) \subseteq Mail /\ Unread(c) \subseteq Request
  BY <1>1, RangeOfSeq DEF Calls, Mails, Unread
<1> QED
  BY <1>2, RegMailFields DEF IsCall

(* Calls stand as long as their callers wait.                              *)
LEMMA CallStands ==
  ASSUME NEW x, CallOf(x), UNCHANGED <<hpc[x.from], job[x.from], answer[x.from], target[x.from]>>
  PROVE  CallOf(x)'
BY DEF CallOf, Push

LEMMA OtherCallsStay ==
  ASSUME Typed, NEW c \in Conns, hpc[c] \notin Calling, OthersKept(c)
  PROVE  \A x \in Calls : IsCall(x) => CallOf(x)' /\ x.from # c
<1> SUFFICES ASSUME NEW x \in Calls, IsCall(x) PROVE CallOf(x)' /\ x.from # c
  OBVIOUS
<1>1. CallOf(x) /\ x.from \in Conns
  BY QueueMembers DEF Typed, CallsAreAwaited
<1>2. hpc[x.from] \in Calling
  BY <1>1 DEF CallOf, Calling
<1>3. x.from # c
  BY <1>2
<1> QED
  BY <1>1, <1>3, CallStands DEF OthersKept

LEMMA CallsKept ==
  ASSUME Typed,
         UNCHANGED procVars \/ \E c \in Conns : hpc[c] \notin Calling /\ OthersKept(c),
         regQ' = regQ \/ \E x \in RegMail : ~IsCall(x) /\ regQ' = Append(regQ, x)
  PROVE  CallsAreAwaited'
<1>1. regQ \in Seq(RegMail) /\ CallsAreAwaited
  BY DEF Typed, TypeOK
<1>2. \A x \in Calls : IsCall(x) => CallOf(x)'
  BY <1>1, OtherCallsStay, CallStands DEF procVars, CallsAreAwaited
<1>3. CASE regQ' = regQ
  BY <1>1, <1>2, <1>3 DEF CallsAreAwaited, Calls
<1>4. ASSUME NEW x \in RegMail, ~IsCall(x), regQ' = Append(regQ, x) PROVE CallsAreAwaited'
  <2>1. Calls' = Calls \cup {x}
    BY <1>1, <1>4, AppendRange DEF Calls
  <2>2. /\ Len(regQ') = Len(regQ) + 1 /\ regQ'[Len(regQ) + 1] = x
        /\ \A i \in 1..Len(regQ) : regQ'[i] = regQ[i]
    BY <1>1, <1>4
  <2> QED
    BY <1>1, <1>2, <1>4, <2>1, <2>2 DEF CallsAreAwaited
<1> QED
  BY <1>3, <1>4

LEMMA CallsMade ==
  ASSUME Typed, NEW c \in Conns, hpc[c] \notin Calling, OthersKept(c),
         NEW x \in RegMail, IsCall(x), x.from = c, CallOf(x)', regQ' = Append(regQ, x)
  PROVE  CallsAreAwaited'
<1>1. regQ \in Seq(RegMail) /\ CallsAreAwaited
  BY DEF Typed, TypeOK
<1>2. \A y \in Calls : IsCall(y) => CallOf(y)' /\ y.from # c
  BY OtherCallsStay
<1>3. Calls' = Calls \cup {x}
  BY <1>1, AppendRange DEF Calls
<1>4. /\ Len(regQ') = Len(regQ) + 1 /\ regQ'[Len(regQ) + 1] = x
      /\ \A i \in 1..Len(regQ) : regQ'[i] = regQ[i] /\ regQ[i] \in Calls
  BY <1>1, RangeEquality DEF Calls
<1> QED
  BY <1>1, <1>2, <1>3, <1>4 DEF CallsAreAwaited

LEMMA CallsTaken ==
  ASSUME Typed, regQ # <<>>, regQ' = Tail(regQ),
         \/ IsCall(Head(regQ)) /\ OthersKept(Head(regQ).from)
         \/ UNCHANGED procVars
  PROVE  CallsAreAwaited'
<1>1. regQ \in Seq(RegMail) /\ CallsAreAwaited
  BY DEF Typed, TypeOK
<1>2. /\ Len(regQ') = Len(regQ) - 1 /\ Head(regQ) = regQ[1] /\ 1 \in 1..Len(regQ)
      /\ \A i \in 1..Len(regQ') : regQ'[i] = regQ[i + 1] /\ i + 1 \in 1..Len(regQ) /\ i + 1 # 1
  BY <1>1, HeadTailProperties
<1>3. Calls' = {regQ'[i] : i \in 1..Len(regQ')} /\ Calls = {regQ[i] : i \in 1..Len(regQ)}
  <2>1. regQ' \in Seq(RegMail)
    BY <1>1, TailRange
  <2>2. \A s \in Seq(RegMail) : Range(s) = {s[i] : i \in 1..Len(s)}
    BY RangeEquality
  <2> QED
    BY <1>1, <2>1, <2>2 DEF Calls
<1>4. \A x \in Calls' : x \in Calls /\ (IsCall(x) => x.from # Head(regQ).from \/ ~IsCall(Head(regQ)))
  <2> SUFFICES ASSUME NEW i \in 1..Len(regQ')
               PROVE  LET x == regQ'[i] IN x \in Calls /\ (IsCall(x) => x.from # Head(regQ).from \/ ~IsCall(Head(regQ)))
    BY <1>3
  <2> DEFINE x == regQ[i + 1]
  <2>1. regQ'[i] = x /\ i + 1 \in 1..Len(regQ) /\ i + 1 # 1 /\ x \in Calls
    BY <1>2, <1>3
  <2>2. IsCall(x) /\ IsCall(regQ[1]) => x.from # regQ[1].from
    BY <1>1, <1>2, <2>1 DEF CallsAreAwaited
  <2> QED
    BY <1>2, <2>1, <2>2
<1>5. \A x \in Calls' : IsCall(x) => CallOf(x)'
  <2>1. CASE UNCHANGED procVars
    BY <1>1, <1>4, <2>1 DEF procVars, CallsAreAwaited, CallOf, Push
  <2>2. CASE IsCall(Head(regQ)) /\ OthersKept(Head(regQ).from)
    <3> SUFFICES ASSUME NEW x \in Calls', IsCall(x) PROVE CallOf(x)'
      OBVIOUS
    <3>1. CallOf(x) /\ x.from \in Conns \ {Head(regQ).from}
      BY <1>1, <1>4, <2>2, QueueMembers DEF Typed, CallsAreAwaited
    <3> QED
      BY <2>2, <3>1, CallStands DEF OthersKept
  <2> QED
    BY <2>1, <2>2
<1>6. ASSUME NEW i \in 1..Len(regQ'), NEW j \in 1..Len(regQ'),
             IsCall(regQ'[i]), IsCall(regQ'[j]), regQ'[i].from = regQ'[j].from
      PROVE  i = j
  BY <1>1, <1>2, <1>6 DEF CallsAreAwaited
<1> QED
  BY <1>5, <1>6 DEF CallsAreAwaited

LEMMA HandlersKept ==
  ASSUME HandlersAreWhole, NEW c \in Conns, OthersKept(c), HandlerIsWhole(c)'
  PROVE  HandlersAreWhole'
<1> SUFFICES ASSUME NEW d \in Conns \ {c} PROVE HandlerIsWhole(d)'
  BY DEF HandlersAreWhole
<1>1. HandlerIsWhole(d) /\ UNCHANGED <<hpc[d], job[d], answer[d], target[d]>>
  BY DEF HandlersAreWhole, OthersKept
<1> QED
  BY <1>1 DEF HandlerIsWhole

(* Requests enter the system in one place, and packets in two.             *)
LEMMA RequestsKept ==
  ASSUME OwnRequests,
         \A d \in Conns : \A r \in Unread(d)' : r \in Unread(d) \/ RequestOf(d, r),
         \A d \in Conns : \A x \in Mails(d)' :
           x \in Mails(d) \/ x.kind # "tcp" \/ x.body \in Unread(d)
  PROVE  OwnRequests'
BY DEF OwnRequests

LEMMA PacketsKept ==
  ASSUME PacketsAreWhole,
         \A d \in Conns : \A x \in Mails(d)' :
           x \in Mails(d) \/ x.kind # "send_data" \/ WholePacket(x.body),
         \A d \in Conns : Waiting(d)' => (Waiting(d) /\ tries'[d] = tries[d]) \/ tries'[d] # 0
  PROVE  PacketsAreWhole'
BY DEF PacketsAreWhole

-----------------------------------------------------------------------------
(* The queues after a step.                                                *)

LEMMA MailArrives ==
  ASSUME TypeOK, NEW c \in Conns, NEW x \in Mail, mbox' = [mbox EXCEPT ![c] = Append(@, x)]
  PROVE  /\ mbox' \in [Conns -> Seq(Mail)]
         /\ Mails(c)' = Mails(c) \cup {x}
         /\ \A d \in Conns \ {c} : Mails(d)' = Mails(d)
<1>1. mbox \in [Conns -> Seq(Mail)]
  BY DEF TypeOK
<1>2. mbox'[c] = Append(mbox[c], x) /\ mbox[c] \in Seq(Mail) /\ \A d \in Conns \ {c} : mbox'[d] = mbox[d]
  BY <1>1
<1>3. Append(mbox[c], x) \in Seq(Mail) /\ Range(Append(mbox[c], x)) = Range(mbox[c]) \cup {x}
  BY <1>2, AppendRange
<1> QED
  BY <1>1, <1>2, <1>3 DEF Mails

LEMMA MailTaken ==
  ASSUME TypeOK, NEW c \in Conns, mbox[c] # <<>>, mbox' = [mbox EXCEPT ![c] = Tail(@)]
  PROVE  /\ mbox' \in [Conns -> Seq(Mail)]
         /\ Head(mbox[c]) \in Mail /\ Head(mbox[c]) \in Mails(c)
         /\ \A d \in Conns : Mails(d)' \subseteq Mails(d)
<1>1. mbox \in [Conns -> Seq(Mail)]
  BY DEF TypeOK
<1>2. mbox'[c] = Tail(mbox[c]) /\ mbox[c] \in Seq(Mail) /\ \A d \in Conns \ {c} : mbox'[d] = mbox[d]
  BY <1>1
<1>3. /\ Tail(mbox[c]) \in Seq(Mail) /\ Range(Tail(mbox[c])) \subseteq Range(mbox[c])
      /\ Head(mbox[c]) \in Mail /\ Head(mbox[c]) \in Range(mbox[c])
  BY <1>2, TailRange
<1> QED
  BY <1>1, <1>2, <1>3 DEF Mails

LEMMA RequestWritten ==
  ASSUME TypeOK, NEW c \in Conns, NEW r \in Request, sock' = [sock EXCEPT ![c] = Append(@, r)]
  PROVE  /\ sock' \in [Conns -> Seq(Request)]
         /\ Unread(c)' = Unread(c) \cup {r}
         /\ \A d \in Conns \ {c} : Unread(d)' = Unread(d)
<1>1. sock \in [Conns -> Seq(Request)]
  BY DEF TypeOK
<1>2. sock'[c] = Append(sock[c], r) /\ sock[c] \in Seq(Request) /\ \A d \in Conns \ {c} : sock'[d] = sock[d]
  BY <1>1
<1>3. Append(sock[c], r) \in Seq(Request) /\ Range(Append(sock[c], r)) = Range(sock[c]) \cup {r}
  BY <1>2, AppendRange
<1> QED
  BY <1>1, <1>2, <1>3 DEF Unread

LEMMA RequestRead ==
  ASSUME TypeOK, NEW c \in Conns, sock[c] # <<>>, sock' = [sock EXCEPT ![c] = Tail(@)]
  PROVE  /\ sock' \in [Conns -> Seq(Request)]
         /\ Head(sock[c]) \in Request /\ Head(sock[c]) \in Unread(c)
         /\ \A d \in Conns : Unread(d)' \subseteq Unread(d)
<1>1. sock \in [Conns -> Seq(Request)]
  BY DEF TypeOK
<1>2. sock'[c] = Tail(sock[c]) /\ sock[c] \in Seq(Request) /\ \A d \in Conns \ {c} : sock'[d] = sock[d]
  BY <1>1
<1>3. /\ Tail(sock[c]) \in Seq(Request) /\ Range(Tail(sock[c])) \subseteq Range(sock[c])
      /\ Head(sock[c]) \in Request /\ Head(sock[c]) \in Range(sock[c])
  BY <1>2, TailRange
<1> QED
  BY <1>1, <1>2, <1>3 DEF Unread

LEMMA CallTaken ==
  ASSUME TypeOK, regQ # <<>>, regQ' = Tail(regQ)
  PROVE  /\ regQ' \in Seq(RegMail)
         /\ Head(regQ) \in RegMail /\ Head(regQ) \in Calls
         /\ Calls' \subseteq Calls
<1>1. regQ \in Seq(RegMail)
  BY DEF TypeOK
<1> QED
  BY <1>1, TailRange DEF Calls

LEMMA CastSent ==
  ASSUME TypeOK, NEW x \in RegMail, regQ' = Append(regQ, x)
  PROVE  regQ' \in Seq(RegMail) /\ Calls' = Calls \cup {x}
<1>1. regQ \in Seq(RegMail)
  BY DEF TypeOK
<1> QED
  BY <1>1, AppendRange DEF Calls

(* The queues of a process that exits.                                     *)
LEMMA QueuesDropped ==
  ASSUME TypeOK, NEW c \in Conns,
         mbox' = [mbox EXCEPT ![c] = <<>>], sock' = [sock EXCEPT ![c] = <<>>]
  PROVE  /\ mbox' \in [Conns -> Seq(Mail)] /\ sock' \in [Conns -> Seq(Request)]
         /\ Mails(c)' = {} /\ Unread(c)' = {}
         /\ \A d \in Conns : Mails(d)' \subseteq Mails(d) /\ Unread(d)' \subseteq Unread(d)
<1>1. mbox \in [Conns -> Seq(Mail)] /\ sock \in [Conns -> Seq(Request)]
  BY DEF TypeOK
<1>2. /\ mbox'[c] = <<>> /\ \A d \in Conns \ {c} : mbox'[d] = mbox[d]
      /\ sock'[c] = <<>> /\ \A d \in Conns \ {c} : sock'[d] = sock[d]
  BY <1>1
<1>3. <<>> \in Seq(Mail) /\ <<>> \in Seq(Request)
  OBVIOUS
<1> QED
  BY <1>1, <1>2, <1>3, EmptyRange DEF Mails, Unread

-----------------------------------------------------------------------------
(* Every step keeps the types.                                             *)

LEMMA InitTyped == Init => Typed
<1> SUFFICES ASSUME Init PROVE Typed
  OBVIOUS
<1> USE DEF Init
<1>1. /\ <<>> \in Seq(Mail) /\ <<>> \in Seq(Request) /\ <<>> \in Seq(RegMail) /\ <<>> \in Seq(Msgs)
      /\ DOMAIN registry = {} /\ Len(regQ) = 0
  OBVIOUS
<1>2. TypeOK
  BY <1>1 DEF TypeOK, Tokens
<1>3. Calls = {} /\ \A c \in Conns : Mails(c) = {} /\ Unread(c) = {}
  BY EmptyRange DEF Calls, Mails, Unread
<1> QED
  BY <1>1, <1>2, <1>3
  DEF Typed, OwnRequests, PacketsAreWhole, HandlersAreWhole, HandlerIsWhole, CallsAreAwaited,
      ProcessesAreSpawned, Handling, Waiting

LEMMA UnchangedTyped == Typed /\ UNCHANGED vars => Typed'
<1> SUFFICES ASSUME Typed, UNCHANGED vars PROVE Typed'
  OBVIOUS
<1> USE DEF vars, procVars, inVars, regVars, dbVars, clientVars, histVars
<1>1. TypeOK'
  BY DEF Typed, TypeOK
<1>2. OwnRequests' /\ PacketsAreWhole'
  BY DEF Typed, OwnRequests, PacketsAreWhole, Mails, Unread, Waiting
<1>3. HandlersAreWhole'
  BY DEF Typed, HandlersAreWhole, HandlerIsWhole
<1>4. CallsAreAwaited'
  BY DEF Typed, CallsAreAwaited, CallOf, Push, Calls
<1> QED
  BY <1>1, <1>2, <1>3, <1>4 DEF Typed, ProcessesAreSpawned

(* The request a client sends.                                             *)
Waits == {"askedKey", "askedLogin", "askedMessages", "askedPubKey", "sending", "loggingOut"}

LEMMA RequestsFit ==
  ASSUME TypeOK, NEW c \in Conns, NEW r \in Requests(c)
  PROVE  /\ r[1] \in RequestTypes /\ r[2] \in Msgs \cup {Nobody}
         /\ r[1] \in {"send_message", "req_pub_key"} => r[2] \in Msgs \ sent /\ SentBy[r[2]] = c
         /\ r[3] \in Waits
BY DEF Requests, RequestTypes, Waits

LEMMA SendShape ==
  ASSUME TypeOK, NEW c \in Conns, ClientSends(c)
  PROVE  \E q \in Request, s \in Waits :
           /\ RequestOf(c, q) /\ q.id = tries[c] + 1 /\ q.token = tok[c]
           /\ sock' = [sock EXCEPT ![c] = Append(@, q)]
           /\ sent' = IF q.type = "send_message" THEN sent \cup {q.msg} ELSE sent
           /\ q.type = "send_message" => q.msg \notin sent
           /\ <<q.type, q.msg, s>> \in Requests(c) /\ cl' = [cl EXCEPT ![c] = s]
<1>1. PICK r \in Requests(c) :
        /\ sock' = [sock EXCEPT ![c] = Append(@, [type |-> r[1], id |-> tries[c] + 1,
                                                 token |-> tok[c], msg |-> r[2]])]
        /\ cl' = [cl EXCEPT ![c] = r[3]]
        /\ sent' = IF r[1] = "send_message" THEN sent \cup {r[2]} ELSE sent
  BY DEF ClientSends
<1> DEFINE q == [type |-> r[1], id |-> tries[c] + 1, token |-> tok[c], msg |-> r[2]]
<1>2. tries[c] \in Nat /\ tok[c] \in Tokens
  BY DEF TypeOK
<1>3. q \in Request /\ RequestOf(c, q)
  BY <1>2, RequestsFit, RequestFields DEF RequestOf
<1>4. r = <<r[1], r[2], r[3]>>
  BY DEF Requests
<1>5. q.type = "send_message" => q.msg \notin sent
  BY RequestsFit
<1>6. sock' = [sock EXCEPT ![c] = Append(@, q)]
  BY <1>1
<1>7. <<q.type, q.msg, r[3]>> \in Requests(c) /\ r[3] \in Waits
  BY <1>4, RequestsFit
<1> QED
  BY <1>1, <1>3, <1>5, <1>6, <1>7

LEMMA ClientSendsTyped ==
  ASSUME Typed, NEW c \in Conns, ClientSends(c)
  PROVE  Typed'
<1>1. TypeOK
  BY DEF Typed
<1>2. PICK q \in Request, s \in Waits :
        /\ RequestOf(c, q) /\ sock' = [sock EXCEPT ![c] = Append(@, q)]
        /\ sent' = IF q.type = "send_message" THEN sent \cup {q.msg} ELSE sent
        /\ <<q.type, q.msg, s>> \in Requests(c) /\ cl' = [cl EXCEPT ![c] = s]
  BY ZenonT(60), <1>1, SendShape
<1>3. /\ tries' = [tries EXCEPT ![c] = @ + 1]
      /\ UNCHANGED <<acc, hpc, job, answer, target, armed, mbox, regQ, registry, regUp,
                     accounts, token, stored, tok, acked, fetched, snapshot, pushedTo, got>>
  BY DEF ClientSends, procVars, regVars, dbVars, histVars
<1>4. (q.type = "send_message" => q.msg \in Msgs) /\ cl[c] # "off"
  BY <1>1, <1>2, RequestsFit DEF Requests, RequestOf
<1>5. /\ sock' \in [Conns -> Seq(Request)]
      /\ Unread(c)' = Unread(c) \cup {q} /\ \A d \in Conns \ {c} : Unread(d)' = Unread(d)
  BY <1>1, <1>2, RequestWritten
<1>6. TypeOK'
  <2>1. /\ sent' \subseteq Msgs /\ tries' \in [Conns -> Nat]
        /\ cl' \in [Conns -> {"off", "dialing", "hello", "askedKey", "haveKey", "askedLogin", "loggedIn",
                               "askedMessages", "in", "askedPubKey", "sending", "loggingOut", "closed"}]
    BY SMTT(30), <1>1, <1>2, <1>3, <1>4 DEF TypeOK, Waits
  <2> QED
    BY <1>1, <1>3, <1>5, <2>1 DEF TypeOK
<1>7. \A d \in Conns : Mails(d)' = Mails(d)
  BY <1>3 DEF Mails
<1>8. OwnRequests'
  BY <1>2, <1>5, <1>7, RequestsKept DEF Typed
<1>9. PacketsAreWhole'
  <2>1. tries'[c] # 0 /\ \A d \in Conns \ {c} : tries'[d] = tries[d] /\ (Waiting(d)' => Waiting(d))
    BY <1>1, <1>2, <1>3 DEF TypeOK, Waiting
  <2> QED
    BY <1>7, <2>1, PacketsKept DEF Typed
<1>10. HandlersAreWhole' /\ CallsAreAwaited'
  BY <1>3 DEF Typed, HandlersAreWhole, HandlerIsWhole, CallsAreAwaited, CallOf, Push, Calls
<1>11. ProcessesAreSpawned'
  BY <1>1, <1>2, <1>3, <1>4 DEF Typed, TypeOK, ProcessesAreSpawned, Waits
<1> QED
  BY <1>6, <1>8, <1>9, <1>10, <1>11 DEF Typed

LEMMA ClientStopsTyped ==
  ASSUME Typed, NEW c \in Conns, GiveUp(c) \/ ClientCloses(c)
  PROVE  Typed'
<1>1. /\ \E s \in {"hello", "in", "closed"} : cl' = [cl EXCEPT ![c] = s]
      /\ UNCHANGED <<acc, hpc, job, answer, target, sock, armed, mbox, regQ, registry, regUp,
                     accounts, token, stored, tries, tok, sent, acked, fetched, snapshot, pushedTo, got>>
  BY DEF GiveUp, ClientCloses, procVars, inVars, regVars, dbVars, histVars
<1>2. TypeOK'
  BY <1>1 DEF Typed, TypeOK
<1>3. \A d \in Conns : Waiting(d)' => Waiting(d)
  BY <1>1 DEF Typed, TypeOK, Waiting
<1>4. OwnRequests' /\ PacketsAreWhole'
  BY <1>1, <1>3 DEF Typed, OwnRequests, PacketsAreWhole, Mails, Unread
<1>5. HandlersAreWhole' /\ CallsAreAwaited'
  BY <1>1 DEF Typed, HandlersAreWhole, HandlerIsWhole, CallsAreAwaited, CallOf, Push, Calls
<1>6. ProcessesAreSpawned'
  BY <1>1 DEF Typed, TypeOK, ProcessesAreSpawned
<1> QED
  BY <1>2, <1>4, <1>5, <1>6 DEF Typed

LEMMA AcceptTyped ==
  ASSUME Typed, NEW c \in Conns, Accept(c)
  PROVE  Typed'
<1>1. /\ acc' = c /\ cl[c] = "off"
      /\ cl' = [cl EXCEPT ![c] = "dialing"]
      /\ hpc' = [hpc EXCEPT ![c] = "serve"]
      /\ mbox' = [mbox EXCEPT ![c] = <<[kind |-> "send_data", body |-> Handshake]>>]
      /\ UNCHANGED <<job, answer, target, sock, armed, regQ, registry, regUp, accounts, token,
                     stored, tries, tok, sent, acked, fetched, snapshot, pushedTo, got>>
  BY DEF Accept, regVars, dbVars, histVars
<1>2. <<[kind |-> "send_data", body |-> Handshake]>> \in Seq(Mail)
  BY MailFields, PacketFields
<1>3. TypeOK'
  BY <1>1, <1>2 DEF Typed, TypeOK
<1>4. hpc[c] = "off" /\ OthersKept(c)
  BY <1>1 DEF Typed, TypeOK, ProcessesAreSpawned, OthersKept
<1>5. Mails(c)' = {[kind |-> "send_data", body |-> Handshake]} /\ \A d \in Conns \ {c} : Mails(d)' = Mails(d)
  BY <1>1 DEF Typed, TypeOK, Mails, Range
<1>6. \A d \in Conns : Unread(d)' = Unread(d)
  BY <1>1 DEF Unread
<1>7. OwnRequests'
  BY <1>5, <1>6, RequestsKept DEF Typed
<1>8. PacketsAreWhole'
  <2>1. \A d \in Conns : Waiting(d)' => Waiting(d) /\ tries'[d] = tries[d]
    BY <1>1 DEF Typed, TypeOK, Waiting
  <2> QED
    BY <1>5, <2>1, PacketFields, PacketsKept DEF Typed
<1>9. HandlersAreWhole'
  <2>1. HandlerIsWhole(c)'
    BY <1>1 DEF Typed, TypeOK, HandlerIsWhole, Handling
  <2> QED
    BY <1>4, <2>1, HandlersKept DEF Typed
<1>10. CallsAreAwaited'
  BY <1>1, <1>4, CallsKept DEF Calling
<1>11. ProcessesAreSpawned'
  BY <1>1 DEF Typed, TypeOK, ProcessesAreSpawned
<1> QED
  BY <1>3, <1>7, <1>8, <1>9, <1>10, <1>11 DEF Typed

LEMMA AnnounceTyped ==
  ASSUME Typed, Announce
  PROVE  Typed'
<1>1. /\ acc \in Conns /\ regQ' = Append(regQ, [op |-> "add", conn |-> acc]) /\ acc' = Nobody
      /\ UNCHANGED <<hpc, job, answer, target, sock, armed, mbox, registry, regUp, accounts, token,
                     stored, cl, tries, tok, sent, acked, fetched, snapshot, pushedTo, got>>
  BY DEF Typed, TypeOK, Announce, procVars, inVars, dbVars, clientVars, histVars
<1>2. [op |-> "add", conn |-> acc] \in RegMail /\ ~IsCall([op |-> "add", conn |-> acc])
  BY <1>1, RegMailFields DEF IsCall
<1>3. TypeOK'
  BY <1>1, <1>2, CastSent DEF Typed, TypeOK
<1>4. OwnRequests' /\ PacketsAreWhole' /\ HandlersAreWhole' /\ ProcessesAreSpawned'
  BY <1>1 DEF Typed, OwnRequests, PacketsAreWhole, Mails, Unread, Waiting, HandlersAreWhole, HandlerIsWhole,
              ProcessesAreSpawned
<1>5. CallsAreAwaited'
  BY <1>1, <1>2, CallsKept DEF procVars
<1> QED
  BY <1>3, <1>4, <1>5 DEF Typed

LEMMA SocketShape ==
  ASSUME TypeOK, NEW c \in Conns, SocketDelivers(c)
  PROVE  \E x \in Mail :
           /\ mbox' = [mbox EXCEPT ![c] = Append(@, x)]
           /\ x.kind # "send_data" /\ (x.kind = "tcp" => x.body \in Unread(c))
           /\ sock' \in [Conns -> Seq(Request)] /\ \A d \in Conns : Unread(d)' \subseteq Unread(d)
<1>1. CASE sock[c] # <<>> /\ mbox' = [mbox EXCEPT ![c] = Append(@, [kind |-> "tcp", body |-> Head(sock[c])])]
           /\ sock' = [sock EXCEPT ![c] = Tail(@)]
  BY <1>1, RequestRead, MailFields
<1>2. CASE mbox' = [mbox EXCEPT ![c] = Append(@, [kind |-> "tcp_closed"])] /\ UNCHANGED sock
  BY <1>2, MailFields DEF Unread, TypeOK
<1> QED
  BY <1>1, <1>2 DEF SocketDelivers

LEMMA SocketDeliversTyped ==
  ASSUME Typed, NEW c \in Conns, SocketDelivers(c)
  PROVE  Typed'
<1>1. /\ armed' = [armed EXCEPT ![c] = FALSE] /\ hpc[c] \notin {"off", "dead"}
      /\ UNCHANGED <<acc, hpc, job, answer, target, regQ, registry, regUp, accounts, token, stored,
                     cl, tries, tok, sent, acked, fetched, snapshot, pushedTo, got>>
  BY DEF SocketDelivers, procVars, regVars, dbVars, clientVars, histVars
<1>2. TypeOK
  BY DEF Typed
<1>3. PICK x \in Mail :
        /\ mbox' = [mbox EXCEPT ![c] = Append(@, x)]
        /\ x.kind # "send_data" /\ (x.kind = "tcp" => x.body \in Unread(c))
        /\ sock' \in [Conns -> Seq(Request)] /\ \A d \in Conns : Unread(d)' \subseteq Unread(d)
  BY <1>2, SocketShape
<1>4. /\ mbox' \in [Conns -> Seq(Mail)]
      /\ Mails(c)' = Mails(c) \cup {x} /\ \A d \in Conns \ {c} : Mails(d)' = Mails(d)
  BY <1>2, <1>3, MailArrives
<1>5. TypeOK'
  BY <1>1, <1>2, <1>3, <1>4 DEF TypeOK
<1>6. OwnRequests'
  BY <1>3, <1>4, RequestsKept DEF Typed
<1>7. PacketsAreWhole'
  BY <1>1, <1>3, <1>4, PacketsKept DEF Typed, Waiting
<1>8. HandlersAreWhole' /\ CallsAreAwaited' /\ ProcessesAreSpawned'
  BY <1>1 DEF Typed, HandlersAreWhole, HandlerIsWhole, CallsAreAwaited, CallOf, Push, Calls, ProcessesAreSpawned
<1> QED
  BY <1>5, <1>6, <1>7, <1>8 DEF Typed

-----------------------------------------------------------------------------
(* A packet is written.                                                    *)

LEMMA ReceivesTyped ==
  ASSUME TypeOK, NEW c \in Conns, NEW p \in Packet, WholePacket(p), Receives(c, p)
  PROVE  /\ \E s \in {cl[c], "hello", "in", "haveKey", "loggedIn"} : cl' = [cl EXCEPT ![c] = s]
         /\ tok' \in [Conns -> Tokens]
         /\ acked' \subseteq Msgs
         /\ got' \in [Conns -> Seq(Msgs)]
         /\ cl'[c] # cl[c] => cl[c] # "off"
<1>1. \E s \in {cl[c], "hello", "in", "haveKey", "loggedIn"} : cl' = [cl EXCEPT ![c] = s]
  BY Zenon DEF Receives
<1>2. tok' \in [Conns -> Tokens]
  BY PacketFields DEF Receives, TypeOK, Tokens
<1>3. acked' \subseteq Msgs
  BY PacketFields DEF Receives, TypeOK
<1>4. got' \in [Conns -> Seq(Msgs)]
  <2>1. CASE p.type = "recv_message"
    <3>1. PICK m \in Msgs : p.msgs = {m}
      BY <2>1 DEF WholePacket
    <3>2. (CHOOSE n \in p.msgs : TRUE) = m
      BY <3>1
    <3>3. Append(got[c], m) \in Seq(Msgs)
      BY DEF TypeOK
    <3> QED
      BY <3>2, <3>3 DEF Receives, TypeOK
  <2>2. CASE p.type # "recv_message"
    BY <2>2 DEF Receives, TypeOK
  <2> QED
    BY <2>1, <2>2
<1>5. cl'[c] # cl[c] => cl[c] # "off"
  BY DEF Receives, TypeOK, Answers, Waiting
<1> QED
  BY <1>1, <1>2, <1>3, <1>4, <1>5

LEMMA SendDataTyped ==
  ASSUME Typed, NEW c \in Conns, SendData(c)
  PROVE  Typed'
<1> DEFINE x == Head(mbox[c])
<1>1. /\ NextMail(c, "send_data") /\ hpc[c] = "serve" /\ mbox[c] # <<>> /\ x.kind = "send_data"
      /\ Receives(c, x.body)
      /\ hpc' = [hpc EXCEPT ![c] = "serve"] /\ armed' = [armed EXCEPT ![c] = TRUE]
      /\ mbox' = [mbox EXCEPT ![c] = Tail(@)]
      /\ UNCHANGED <<acc, job, answer, target, sock, regQ, registry, regUp, accounts, token, stored,
                     tries, sent, fetched, snapshot, pushedTo>>
  BY DEF SendData, NextMail, Serve, regVars, dbVars
<1>2. TypeOK /\ x \in Mail /\ x \in Mails(c) /\ mbox' \in [Conns -> Seq(Mail)]
      /\ \A d \in Conns : Mails(d)' \subseteq Mails(d)
  BY <1>1, MailTaken DEF Typed
<1>3. x.body \in Packet /\ WholePacket(x.body)
  BY <1>1, <1>2, MailFields DEF Typed, PacketsAreWhole
<1> HIDE DEF x
<1>4. PICK s \in {cl[c], "hello", "in", "haveKey", "loggedIn"} : cl' = [cl EXCEPT ![c] = s]
  BY <1>1, <1>2, <1>3, ReceivesTyped
<1>5. tok' \in [Conns -> Tokens] /\ acked' \subseteq Msgs /\ got' \in [Conns -> Seq(Msgs)]
  BY <1>1, <1>2, <1>3, ReceivesTyped
<1>6. TypeOK'
  BY <1>1, <1>2, <1>4, <1>5 DEF TypeOK
<1>7. OwnRequests'
  BY <1>1, <1>2, RequestsKept DEF Typed, Unread
<1>8. PacketsAreWhole'
  <2>1. \A d \in Conns : Waiting(d)' => Waiting(d) /\ tries'[d] = tries[d]
    BY <1>1, <1>2, <1>4 DEF TypeOK, Waiting
  <2> QED
    BY <1>2, <2>1, PacketsKept DEF Typed
<1>9. OthersKept(c) /\ UNCHANGED hpc
  BY <1>1 DEF Typed, TypeOK, OthersKept
<1>10. HandlersAreWhole' /\ CallsAreAwaited'
  BY <1>1, <1>9 DEF Typed, HandlersAreWhole, HandlerIsWhole, CallsAreAwaited, CallOf, Push, Calls
<1>11. ProcessesAreSpawned'
  BY <1>1, <1>4, <1>9 DEF Typed, TypeOK, ProcessesAreSpawned
<1> QED
  BY <1>6, <1>7, <1>8, <1>10, <1>11 DEF Typed

-----------------------------------------------------------------------------
(* A process exits.                                                        *)

Dies(c) == SendDataFails(c) \/ TcpClosed(c) \/ HandlerCrashes(c)

Exits(c) ==
  /\ hpc[c] = "serve" /\ mbox[c] # <<>>
  /\ hpc' = [hpc EXCEPT ![c] = "dead"]
  /\ mbox' = [mbox EXCEPT ![c] = <<>>] /\ sock' = [sock EXCEPT ![c] = <<>>]
  /\ armed' = [armed EXCEPT ![c] = FALSE]
  /\ regQ' = regQ \/ regQ' = Append(regQ, [op |-> "remove", conn |-> c])
  /\ UNCHANGED <<acc, job, answer, target, registry, regUp, accounts, token, stored,
                 cl, tries, tok, sent, acked, fetched, snapshot, pushedTo, got>>

LEMMA DiesShape == \A c \in Conns : Dies(c) => Exits(c)
BY DEF Dies, Exits, SendDataFails, TcpClosed, HandlerCrashes, NextMail, Die, regVars, dbVars, clientVars, histVars

LEMMA DiesTyped ==
  ASSUME Typed, NEW c \in Conns, Dies(c)
  PROVE  Typed'
<1>1. TypeOK /\ Exits(c)
  BY DiesShape DEF Typed
<1>2. /\ mbox' \in [Conns -> Seq(Mail)] /\ sock' \in [Conns -> Seq(Request)]
      /\ \A d \in Conns : Mails(d)' \subseteq Mails(d) /\ Unread(d)' \subseteq Unread(d)
  BY <1>1, QueuesDropped DEF Exits
<1>3. [op |-> "remove", conn |-> c] \in RegMail /\ ~IsCall([op |-> "remove", conn |-> c])
  BY RegMailFields DEF IsCall
<1>4. TypeOK'
  <2>1. regQ' \in Seq(RegMail)
    BY <1>1, <1>3, CastSent DEF TypeOK, Exits
  <2> QED
    BY <1>1, <1>2, <2>1 DEF TypeOK, Exits
<1>5. OwnRequests'
  BY <1>2, RequestsKept DEF Typed
<1>6. PacketsAreWhole'
  <2>1. \A d \in Conns : Waiting(d)' => Waiting(d) /\ tries'[d] = tries[d]
    BY <1>1 DEF Waiting, Exits
  <2> QED
    BY <1>2, <2>1, PacketsKept DEF Typed
<1>7. OthersKept(c)
  BY <1>1 DEF TypeOK, OthersKept, Exits
<1>8. HandlersAreWhole'
  <2>1. hpc'[c] = "dead"
    BY <1>1 DEF TypeOK, Exits
  <2>2. HandlerIsWhole(c)'
    BY <2>1 DEF HandlerIsWhole, Handling
  <2> QED
    BY <1>7, <2>2, HandlersKept DEF Typed
<1>9. CallsAreAwaited'
  BY <1>1, <1>3, <1>7, CallsKept DEF Calling, Exits
<1>10. ProcessesAreSpawned'
  BY <1>1 DEF Typed, TypeOK, ProcessesAreSpawned, Exits
<1> QED
  BY <1>4, <1>5, <1>6, <1>8, <1>9, <1>10 DEF Typed

-----------------------------------------------------------------------------
(* A handler takes up a request.                                           *)

Handler(c) ==
  \/ Unauthorised(c) \/ ReqKey(c) \/ ReqLogin(c) \/ LoginFails(c) \/ ReqSignup(c) \/ SignupFails(c)
  \/ ReqMessages(c) \/ SendMessage(c) \/ ReqPubKey(c) \/ ReqLogout(c)

Fetches(c) ==
  /\ snapshot' = [snapshot EXCEPT ![c] = {m \in Msgs : IsStored(m) /\ To[m] = Owner[c]}]
  /\ fetched' = fetched \cup {c}

(* The request r is answered with p; what is to be done before the answer  *)
(* is given.                                                               *)
TakesUp(c, r, p, stage) ==
  /\ hpc[c] = "serve" /\ mbox[c] # <<>>
  /\ Head(mbox[c]).kind = "tcp" /\ Head(mbox[c]).body = r
  /\ p.type \in {r.type, "error"} /\ p.id = r.id
  /\ p.type = "send_message" => p.msgs = {r.msg} /\ To[r.msg] \in accounts
  /\ stage = "insert" <=> p.type = "send_message"
  /\ stage = "announce" => r.type \in {"req_login", "req_signup", "req_logout"}
  /\ hpc' = [hpc EXCEPT ![c] = stage]
  /\ job' = [job EXCEPT ![c] = r]
  /\ answer' = [answer EXCEPT ![c] = p]
  /\ mbox' = [mbox EXCEPT ![c] = Tail(@)]
  /\ (r.type = "req_messages" /\ Fetches(c)) \/ UNCHANGED <<fetched, snapshot>>
  /\ UNCHANGED <<acc, target, sock, armed, regQ, registry, regUp, stored,
                 cl, tries, tok, sent, acked, pushedTo, got>>

LEMMA HandlerShape ==
  ASSUME Typed, NEW c \in Conns, Handler(c)
  PROVE  /\ \E r \in Request, p \in Packet, stage \in {"announce", "insert", "reply"} :
              RequestOf(c, r) /\ TakesUp(c, r, p, stage)
         /\ accounts' \subseteq Users /\ token' \in [Users -> Tokens]
<1> DEFINE x == Head(mbox[c])
           r == x.body
<1>1. /\ TypeOK /\ NextMail(c, "tcp") /\ hpc[c] = "serve" /\ mbox[c] # <<>> /\ x.kind = "tcp"
      /\ job' = [job EXCEPT ![c] = r] /\ mbox' = [mbox EXCEPT ![c] = Tail(@)]
      /\ UNCHANGED <<acc, target, sock, armed, regQ, registry, regUp, stored,
                     cl, tries, tok, sent, acked, pushedTo, got>>
  BY DEF Typed, Handler, Unauthorised, ReqKey, ReqLogin, LoginFails, ReqSignup, SignupFails, ReqMessages,
         SendMessage, ReqPubKey, ReqLogout, Take, NextMail, regVars, dbVars, clientVars, histVars
<1>2. x \in Mail /\ x \in Mails(c)
  BY <1>1, MailTaken
<1>3. r \in Request /\ RequestOf(c, r)
  BY <1>1, <1>2, MailFields DEF Typed, OwnRequests
<1>4. /\ r.id \in Nat /\ r.type \in RequestTypes /\ r.msg \in Msgs \cup {Nobody}
      /\ Owner[c] \in Users /\ <<c, r.id>> \in Tokens
  BY <1>3, RequestFields, OwnerAssumption DEF Tokens
<1>5. ASSUME NEW t, NEW M \in SUBSET Msgs, NEW stage \in {"announce", "insert", "reply"},
             AnswerWith(c, t, M), Goto(c, stage), t \in {r.type, "error"},
             t = "send_message" => M = {r.msg} /\ To[r.msg] \in accounts,
             stage = "insert" <=> t = "send_message",
             stage = "announce" => r.type \in {"req_login", "req_signup", "req_logout"},
             (r.type = "req_messages" /\ Fetches(c)) \/ UNCHANGED <<fetched, snapshot>>
      PROVE  \E q \in Request, p \in Packet, s \in {"announce", "insert", "reply"} :
               RequestOf(c, q) /\ TakesUp(c, q, p, s)
  <2> DEFINE p == [type |-> t, id |-> r.id, msgs |-> M]
  <2>1. p \in Packet
    BY <1>4, <1>5, PacketFields
  <2>2. TakesUp(c, r, p, stage)
    BY <1>1, <1>5 DEF TakesUp, AnswerWith, Goto
  <2> QED
    BY <1>3, <2>1, <2>2
<1> HIDE DEF x, r
<1> USE <1>1, <1>4, <1>5 DEF Take, x, r
<1>6. CASE Unauthorised(c)
  BY <1>6 DEF Unauthorised, TypeOK, dbVars, histVars
<1>7. CASE ReqKey(c)
  BY <1>7 DEF ReqKey, TypeOK, dbVars, histVars
<1>8. CASE ReqLogin(c)
  BY <1>8 DEF ReqLogin, TypeOK, dbVars, histVars
<1>9. CASE LoginFails(c)
  BY <1>9 DEF LoginFails, TypeOK, dbVars, histVars, Tokens
<1>10. CASE ReqSignup(c)
  BY <1>10 DEF ReqSignup, TypeOK, dbVars, histVars
<1>11. CASE SignupFails(c)
  BY <1>11 DEF SignupFails, TypeOK, dbVars, histVars
<1>12. CASE ReqMessages(c)
  BY <1>12 DEF ReqMessages, TypeOK, dbVars, histVars, Fetches
<1>13. CASE SendMessage(c)
  BY ZenonT(60), <1>3, <1>13 DEF SendMessage, TypeOK, dbVars, histVars, RequestOf
<1>14. CASE ReqPubKey(c)
  BY <1>14 DEF ReqPubKey, TypeOK, dbVars, histVars
<1>15. CASE ReqLogout(c)
  BY <1>15 DEF ReqLogout, TypeOK, dbVars, histVars
<1> QED
  BY <1>6, <1>7, <1>8, <1>9, <1>10, <1>11, <1>12, <1>13, <1>14, <1>15 DEF Handler

LEMMA HandlerTyped ==
  ASSUME Typed, NEW c \in Conns, Handler(c)
  PROVE  Typed'
<1>1. PICK r \in Request, p \in Packet, stage \in {"announce", "insert", "reply"} :
        RequestOf(c, r) /\ TakesUp(c, r, p, stage)
  BY HandlerShape
<1>2. accounts' \subseteq Users /\ token' \in [Users -> Tokens]
  BY HandlerShape
<1>3. /\ TypeOK /\ mbox' \in [Conns -> Seq(Mail)]
      /\ \A d \in Conns : Mails(d)' \subseteq Mails(d) /\ Unread(d)' = Unread(d)
  BY <1>1, MailTaken DEF Typed, TakesUp, Unread
<1>4. TypeOK'
  <2>1. fetched' \subseteq Conns /\ snapshot' \in [Conns -> SUBSET Msgs]
    <3>1. Fetches(c) \/ UNCHANGED <<fetched, snapshot>>
      BY <1>1 DEF TakesUp
    <3>2. fetched \subseteq Conns /\ snapshot \in [Conns -> SUBSET Msgs]
      BY <1>3 DEF TypeOK
    <3> QED
      BY <3>1, <3>2 DEF Fetches
  <2> QED
    BY <1>1, <1>2, <1>3, <2>1 DEF TypeOK, TakesUp
<1>5. OwnRequests'
  BY <1>3, RequestsKept DEF Typed
<1>6. PacketsAreWhole'
  <2>1. \A d \in Conns : Waiting(d)' => Waiting(d) /\ tries'[d] = tries[d]
    BY <1>1 DEF Waiting, TakesUp
  <2> QED
    BY <1>3, <2>1, PacketsKept DEF Typed
<1>7. OthersKept(c) /\ hpc'[c] = stage /\ job'[c] = r /\ answer'[c] = p /\ hpc[c] = "serve" /\ regQ' = regQ
  BY <1>1, <1>3 DEF TypeOK, OthersKept, TakesUp
<1>8. HandlersAreWhole'
  <2>1. HandlerIsWhole(c)'
    BY <1>1, <1>3, <1>7 DEF HandlerIsWhole, TakesUp, TypeOK
  <2> QED
    BY <1>7, <2>1, HandlersKept DEF Typed
<1>9. CallsAreAwaited'
  BY <1>7, CallsKept DEF Calling
<1>10. ProcessesAreSpawned'
  BY <1>1, <1>3, <1>7 DEF Typed, TypeOK, ProcessesAreSpawned, TakesUp
<1> QED
  BY <1>3, <1>4, <1>5, <1>6, <1>8, <1>9, <1>10 DEF Typed

-----------------------------------------------------------------------------
(* A handler goes on.                                                      *)

Advances(c, from, to) ==
  /\ hpc[c] = from /\ hpc' = [hpc EXCEPT ![c] = to]
  /\ UNCHANGED <<acc, job, answer, target, sock, armed, mbox, registry, regUp, accounts, token,
                 cl, tries, tok, sent, acked, fetched, snapshot, got>>

LEMMA AdvanceShape ==
  \A c \in Conns :
    /\ UpdateConnection(c) => Advances(c, "announce", "reply") /\ UNCHANGED <<stored, pushedTo>>
    /\ InsertMessage(c) => Advances(c, "insert", "reply") /\ UNCHANGED <<regQ, pushedTo>>
    /\ CallReply(c) => Advances(c, "reply", "replied") /\ UNCHANGED <<stored, pushedTo>>
    /\ CallLookup(c) => Advances(c, "lookup", "asked") /\ UNCHANGED <<stored, pushedTo>>
    /\ CallPush(c) => Advances(c, "push", "pushing") /\ UNCHANGED stored
BY DEF UpdateConnection, InsertMessage, CallReply, CallLookup, CallPush, Advances, Goto,
       inVars, regVars, dbVars, clientVars, histVars

LEMMA AdvanceTyped ==
  ASSUME Typed, NEW c \in Conns, NEW from \in Handling, NEW to \in Handling, Advances(c, from, to),
         to \in {"insert", "lookup", "asked", "push", "pushing"} => answer[c].type = "send_message",
         to \in {"push", "pushing"} => target[c] \in Conns, to # "announce",
         regQ' \in Seq(RegMail), stored' \in Seq(Msgs), pushedTo' \in [Msgs -> Conns \cup {Nobody}],
         CallsAreAwaited'
  PROVE  Typed'
<1>1. TypeOK /\ OthersKept(c) /\ hpc'[c] = to /\ hpc[c] = from
      /\ UNCHANGED <<job, answer, target, sock, mbox, cl, tries>>
  BY DEF Typed, TypeOK, Advances, OthersKept
<1>2. TypeOK'
  BY <1>1 DEF TypeOK, Advances, Handling
<1>3. OwnRequests' /\ PacketsAreWhole'
  BY <1>1 DEF Typed, OwnRequests, PacketsAreWhole, Mails, Unread, Waiting
<1>4. HandlersAreWhole'
  <2>1. HandlerIsWhole(c)'
    BY <1>1 DEF Typed, HandlersAreWhole, HandlerIsWhole
  <2> QED
    BY <1>1, <2>1, HandlersKept DEF Typed
<1>5. ProcessesAreSpawned'
  BY <1>1 DEF Typed, TypeOK, ProcessesAreSpawned, OthersKept, Handling
<1> QED
  BY <1>2, <1>3, <1>4, <1>5 DEF Typed

LEMMA GoesOnTyped ==
  ASSUME Typed, NEW c \in Conns,
         UpdateConnection(c) \/ InsertMessage(c) \/ CallReply(c) \/ CallLookup(c) \/ CallPush(c)
  PROVE  Typed'
<1>1. /\ TypeOK /\ HandlerIsWhole(c) /\ regQ \in Seq(RegMail) /\ stored \in Seq(Msgs)
      /\ pushedTo \in [Msgs -> Conns \cup {Nobody}] /\ Owner[c] \in Users
  BY OwnerAssumption DEF Typed, TypeOK, HandlersAreWhole
<1>2. ASSUME NEW from, NEW to, Advances(c, from, to)
      PROVE  /\ OthersKept(c) /\ hpc[c] = from /\ hpc'[c] = to
             /\ UNCHANGED <<job, answer, target>>
  BY <1>1, <1>2 DEF TypeOK, Advances, OthersKept
<1>3. CASE UpdateConnection(c)
  <2> DEFINE x == [op |-> "update", conn |-> c, user |-> IF job[c].type = "req_logout" THEN Nobody ELSE Owner[c]]
  <2>1. Advances(c, "announce", "reply") /\ regQ' = Append(regQ, x) /\ UNCHANGED <<stored, pushedTo>>
    BY <1>3, AdvanceShape DEF UpdateConnection
  <2>2. x \in RegMail /\ ~IsCall(x)
    BY <1>1, RegMailFields DEF IsCall
  <2>3. CallsAreAwaited'
    BY <1>2, <2>1, <2>2, CallsKept DEF Calling
  <2> QED
    BY <1>1, <2>1, <2>2, <2>3, CastSent, AdvanceTyped DEF Handling
<1>4. CASE InsertMessage(c)
  <2>1. Advances(c, "insert", "reply") /\ UNCHANGED <<regQ, pushedTo>> /\ stored' = Append(stored, job[c].msg)
    BY <1>4, AdvanceShape DEF InsertMessage
  <2>2. job[c].msg \in Msgs
    BY <1>1, <1>2, <2>1 DEF HandlerIsWhole, Handling, RequestOf
  <2>3. stored' \in Seq(Msgs)
    BY <1>1, <2>1, <2>2
  <2>4. CallsAreAwaited'
    BY <1>2, <2>1, CallsKept DEF Calling
  <2> QED
    BY <1>1, <2>1, <2>3, <2>4, AdvanceTyped DEF Handling
<1>5. CASE CallReply(c)
  <2> DEFINE x == [op |-> "send_data", from |-> c, conn |-> c, body |-> answer[c]]
  <2>1. Advances(c, "reply", "replied") /\ regQ' = Append(regQ, x) /\ UNCHANGED <<stored, pushedTo>>
    BY <1>5, AdvanceShape DEF CallReply
  <2>2. x \in RegMail /\ IsCall(x)
    BY <1>1, <1>2, <2>1, RegMailFields DEF IsCall, HandlerIsWhole, Handling
  <2>3. CallOf(x)'
    BY <1>2, <2>1 DEF CallOf
  <2>4. CallsAreAwaited'
    BY <1>2, <2>1, <2>2, <2>3, CallsMade DEF Calling
  <2> QED
    BY <1>1, <2>1, <2>2, <2>4, CastSent, AdvanceTyped DEF Handling
<1>6. CASE CallLookup(c)
  <2> DEFINE x == [op |-> "get_connection_uuid", from |-> c, user |-> To[job[c].msg]]
  <2>1. Advances(c, "lookup", "asked") /\ regQ' = Append(regQ, x) /\ UNCHANGED <<stored, pushedTo>>
    BY <1>6, AdvanceShape DEF CallLookup
  <2>2. answer[c].type = "send_message" /\ To[job[c].msg] \in Users
    BY <1>1, <1>2, <2>1 DEF HandlerIsWhole, Handling
  <2>3. x \in RegMail /\ IsCall(x)
    BY <2>2, RegMailFields DEF IsCall
  <2>4. CallOf(x)'
    BY <1>2, <2>1 DEF CallOf
  <2>5. CallsAreAwaited'
    BY <1>2, <2>1, <2>3, <2>4, CallsMade DEF Calling
  <2> QED
    BY <1>1, <2>1, <2>2, <2>3, <2>5, CastSent, AdvanceTyped DEF Handling
<1>7. CASE CallPush(c)
  <2> DEFINE x == [op |-> "send_data", from |-> c, conn |-> target[c], body |-> Push(c)]
  <2>1. /\ Advances(c, "push", "pushing") /\ UNCHANGED stored /\ regQ' = Append(regQ, x)
        /\ pushedTo' = [pushedTo EXCEPT ![job[c].msg] = target[c]]
    BY <1>7, AdvanceShape DEF CallPush, Push
  <2>2. answer[c].type = "send_message" /\ job[c].msg \in Msgs /\ job[c] \in Request /\ target[c] \in Conns
    BY <1>1, <1>2, <2>1 DEF HandlerIsWhole, Handling, RequestOf
  <2>3. Push(c) \in Packet
    BY <2>2, PacketFields, RequestFields DEF Push
  <2>4. x \in RegMail /\ IsCall(x)
    BY <2>2, <2>3, RegMailFields DEF IsCall
  <2>5. PICK y \in RegMail : y = x
    BY <2>4
  <2>6. CallsAreAwaited'
    <3>1. hpc[c] \notin Calling /\ OthersKept(c)
      BY <1>2, <2>1 DEF Calling
    <3>2. y.op = "send_data" /\ y.from = c /\ y.conn = target'[c] /\ y.body = Push(c)' /\ hpc'[c] = "pushing"
      BY <1>2, <2>1, <2>5 DEF Push
    <3>3. CallOf(y)'
      BY <3>2 DEF CallOf
    <3> QED
      BY <2>1, <2>4, <2>5, <3>1, <3>2, <3>3, CallsMade
  <2>7. pushedTo' \in [Msgs -> Conns \cup {Nobody}]
    BY <1>1, <2>1, <2>2
  <2> QED
    BY <1>1, <2>1, <2>2, <2>4, <2>6, <2>7, CastSent, AdvanceTyped DEF Handling
<1> QED
  BY <1>3, <1>4, <1>5, <1>6, <1>7

-----------------------------------------------------------------------------
(* The registry's own book-keeping.                                        *)

LEMMA BookkeepingTyped ==
  ASSUME Typed, AddConnection \/ RemoveConnection \/ SetUser
  PROVE  Typed'
<1> DEFINE x == Head(regQ)
<1>1. /\ TypeOK /\ regQ # <<>> /\ regQ' = Tail(regQ) /\ x.op \in {"add", "remove", "update"}
      /\ UNCHANGED <<acc, hpc, job, answer, target, sock, armed, mbox, accounts, token, stored,
                     cl, tries, tok, sent, acked, fetched, snapshot, pushedTo, got>>
  BY DEF Typed, AddConnection, RemoveConnection, SetUser, NextReg, procVars, inVars, dbVars, clientVars, histVars
<1>2. regQ' \in Seq(RegMail) /\ x \in RegMail
  BY <1>1, CallTaken
<1>3. DOMAIN registry' \subseteq Conns /\ \A c \in DOMAIN registry' : registry'[c] \in Users \cup {Nobody}
  <2>1. CASE AddConnection
    BY <1>1, <1>2, <2>1, RegMailFields DEF AddConnection, NextReg, TypeOK
  <2>2. CASE RemoveConnection
    BY <1>1, <1>2, <2>2, RegMailFields DEF RemoveConnection, NextReg, TypeOK
  <2>3. CASE SetUser
    BY <1>1, <1>2, <2>3, RegMailFields DEF SetUser, NextReg, TypeOK
  <2> QED
    BY <2>1, <2>2, <2>3
<1>4. regUp' \in BOOLEAN
  <2>1. regUp \in BOOLEAN
    BY <1>1 DEF TypeOK
  <2>2. CASE AddConnection \/ RemoveConnection
    <3>1. regUp' = regUp
      BY <2>2, Zenon DEF AddConnection, RemoveConnection
    <3> QED
      BY <2>1, <3>1, Zenon
  <2>3. CASE SetUser
    BY <2>3, SMT DEF SetUser
  <2> QED
    BY <2>2, <2>3
<1>5. TypeOK'
  BY <1>1, <1>2, <1>3, <1>4 DEF TypeOK
<1>6. OwnRequests' /\ PacketsAreWhole' /\ HandlersAreWhole' /\ ProcessesAreSpawned'
  BY <1>1 DEF Typed, OwnRequests, PacketsAreWhole, Mails, Unread, Waiting, HandlersAreWhole, HandlerIsWhole,
              ProcessesAreSpawned
<1>7. CallsAreAwaited'
  BY <1>1, CallsTaken DEF procVars
<1> QED
  BY <1>5, <1>6, <1>7 DEF Typed

(* A caller gets its reply.                                                *)

(* The call the registry answers.                                          *)
LEMMA CallServed ==
  ASSUME Typed, regQ # <<>>, IsCall(Head(regQ))
  PROVE  LET r == Head(regQ) IN
         /\ r \in RegMail /\ r.from \in Conns /\ HandlerIsWhole(r.from) /\ CallOf(r)
         /\ r.op = "get_connection_uuid" => hpc[r.from] = "asked" /\ r.user = To[job[r.from].msg]
         /\ r.op = "send_data" =>
              /\ r.conn \in Conns /\ r.body \in Packet
              /\ \/ hpc[r.from] = "replied" /\ r.conn = r.from /\ r.body = answer[r.from]
                 \/ hpc[r.from] = "pushing" /\ r.conn = target[r.from] /\ r.body = Push(r.from)
<1> DEFINE r == Head(regQ)
<1>1. r \in RegMail /\ r \in Calls
  BY TailRange DEF Typed, Calls, TypeOK
<1> QED
  BY <1>1, RegMailFields DEF Typed, CallsAreAwaited, HandlersAreWhole, IsCall, CallOf

LEMMA ReplyTyped ==
  ASSUME Typed, regQ # <<>>, IsCall(Head(regQ)), regQ' = Tail(regQ),
         UNCHANGED <<acc, sock, registry, regUp, accounts, token, stored,
                     cl, tries, tok, sent, acked, fetched, snapshot, pushedTo, got>>,
         NEW c \in Conns, c = Head(regQ).from,
         \/ Done(c)
         \/ Goto(c, "lookup") /\ answer[c].type = "send_message" /\ UNCHANGED <<armed, job, answer, target>>
         \/ /\ Goto(c, "push") /\ answer[c].type = "send_message" /\ UNCHANGED <<armed, job, answer>>
            /\ \E d \in Conns : target' = [target EXCEPT ![c] = d],
         hpc[c] \in Calling,
         mbox' \in [Conns -> Seq(Mail)],
         \A d \in Conns : \A x \in Mails(d)' : x \in Mails(d) \/ (x.kind = "send_data" /\ WholePacket(x.body))
  PROVE  Typed'
<1>1. TypeOK /\ regQ' \in Seq(RegMail)
  BY CallTaken DEF Typed
<1>2. OthersKept(c) /\ (HandlerIsWhole(c) => HandlerIsWhole(c)') /\ hpc'[c] # "off"
  <2>1. CASE Done(c)
    BY <1>1, <2>1 DEF Done, Serve, TypeOK, OthersKept, HandlerIsWhole, Handling
  <2>2. CASE Goto(c, "lookup") /\ answer[c].type = "send_message" /\ UNCHANGED <<armed, job, answer, target>>
    BY <1>1, <2>2 DEF Goto, TypeOK, OthersKept, HandlerIsWhole, Handling, Calling
  <2>3. CASE /\ Goto(c, "push") /\ answer[c].type = "send_message" /\ UNCHANGED <<armed, job, answer>>
             /\ \E d \in Conns : target' = [target EXCEPT ![c] = d]
    BY <1>1, <2>3 DEF Goto, TypeOK, OthersKept, HandlerIsWhole, Handling, Calling
  <2> QED
    BY <2>1, <2>2, <2>3
<1>3. TypeOK'
  <2>1. CASE Done(c)
    BY <1>1, <2>1 DEF TypeOK, Done, Serve
  <2>2. CASE Goto(c, "lookup") /\ UNCHANGED <<armed, job, answer, target>>
    BY <1>1, <2>2 DEF TypeOK, Goto
  <2>3. CASE Goto(c, "push") /\ UNCHANGED <<armed, job, answer>> /\ \E d \in Conns : target' = [target EXCEPT ![c] = d]
    BY <1>1, <2>3 DEF TypeOK, Goto
  <2> QED
    BY <2>1, <2>2, <2>3
<1>4. OwnRequests'
  BY RequestsKept DEF Typed, Unread
<1>5. PacketsAreWhole'
  <2>1. \A d \in Conns : Waiting(d)' => Waiting(d) /\ tries'[d] = tries[d]
    BY DEF Waiting
  <2> QED
    BY <2>1, PacketsKept DEF Typed
<1>6. HandlersAreWhole'
  BY <1>2, HandlersKept DEF Typed, HandlersAreWhole
<1>7. CallsAreAwaited'
  BY <1>2, CallsTaken
<1>8. ProcessesAreSpawned'
  BY <1>1, <1>2 DEF Typed, ProcessesAreSpawned, OthersKept, Calling
<1> QED
  BY <1>3, <1>4, <1>5, <1>6, <1>7, <1>8 DEF Typed

LEMMA AnswersAreWhole ==
  ASSUME Typed, regQ # <<>>, Head(regQ).op = "send_data"
  PROVE  LET r == Head(regQ) IN
         /\ WholePacket(r.body)
         /\ r.body.type = "send_message" => hpc[r.from] = "replied" /\ answer[r.from].type = "send_message"
<1> DEFINE r == Head(regQ)
           c == r.from
<1>1. /\ c \in Conns /\ HandlerIsWhole(c) /\ hpc[c] \in Handling
      /\ \/ hpc[c] = "replied" /\ r.body = answer[c]
         \/ hpc[c] = "pushing" /\ r.body = Push(c)
  BY CallServed DEF IsCall, Handling
<1>2. job[c] \in Request /\ job[c].type \in RequestTypes /\ answer[c].type \in {job[c].type, "error"}
      /\ (answer[c].type = "send_message" => job[c].msg \in Msgs)
  BY <1>1, RequestFields DEF HandlerIsWhole, RequestOf
<1>3. CASE hpc[c] = "replied" /\ r.body = answer[c]
  BY <1>2, <1>3 DEF WholePacket, RequestTypes
<1>4. CASE hpc[c] = "pushing" /\ r.body = Push(c)
  BY <1>1, <1>2, <1>4 DEF WholePacket, Push, HandlerIsWhole
<1> QED
  BY <1>1, <1>3, <1>4

LEMMA ForwardDataTyped ==
  ASSUME Typed, ForwardData
  PROVE  Typed'
<1> DEFINE r == Head(regQ)
           x == [kind |-> "send_data", body |-> r.body]
<1>1. /\ TypeOK /\ regQ # <<>> /\ IsCall(r) /\ r.op = "send_data" /\ regQ' = Tail(regQ)
      /\ UNCHANGED <<acc, sock, registry, regUp, accounts, token, stored,
                     cl, tries, tok, sent, acked, fetched, snapshot, pushedTo, got>>
  BY DEF Typed, ForwardData, NextReg, IsCall, dbVars, clientVars, histVars
<1>2. /\ r.from \in Conns /\ hpc[r.from] \in Calling /\ r.conn \in Conns /\ r.body \in Packet
      /\ WholePacket(r.body)
      /\ r.body.type = "send_message" => answer[r.from].type = "send_message"
  BY <1>1, CallServed, AnswersAreWhole DEF Calling
<1>3. x \in Mail
  BY <1>2, MailFields
<1>4. /\ mbox' \in [Conns -> Seq(Mail)]
      /\ \A d \in Conns : \A y \in Mails(d)' : y \in Mails(d) \/ (y.kind = "send_data" /\ WholePacket(y.body))
  <2>1. CASE mbox' = mbox
    BY <1>1, <2>1 DEF TypeOK, Mails
  <2>2. CASE mbox' = [mbox EXCEPT ![r.conn] = Append(@, x)]
    <3>1. PICK d \in Conns, y \in Mail : d = r.conn /\ y = x
      BY <1>2, <1>3
    <3>2. mbox' = [mbox EXCEPT ![d] = Append(@, y)] /\ y.kind = "send_data" /\ WholePacket(y.body)
      BY <1>2, <2>2, <3>1
    <3>3. /\ mbox' \in [Conns -> Seq(Mail)]
          /\ Mails(d)' = Mails(d) \cup {y} /\ \A e \in Conns \ {d} : Mails(e)' = Mails(e)
      BY <1>1, <3>2, MailArrives
    <3> QED
      BY <3>2, <3>3
  <2> QED
    BY <2>1, <2>2 DEF ForwardData
<1>5. CASE r.body.type = "send_message" /\ Goto(r.from, "lookup") /\ UNCHANGED <<armed, job, answer, target>>
  BY <1>1, <1>2, <1>4, <1>5, ReplyTyped
<1>6. CASE Done(r.from)
  BY <1>1, <1>2, <1>4, <1>6, ReplyTyped
<1> QED
  BY <1>5, <1>6 DEF ForwardData

LEMMA FindConnectionTyped ==
  ASSUME Typed, FindConnection
  PROVE  Typed'
<1> DEFINE r == Head(regQ)
<1>1. /\ TypeOK /\ regQ # <<>> /\ IsCall(r) /\ r.op = "get_connection_uuid" /\ regQ' = Tail(regQ)
      /\ UNCHANGED <<acc, sock, mbox, registry, regUp, accounts, token, stored,
                     cl, tries, tok, sent, acked, fetched, snapshot, pushedTo, got>>
  BY DEF Typed, FindConnection, NextReg, IsCall, dbVars, clientVars, histVars
<1>2. r.from \in Conns /\ hpc[r.from] = "asked" /\ answer[r.from].type = "send_message"
  BY <1>1, CallServed DEF HandlerIsWhole
<1>3. mbox' \in [Conns -> Seq(Mail)] /\ \A d \in Conns : Mails(d)' = Mails(d)
  BY <1>1 DEF TypeOK, Mails
<1>4. \/ Done(r.from)
      \/ /\ Goto(r.from, "push") /\ UNCHANGED <<armed, job, answer>>
         /\ \E d \in Conns : target' = [target EXCEPT ![r.from] = d]
  BY <1>1 DEF FindConnection, TypeOK
<1> QED
  BY <1>1, <1>2, <1>3, <1>4, ReplyTyped DEF Calling

-----------------------------------------------------------------------------
(* The steps by kind.                                                      *)

LEMMA Steps ==
  ASSUME Next
  PROVE  \/ Announce \/ AddConnection \/ RemoveConnection \/ SetUser \/ ForwardData \/ FindConnection
         \/ \E c \in Conns :
              \/ Accept(c) \/ ClientSends(c) \/ GiveUp(c) \/ ClientCloses(c) \/ SocketDelivers(c)
              \/ SendData(c) \/ Dies(c) \/ Handler(c)
              \/ UpdateConnection(c) \/ InsertMessage(c) \/ CallReply(c) \/ CallLookup(c) \/ CallPush(c)
BY DEF Next, Registry, ConnProcess, Dies, Handler

THEOREM TypesHold == Spec => []Typed
<1>1. ASSUME Typed, Next PROVE Typed'
  BY <1>1, Steps, AcceptTyped, AnnounceTyped, ClientSendsTyped, ClientStopsTyped, SocketDeliversTyped,
     SendDataTyped, DiesTyped, HandlerTyped, GoesOnTyped, BookkeepingTyped, ForwardDataTyped, FindConnectionTyped
<1> QED
  BY <1>1, InitTyped, UnchangedTyped, PTL DEF Spec

(* The system's variables keep their types.                                *)
THEOREM TypeCorrect == Spec => []TypeOK
<1>1. Typed => TypeOK
  BY DEF Typed
<1> QED
  BY <1>1, TypesHold, PTL

-----------------------------------------------------------------------------
(* The registry knows whoever has come far enough to matter to it.         *)

(* The client has seen an answer that went through the registry, or one is  *)
(* on its way to it.                                                       *)
Met(c) ==
  \/ cl[c] \notin {"off", "dialing", "hello", "askedKey", "closed"}
  \/ \E r \in Unread(c) : r.type # "req_key"
  \/ \E x \in Mails(c) : x.kind = "tcp" /\ x.body.type # "req_key"
  \/ \E x \in Mails(c) : x.kind = "send_data" /\ x.body.type # "handshake"
  \/ hpc[c] = "announce"
MetAreKnown == \A c \in Conns : Met(c) /\ hpc[c] # "dead" => c \in DOMAIN registry

RemovedAreDead == \A x \in Calls : x.op = "remove" => hpc[x.conn] = "dead"

UpdatesAreKnown ==
  \A j \in 1..Len(regQ) : regQ[j].op = "update" =>
    /\ regQ[j].conn \in DOMAIN registry
    /\ \A i \in 1..(j - 1) : ~(regQ[i].op = "remove" /\ regQ[i].conn = regQ[j].conn)

RegistryInv == regUp /\ MetAreKnown /\ RemovedAreDead /\ UpdatesAreKnown

LEMMA UpdatesKept ==
  ASSUME TypeOK, UpdatesAreKnown, NEW x, regQ' = Append(regQ, x), DOMAIN registry' = DOMAIN registry,
         x.op = "update" => x.conn \in DOMAIN registry /\ \A y \in Calls : ~(y.op = "remove" /\ y.conn = x.conn)
  PROVE  UpdatesAreKnown'
<1>1. /\ Len(regQ) \in Nat /\ Len(regQ') = Len(regQ) + 1 /\ regQ'[Len(regQ) + 1] = x
      /\ \A i \in 1..Len(regQ) : regQ'[i] = regQ[i] /\ regQ[i] \in Calls
  BY RangeEquality DEF TypeOK, Calls
<1> SUFFICES ASSUME NEW j \in 1..Len(regQ'), regQ'[j].op = "update"
             PROVE  /\ regQ'[j].conn \in DOMAIN registry'
                    /\ \A i \in 1..(j - 1) : ~(regQ'[i].op = "remove" /\ regQ'[i].conn = regQ'[j].conn)
  BY DEF UpdatesAreKnown
<1>2. CASE j = Len(regQ) + 1
  BY <1>1, <1>2
<1>3. CASE j \in 1..Len(regQ)
  BY <1>1, <1>3 DEF UpdatesAreKnown
<1> QED
  BY <1>1, <1>2, <1>3

LEMMA UpdatesTaken ==
  ASSUME TypeOK, UpdatesAreKnown, regQ # <<>>, regQ' = Tail(regQ),
         \A c \in DOMAIN registry : c \in DOMAIN registry' \/ (Head(regQ).op = "remove" /\ Head(regQ).conn = c)
  PROVE  UpdatesAreKnown'
<1>1. /\ Len(regQ) \in Nat \ {0} /\ Len(regQ') = Len(regQ) - 1 /\ Head(regQ) = regQ[1]
      /\ \A i \in 1..Len(regQ') : regQ'[i] = regQ[i + 1] /\ i + 1 \in 1..Len(regQ)
  BY HeadTailProperties, EmptySeq DEF TypeOK
<1> SUFFICES ASSUME NEW j \in 1..Len(regQ'), regQ'[j].op = "update"
             PROVE  /\ regQ'[j].conn \in DOMAIN registry'
                    /\ \A i \in 1..(j - 1) : ~(regQ'[i].op = "remove" /\ regQ'[i].conn = regQ'[j].conn)
  BY DEF UpdatesAreKnown
<1>2. /\ regQ'[j] = regQ[j + 1] /\ j + 1 \in 1..Len(regQ) /\ 1 \in 1..j
      /\ regQ[j + 1].conn \in DOMAIN registry
      /\ \A i \in 1..j : ~(regQ[i].op = "remove" /\ regQ[i].conn = regQ[j + 1].conn)
  BY <1>1 DEF UpdatesAreKnown
<1> QED
  BY <1>1, <1>2

LEMMA RemovedKept ==
  ASSUME Typed, RemovedAreDead, \A x \in Calls' : x \in Calls \/ (x.op = "remove" => hpc'[x.conn] = "dead"),
         \A c \in Conns : hpc[c] = "dead" => hpc'[c] = "dead"
  PROVE  RemovedAreDead'
<1>1. \A x \in Calls : x.op = "remove" => x.conn \in Conns
  BY QueueMembers, RegMailFields DEF Typed
<1> QED
  BY <1>1 DEF RemovedAreDead

(* Steps the registry has no part in and which neither announce nor end    *)
(* anything.                                                               *)
LEMMA QuietRegistry ==
  ASSUME Typed, RegistryInv, UNCHANGED <<registry, regUp>>,
         regQ' = regQ \/ \E x \in RegMail : x.op \notin {"remove", "update"} /\ regQ' = Append(regQ, x),
         \A c \in Conns : hpc[c] = "dead" <=> hpc'[c] = "dead",
         \A c \in Conns : Met(c)' => Met(c)
  PROVE  RegistryInv'
<1>1. TypeOK
  BY DEF Typed
<1>2. RemovedAreDead'
  <2>1. CASE regQ' = regQ
    BY <2>1, RemovedKept DEF RegistryInv, Calls
  <2>2. CASE \E x \in RegMail : x.op \notin {"remove", "update"} /\ regQ' = Append(regQ, x)
    BY <1>1, <2>2, CastSent, RemovedKept DEF RegistryInv
  <2> QED
    BY <2>1, <2>2
<1>3. UpdatesAreKnown'
  <2>1. CASE regQ' = regQ
    BY <2>1 DEF RegistryInv, UpdatesAreKnown
  <2>2. CASE \E x \in RegMail : x.op \notin {"remove", "update"} /\ regQ' = Append(regQ, x)
    BY <1>1, <2>2, UpdatesKept DEF RegistryInv
  <2> QED
    BY <2>1, <2>2
<1> QED
  BY <1>2, <1>3 DEF RegistryInv, MetAreKnown

LEMMA InitRegistry == Init => RegistryInv
<1> SUFFICES ASSUME Init PROVE RegistryInv
  OBVIOUS
<1>1. Calls = {} /\ Len(regQ) = 0 /\ \A c \in Conns : Mails(c) = {} /\ Unread(c) = {}
  BY EmptyRange DEF Init, Calls, Mails, Unread
<1> QED
  BY <1>1 DEF Init, RegistryInv, MetAreKnown, Met, RemovedAreDead, UpdatesAreKnown

LEMMA UnchangedRegistry == RegistryInv /\ UNCHANGED vars => RegistryInv'
BY DEF vars, procVars, inVars, regVars, clientVars, RegistryInv, MetAreKnown, Met, RemovedAreDead,
       UpdatesAreKnown, Calls, Mails, Unread

LEMMA ClientRegistry ==
  ASSUME Typed, RegistryInv, NEW c \in Conns,
         Accept(c) \/ ClientSends(c) \/ GiveUp(c) \/ ClientCloses(c) \/ SocketDelivers(c)
  PROVE  RegistryInv'
<1>1. TypeOK /\ UNCHANGED <<regQ, registry, regUp>>
  BY DEF Typed, Accept, ClientSends, GiveUp, ClientCloses, SocketDelivers, regVars
<1>2. CASE Accept(c)
  <2>1. /\ cl[c] = "off" /\ hpc[c] = "off" /\ UNCHANGED sock
        /\ cl' = [cl EXCEPT ![c] = "dialing"] /\ hpc' = [hpc EXCEPT ![c] = "serve"]
        /\ mbox' = [mbox EXCEPT ![c] = <<[kind |-> "send_data", body |-> Handshake]>>]
    BY <1>2 DEF Accept, Typed, ProcessesAreSpawned
  <2>2. Mails(c)' = {[kind |-> "send_data", body |-> Handshake]} /\ \A d \in Conns \ {c} : Mails(d)' = Mails(d)
    BY <1>1, <2>1 DEF TypeOK, Mails, Range
  <2>3. \A d \in Conns : Met(d)' => Met(d)
    <3>1. Met(c)' => Met(c)
      <4>1. cl'[c] = "dialing" /\ hpc'[c] = "serve" /\ Unread(c)' = Unread(c)
        BY <1>1, <2>1 DEF TypeOK, Unread
      <4>2. \A x \in Mails(c)' : x.kind = "send_data" /\ x.body.type = "handshake"
        BY <2>2, PacketFields
      <4> QED
        BY <4>1, <4>2 DEF Met
    <3>2. \A d \in Conns \ {c} : cl'[d] = cl[d] /\ hpc'[d] = hpc[d] /\ Unread(d)' = Unread(d)
      BY <1>1, <2>1 DEF TypeOK, Unread
    <3> QED
      BY <2>2, <3>1, <3>2 DEF Met
  <2>4. \A d \in Conns : hpc[d] = "dead" <=> hpc'[d] = "dead"
    BY <1>1, <2>1 DEF TypeOK
  <2> QED
    BY <1>1, <2>3, <2>4, QuietRegistry
<1>3. CASE ClientSends(c)
  <2>1. PICK q \in Request, s \in Waits :
          /\ RequestOf(c, q) /\ sock' = [sock EXCEPT ![c] = Append(@, q)]
          /\ sent' = IF q.type = "send_message" THEN sent \cup {q.msg} ELSE sent
          /\ <<q.type, q.msg, s>> \in Requests(c) /\ cl' = [cl EXCEPT ![c] = s]
    <3>1. TypeOK
      BY DEF Typed
    <3> QED
      BY ZenonT(60), <1>3, <3>1, SendShape
  <2>2. (cl[c] = "hello" /\ q.type = "req_key" /\ s = "askedKey") \/ cl[c] \in {"haveKey", "loggedIn", "in"}
    BY <1>1, <2>1 DEF Requests, TypeOK
  <2>3. Unread(c)' = Unread(c) \cup {q} /\ \A d \in Conns \ {c} : Unread(d)' = Unread(d)
    BY <1>1, <2>1, RequestWritten
  <2>4. UNCHANGED <<mbox, hpc>> /\ \A d \in Conns : Mails(d)' = Mails(d)
    BY <1>3 DEF ClientSends, procVars, Mails
  <2>5. \A d \in Conns : Met(d)' => Met(d)
    BY SMTT(30), <1>1, <2>1, <2>2, <2>3, <2>4 DEF TypeOK, Met
  <2> QED
    BY <1>1, <2>4, <2>5, QuietRegistry
<1>4. CASE GiveUp(c) \/ ClientCloses(c)
  <2>1. UNCHANGED <<hpc, mbox, sock>> /\ \A d \in Conns : Mails(d)' = Mails(d) /\ Unread(d)' = Unread(d)
    BY <1>4 DEF GiveUp, ClientCloses, procVars, inVars, Mails, Unread
  <2>2. \A d \in Conns : Met(d)' => Met(d)
    BY <1>1, <1>4, <2>1 DEF GiveUp, ClientCloses, TypeOK, Met, Waiting
  <2> QED
    BY <1>1, <2>1, <2>2, QuietRegistry
<1>5. CASE SocketDelivers(c)
  <2>1. UNCHANGED <<hpc, cl>>
    BY <1>5 DEF SocketDelivers, procVars, clientVars
  <2>2. PICK x \in Mail :
          /\ mbox' = [mbox EXCEPT ![c] = Append(@, x)]
          /\ x.kind # "send_data" /\ (x.kind = "tcp" => x.body \in Unread(c))
          /\ \A d \in Conns : Unread(d)' \subseteq Unread(d)
    BY <1>1, <1>5, SocketShape
  <2>3. Mails(c)' = Mails(c) \cup {x} /\ \A d \in Conns \ {c} : Mails(d)' = Mails(d)
    BY <1>1, <2>2, MailArrives
  <2>4. \A d \in Conns : Met(d)' => Met(d)
    BY <2>1, <2>2, <2>3 DEF Met
  <2> QED
    BY <1>1, <2>1, <2>4, QuietRegistry
<1> QED
  BY <1>2, <1>3, <1>4, <1>5

LEMMA AnnounceRegistry ==
  ASSUME Typed, RegistryInv, Announce
  PROVE  RegistryInv'
<1>1. /\ acc \in Conns /\ regQ' = Append(regQ, [op |-> "add", conn |-> acc])
      /\ UNCHANGED <<hpc, mbox, sock, cl, registry, regUp>>
  BY DEF Typed, TypeOK, Announce, procVars, inVars, clientVars
<1>2. \E x \in RegMail : x.op \notin {"remove", "update"} /\ regQ' = Append(regQ, x)
  BY <1>1, RegMailFields
<1>3. \A d \in Conns : Met(d)' => Met(d)
  BY <1>1 DEF Met, Mails, Unread
<1> QED
  BY <1>1, <1>2, <1>3, QuietRegistry

(* The client's next state: every answer but the handshake means that it   *)
(* has been met.                                                           *)
LEMMA SendDataRegistry ==
  ASSUME Typed, RegistryInv, NEW c \in Conns, SendData(c)
  PROVE  RegistryInv'
<1>1. /\ TypeOK /\ hpc[c] = "serve" /\ mbox[c] # <<>> /\ Head(mbox[c]).kind = "send_data"
      /\ Receives(c, Head(mbox[c]).body)
      /\ hpc' = [hpc EXCEPT ![c] = "serve"] /\ mbox' = [mbox EXCEPT ![c] = Tail(@)]
      /\ UNCHANGED <<sock, regQ, registry, regUp>>
  BY DEF Typed, SendData, NextMail, Serve, regVars
<1>2. PICK x \in Mails(c) : x = Head(mbox[c])
  BY <1>1, MailTaken
<1>3. \A d \in Conns : Mails(d)' \subseteq Mails(d) /\ Unread(d)' = Unread(d)
  BY <1>1, MailTaken DEF Unread
<1>4. UNCHANGED hpc
  BY <1>1 DEF TypeOK
<1>5. Met(c)' => Met(c)
  <2>1. CASE x.body.type = "handshake"
    <3>1. ~Answers(c, x.body)
      BY <1>1, <1>2, <2>1 DEF Typed, PacketsAreWhole, WholePacket, Answers
    <3>2. cl'[c] = cl[c] \/ cl'[c] = "hello"
      BY <1>1, <1>2, <3>1 DEF Receives, TypeOK
    <3> QED
      BY <1>3, <1>4, <3>2 DEF Met
  <2>2. CASE x.body.type # "handshake"
    BY <1>1, <1>2, <2>2 DEF Met
  <2> QED
    BY <2>1, <2>2
<1>6. \A d \in Conns \ {c} : Met(d)' => Met(d)
  BY <1>1, <1>3, <1>4 DEF Met, Receives, TypeOK
<1> QED
  BY <1>1, <1>4, <1>5, <1>6, QuietRegistry

LEMMA DiesRegistry ==
  ASSUME Typed, RegistryInv, NEW c \in Conns, Dies(c)
  PROVE  RegistryInv'
<1>1. TypeOK /\ Exits(c) /\ UNCHANGED <<registry, regUp, cl>>
  BY DiesShape DEF Typed, Exits
<1>2. \A d \in Conns : Mails(d)' \subseteq Mails(d) /\ Unread(d)' \subseteq Unread(d)
  BY <1>1, QueuesDropped DEF Exits
<1>3. hpc'[c] = "dead" /\ \A d \in Conns \ {c} : hpc'[d] = hpc[d]
  BY <1>1 DEF Exits, TypeOK
<1>4. MetAreKnown'
  BY <1>1, <1>2, <1>3 DEF RegistryInv, MetAreKnown, Met
<1>5. [op |-> "remove", conn |-> c] \in RegMail
  BY RegMailFields
<1>6. CASE regQ' = regQ
  BY <1>1, <1>3, <1>4, <1>6, RemovedKept DEF RegistryInv, UpdatesAreKnown, Calls
<1>7. CASE regQ' = Append(regQ, [op |-> "remove", conn |-> c])
  <2>1. RemovedAreDead'
    BY <1>1, <1>3, <1>5, <1>7, CastSent, RemovedKept DEF RegistryInv
  <2>2. UpdatesAreKnown'
    BY <1>1, <1>7, UpdatesKept DEF RegistryInv
  <2> QED
    BY <1>1, <1>4, <2>1, <2>2 DEF RegistryInv
<1> QED
  BY <1>1, <1>6, <1>7 DEF Exits

(* A login is announced only after it has been asked for, and that is not  *)
(* done without a key.                                                     *)
LEMMA HandlerRegistry ==
  ASSUME Typed, RegistryInv, NEW c \in Conns, Handler(c)
  PROVE  RegistryInv'
<1>1. PICK r \in Request, p \in Packet, stage \in {"announce", "insert", "reply"} :
        RequestOf(c, r) /\ TakesUp(c, r, p, stage)
  BY HandlerShape
<1>2. /\ TypeOK /\ hpc[c] = "serve" /\ UNCHANGED <<cl, sock, regQ, registry, regUp>>
      /\ hpc' = [hpc EXCEPT ![c] = stage] /\ mbox[c] # <<>> /\ mbox' = [mbox EXCEPT ![c] = Tail(@)]
      /\ stage = "announce" => r.type # "req_key"
  BY <1>1 DEF Typed, TakesUp
<1>3. \A d \in Conns : Mails(d)' \subseteq Mails(d) /\ Unread(d)' = Unread(d)
  BY <1>2, MailTaken DEF Unread
<1>4. \E x \in Mails(c) : x.kind = "tcp" /\ x.body = r
  BY <1>1, <1>2, MailTaken DEF TakesUp
<1>5. hpc'[c] = stage /\ \A d \in Conns \ {c} : hpc'[d] = hpc[d]
  BY <1>2 DEF TypeOK
<1>6. \A d \in Conns : Met(d)' => Met(d)
  BY <1>2, <1>3, <1>4, <1>5 DEF Met
<1> QED
  BY <1>2, <1>5, <1>6, QuietRegistry

LEMMA GoesOnRegistry ==
  ASSUME Typed, RegistryInv, NEW c \in Conns,
         UpdateConnection(c) \/ InsertMessage(c) \/ CallReply(c) \/ CallLookup(c) \/ CallPush(c)
  PROVE  RegistryInv'
<1>1. PICK from \in Handling, to \in Handling \ {"announce"} : Advances(c, from, to)
  BY AdvanceShape DEF Handling
<1>2. /\ TypeOK /\ hpc[c] = from /\ hpc'[c] = to /\ \A d \in Conns \ {c} : hpc'[d] = hpc[d]
      /\ UNCHANGED <<registry, regUp>> /\ Owner[c] \in Users
  BY <1>1, OwnerAssumption DEF Typed, TypeOK, Advances
<1>3. \A d \in Conns : Met(d)' => Met(d)
  BY <1>1, <1>2 DEF Met, Advances, Mails, Unread
<1>4. \A d \in Conns : hpc[d] = "dead" <=> hpc'[d] = "dead"
  BY <1>2 DEF Handling
<1>5. CASE UpdateConnection(c)
  <2> DEFINE x == [op |-> "update", conn |-> c, user |-> IF job[c].type = "req_logout" THEN Nobody ELSE Owner[c]]
  <2>1. hpc[c] = "announce" /\ regQ' = Append(regQ, x)
    BY <1>5 DEF UpdateConnection
  <2>2. PICK y \in RegMail : y = x
    BY <1>2, RegMailFields
  <2>3. c \in DOMAIN registry /\ \A z \in Calls : ~(z.op = "remove" /\ z.conn = c)
    BY <2>1 DEF RegistryInv, MetAreKnown, Met, RemovedAreDead
  <2>4. y.op = "update" /\ y.conn = c /\ regQ' = Append(regQ, y)
    BY <2>1, <2>2
  <2>5. UpdatesAreKnown'
    BY <1>2, <2>3, <2>4, UpdatesKept DEF RegistryInv
  <2>6. RemovedAreDead'
    BY <1>2, <1>4, <2>4, CastSent, RemovedKept DEF RegistryInv
  <2> QED
    BY <1>2, <1>3, <1>4, <2>5, <2>6 DEF RegistryInv, MetAreKnown
<1>6. CASE InsertMessage(c) \/ CallReply(c) \/ CallLookup(c) \/ CallPush(c)
  <2>1. regQ' = regQ \/ \E x \in RegMail : x.op \notin {"remove", "update"} /\ regQ' = Append(regQ, x)
    <3>1. CASE InsertMessage(c)
      BY <3>1, AdvanceShape
    <3>2. CASE CallReply(c) \/ CallLookup(c) \/ CallPush(c)
      <4>1. PICK x : regQ' = Append(regQ, x) /\ x.op \notin {"remove", "update"}
        BY <3>2 DEF CallReply, CallLookup, CallPush
      <4>2. regQ' \in Seq(RegMail)
        BY GoesOnTyped DEF Typed, TypeOK
      <4>3. regQ \in Seq(RegMail)
        BY <1>2 DEF TypeOK
      <4>4. x \in RegMail
        <5>1. Len(regQ') = Len(regQ) + 1 /\ regQ'[Len(regQ) + 1] = x
          BY <4>1, <4>3
        <5> QED
          BY <4>2, <4>3, <5>1, ElementOfSeq
      <4> QED
        BY <4>1, <4>4
    <3> QED
      BY <1>6, <3>1, <3>2
  <2> QED
    BY <1>2, <1>3, <1>4, <2>1, QuietRegistry
<1> QED
  BY <1>5, <1>6

LEMMA BookkeepingRegistry ==
  ASSUME Typed, RegistryInv, AddConnection \/ RemoveConnection \/ SetUser
  PROVE  RegistryInv'
<1> DEFINE x == Head(regQ)
<1>1. /\ TypeOK /\ regQ # <<>> /\ regQ' = Tail(regQ)
      /\ UNCHANGED <<hpc, cl, mbox, sock>>
  BY DEF Typed, AddConnection, RemoveConnection, SetUser, NextReg, procVars, inVars, clientVars
<1>2. x \in Calls /\ Calls' \subseteq Calls
  BY <1>1, CallTaken
<1>3. RemovedAreDead'
  BY <1>1, <1>2, RemovedKept DEF RegistryInv
<1>4. /\ \A c \in DOMAIN registry : c \in DOMAIN registry' \/ (x.op = "remove" /\ x.conn = c)
      /\ regUp'
  <2>1. CASE AddConnection
    BY <2>1 DEF AddConnection, RegistryInv
  <2>2. CASE RemoveConnection
    BY <2>2 DEF RemoveConnection, RegistryInv, NextReg
  <2>3. CASE SetUser
    <3>1. x = regQ[1] /\ 1 \in 1..Len(regQ) /\ x.op = "update"
      BY <1>1, <2>3, HeadTailProperties, EmptySeq DEF TypeOK, SetUser, NextReg
    <3>2. x.conn \in DOMAIN registry
      BY <3>1 DEF RegistryInv, UpdatesAreKnown
    <3> QED
      BY <2>3, <3>2 DEF SetUser
  <2> QED
    BY <2>1, <2>2, <2>3
<1>5. MetAreKnown'
  BY <1>1, <1>2, <1>4 DEF RegistryInv, MetAreKnown, Met, RemovedAreDead, Mails, Unread
<1>6. UpdatesAreKnown'
  BY <1>1, <1>4, UpdatesTaken DEF RegistryInv
<1> QED
  BY <1>3, <1>4, <1>5, <1>6 DEF RegistryInv

(* The registry lets a packet through to those it knows.                   *)
LEMMA CallRegistry ==
  ASSUME Typed, RegistryInv, ForwardData \/ FindConnection
  PROVE  RegistryInv'
<1> DEFINE r == Head(regQ)
<1>1. /\ TypeOK /\ regQ # <<>> /\ regQ' = Tail(regQ) /\ IsCall(r)
      /\ UNCHANGED <<cl, sock, registry, regUp>>
  BY DEF Typed, ForwardData, FindConnection, NextReg, IsCall, clientVars
<1>2. PICK c \in Conns : c = r.from
  BY <1>1, CallServed
<1>3. hpc[c] \in Calling
  BY <1>1, <1>2, CallServed DEF Calling, IsCall
<1>4. \E s \in {"serve", "lookup", "push"} : hpc' = [hpc EXCEPT ![c] = s]
  BY <1>2 DEF ForwardData, FindConnection, Goto, Done, Serve
<1>5. hpc'[c] \in {"serve", "lookup", "push"} /\ \A d \in Conns \ {c} : hpc'[d] = hpc[d]
  BY <1>1, <1>4 DEF TypeOK
<1>6. RemovedAreDead'
  BY <1>1, <1>3, <1>5, CallTaken, RemovedKept DEF RegistryInv, Calling
<1>7. UpdatesAreKnown'
  BY <1>1, UpdatesTaken DEF RegistryInv
<1>8. \A d \in Conns : Mails(d)' = Mails(d) \/ d \in DOMAIN registry
  <2>1. CASE mbox' = mbox
    BY <2>1 DEF Mails
  <2>2. CASE ForwardData /\ r.conn \in DOMAIN registry /\ mbox' # mbox
    <3>1. PICK d \in Conns, x \in Mail : d = r.conn /\ x = [kind |-> "send_data", body |-> r.body]
      BY <1>1, <2>2, CallServed, MailFields DEF ForwardData, NextReg
    <3>2. mbox' = [mbox EXCEPT ![d] = Append(@, x)]
      BY <2>2, <3>1 DEF ForwardData
    <3> QED
      BY <1>1, <2>2, <3>1, <3>2, MailArrives
  <2> QED
    BY <2>1, <2>2 DEF ForwardData, FindConnection
<1>9. MetAreKnown'
  BY <1>1, <1>3, <1>5, <1>8 DEF RegistryInv, MetAreKnown, Met, Calling, Unread
<1> QED
  BY <1>1, <1>6, <1>7, <1>9 DEF RegistryInv

THEOREM RegistryIsSound == Spec => []RegistryInv
<1>1. ASSUME Typed, RegistryInv, Next PROVE RegistryInv'
  BY <1>1, Steps, ClientRegistry, AnnounceRegistry, SendDataRegistry, DiesRegistry, HandlerRegistry,
     GoesOnRegistry, BookkeepingRegistry, CallRegistry
<1> QED
  BY <1>1, TypesHold, InitRegistry, UnchangedRegistry, PTL DEF Spec

(* The registry process never meets the update that would crash it.        *)
THEOREM RegistrySurvives == Spec => []RegistryNeverCrashes
<1>1. RegistryInv => RegistryNeverCrashes
  BY DEF RegistryInv, RegistryNeverCrashes
<1> QED
  BY <1>1, RegistryIsSound, PTL

-----------------------------------------------------------------------------
(* What is acknowledged is stored: from the insertion on the handler's      *)
(* message is in the table, then the one in the answer, then the client's.  *)

Inserted(c) == hpc[c] \in Handling \ {"insert"} /\ answer[c].type = "send_message"
HandledAreStored == \A c \in Conns : Inserted(c) => IsStored(job[c].msg)
Ack(x) == x.kind = "send_data" /\ x.body.type = "send_message"
AcksAreStored == \A c \in Conns : \A x \in Mails(c) : Ack(x) => \A m \in x.body.msgs : IsStored(m)

AckInv == AckedIsStored /\ AcksAreStored /\ HandledAreStored

LEMMA InitAck == Init => AckInv
<1> SUFFICES ASSUME Init PROVE AckInv
  OBVIOUS
<1>1. \A c \in Conns : Mails(c) = {}
  BY EmptyRange DEF Init, Mails
<1> QED
  BY <1>1 DEF Init, AckInv, AckedIsStored, AcksAreStored, HandledAreStored, Inserted, Handling

LEMMA UnchangedAck == AckInv /\ UNCHANGED vars => AckInv'
BY DEF vars, procVars, inVars, dbVars, histVars, AckInv, AckedIsStored, AcksAreStored, HandledAreStored,
       Inserted, IsStored, Mails

(* Nothing is taken out of the table.                                      *)
LEMMA StoredStay ==
  ASSUME TypeOK, stored' = stored \/ \E m \in Msgs : stored' = Append(stored, m)
  PROVE  \A n : IsStored(n) => IsStored(n)'
<1>1. CASE stored' = stored
  BY <1>1 DEF IsStored
<1>2. ASSUME NEW m \in Msgs, stored' = Append(stored, m) PROVE \A n : IsStored(n) => IsStored(n)'
  <2>1. /\ Len(stored') = Len(stored) + 1 /\ Len(stored) \in Nat
        /\ \A i \in 1..Len(stored) : stored'[i] = stored[i]
    BY <1>2 DEF TypeOK
  <2> QED
    BY <2>1 DEF IsStored
<1> QED
  BY <1>1, <1>2

LEMMA AckKept ==
  ASSUME AckInv, \A n : IsStored(n) => IsStored(n)',
         acked' = acked,
         \A d \in Conns : \A x \in Mails(d)' : x \in Mails(d) \/ ~Ack(x),
         \A d \in Conns : Inserted(d)' => (Inserted(d) /\ job'[d].msg = job[d].msg) \/ IsStored(job[d].msg)'
  PROVE  AckInv'
<1>1. AckedIsStored'
  BY DEF AckInv, AckedIsStored
<1>2. AcksAreStored'
  BY DEF AckInv, AcksAreStored
<1>3. HandledAreStored'
  BY DEF AckInv, HandledAreStored, IsStored
<1> QED
  BY <1>1, <1>2, <1>3 DEF AckInv

(* Steps of clients and sockets, and a process that exits.                 *)
LEMMA QuietAck ==
  ASSUME Typed, AckInv, NEW c \in Conns,
         Accept(c) \/ ClientSends(c) \/ GiveUp(c) \/ ClientCloses(c) \/ SocketDelivers(c) \/ Dies(c)
  PROVE  AckInv'
<1>1. TypeOK /\ UNCHANGED <<stored, acked, job, answer>>
  BY DiesShape DEF Typed, Accept, ClientSends, GiveUp, ClientCloses, SocketDelivers, Exits,
                   procVars, dbVars, histVars
<1>2. \A d \in Conns : \A x \in Mails(d)' : x \in Mails(d) \/ ~Ack(x)
  <2>1. CASE Accept(c)
    <3>1. mbox' = [mbox EXCEPT ![c] = <<[kind |-> "send_data", body |-> Handshake]>>]
      BY <2>1 DEF Accept
    <3>2. Mails(c)' = {[kind |-> "send_data", body |-> Handshake]} /\ \A d \in Conns \ {c} : Mails(d)' = Mails(d)
      BY <1>1, <3>1 DEF TypeOK, Mails, Range
    <3> QED
      BY <3>2, PacketFields DEF Ack
  <2>2. CASE ClientSends(c) \/ GiveUp(c) \/ ClientCloses(c)
    BY <2>2 DEF ClientSends, GiveUp, ClientCloses, inVars, Mails
  <2>3. CASE SocketDelivers(c)
    <3>1. PICK x \in Mail : mbox' = [mbox EXCEPT ![c] = Append(@, x)] /\ x.kind # "send_data"
      BY <1>1, <2>3, SocketShape
    <3> QED
      BY <1>1, <3>1, MailArrives DEF Ack
  <2>4. CASE Dies(c)
    BY <1>1, <2>4, DiesShape, QueuesDropped DEF Exits
  <2> QED
    BY <2>1, <2>2, <2>3, <2>4
<1>3. \A d \in Conns : Inserted(d)' => Inserted(d)
  <2>1. CASE UNCHANGED hpc
    BY <1>1, <2>1 DEF Inserted
  <2>2. CASE \E s \in {"serve", "dead"} : hpc' = [hpc EXCEPT ![c] = s]
    BY <1>1, <2>2 DEF Inserted, Handling, TypeOK
  <2> QED
    BY <2>1, <2>2, DiesShape DEF Accept, ClientSends, GiveUp, ClientCloses, SocketDelivers, Exits, procVars
<1> QED
  BY <1>1, <1>2, <1>3, AckKept DEF IsStored

LEMMA SendDataAck ==
  ASSUME Typed, AckInv, NEW c \in Conns, SendData(c)
  PROVE  AckInv'
<1>1. /\ TypeOK /\ hpc[c] = "serve" /\ mbox[c] # <<>> /\ Head(mbox[c]).kind = "send_data"
      /\ Receives(c, Head(mbox[c]).body)
      /\ hpc' = [hpc EXCEPT ![c] = "serve"] /\ mbox' = [mbox EXCEPT ![c] = Tail(@)]
      /\ UNCHANGED <<stored, job, answer>>
  BY DEF Typed, SendData, NextMail, Serve, dbVars
<1>2. PICK x \in Mails(c) : x = Head(mbox[c])
  BY <1>1, MailTaken
<1>3. \A d \in Conns : Mails(d)' \subseteq Mails(d)
  BY <1>1, MailTaken
<1>4. UNCHANGED hpc
  BY <1>1 DEF TypeOK
<1>5. acked' = acked \/ (Ack(x) /\ acked' = acked \cup x.body.msgs)
  BY <1>1, <1>2 DEF Receives, Ack
<1> QED
  BY <1>1, <1>2, <1>3, <1>4, <1>5
  DEF AckInv, AckedIsStored, AcksAreStored, HandledAreStored, Inserted, IsStored

LEMMA HandlerAck ==
  ASSUME Typed, AckInv, NEW c \in Conns, Handler(c)
  PROVE  AckInv'
<1>1. PICK r \in Request, p \in Packet, stage \in {"announce", "insert", "reply"} :
        RequestOf(c, r) /\ TakesUp(c, r, p, stage)
  BY HandlerShape
<1>2. /\ TypeOK /\ UNCHANGED <<stored, acked>> /\ mbox[c] # <<>> /\ mbox' = [mbox EXCEPT ![c] = Tail(@)]
      /\ hpc'[c] = stage /\ answer'[c] = p
      /\ \A d \in Conns \ {c} : UNCHANGED <<hpc[d], job[d], answer[d]>>
  BY <1>1 DEF Typed, TakesUp, TypeOK
<1>3. \A d \in Conns : Mails(d)' \subseteq Mails(d)
  BY <1>2, MailTaken
<1>4. ~Inserted(c)'
  BY <1>1, <1>2 DEF TakesUp, Inserted
<1>5. \A d \in Conns : Inserted(d)' => Inserted(d) /\ job'[d].msg = job[d].msg
  BY <1>2, <1>4 DEF Inserted
<1> QED
  BY <1>2, <1>3, <1>5, AckKept DEF IsStored

LEMMA GoesOnAck ==
  ASSUME Typed, AckInv, NEW c \in Conns,
         UpdateConnection(c) \/ InsertMessage(c) \/ CallReply(c) \/ CallLookup(c) \/ CallPush(c)
  PROVE  AckInv'
<1>1. PICK from \in Handling, to \in Handling : Advances(c, from, to)
  BY AdvanceShape DEF Handling
<1>2. /\ TypeOK /\ HandlerIsWhole(c) /\ hpc[c] = from /\ hpc'[c] = to
      /\ \A d \in Conns \ {c} : hpc'[d] = hpc[d]
      /\ UNCHANGED <<job, answer, acked>> /\ \A d \in Conns : Mails(d)' = Mails(d)
  BY <1>1 DEF Typed, HandlersAreWhole, TypeOK, Advances, Mails
<1>3. CASE InsertMessage(c)
  <2>1. hpc[c] = "insert" /\ stored' = Append(stored, job[c].msg)
    BY <1>3 DEF InsertMessage
  <2>2. PICK m \in Msgs : m = job[c].msg
    BY <1>2, <2>1 DEF HandlerIsWhole, RequestOf, Handling
  <2>3. \A n : IsStored(n) => IsStored(n)'
    BY <1>2, <2>1, <2>2, StoredStay
  <2>4. IsStored(m)'
    <3>1. Len(stored') = Len(stored) + 1 /\ Len(stored) \in Nat /\ stored'[Len(stored) + 1] = m
      BY <1>2, <2>1, <2>2 DEF TypeOK
    <3> QED
      BY <3>1 DEF IsStored
  <2>5. \A d \in Conns : Inserted(d)' => (Inserted(d) /\ job'[d].msg = job[d].msg) \/ IsStored(job[d].msg)'
    BY <1>2, <2>2, <2>4 DEF Inserted, IsStored
  <2> QED
    BY <1>2, <2>3, <2>5, AckKept
<1>4. CASE UpdateConnection(c) \/ CallReply(c) \/ CallLookup(c) \/ CallPush(c)
  <2>1. stored' = stored
    BY <1>4, AdvanceShape
  <2>2. hpc[c] = "announce" => answer[c].type # "send_message"
    BY <1>2 DEF HandlerIsWhole, Handling
  <2>3. hpc[c] # "insert"
    BY <1>4 DEF UpdateConnection, CallReply, CallLookup, CallPush
  <2>4. \A d \in Conns : Inserted(d)' => Inserted(d)
    BY <1>2, <2>3 DEF Inserted
  <2> QED
    BY <1>2, <2>1, <2>4, AckKept DEF IsStored
<1> QED
  BY <1>3, <1>4

LEMMA RegistryAck ==
  ASSUME Typed, AckInv, Announce \/ AddConnection \/ RemoveConnection \/ SetUser
  PROVE  AckInv'
<1>1. UNCHANGED <<hpc, job, answer, mbox, stored, acked>>
  BY DEF Announce, AddConnection, RemoveConnection, SetUser, procVars, inVars, dbVars, histVars
<1> QED
  BY <1>1 DEF AckInv, AckedIsStored, AcksAreStored, HandledAreStored, Inserted, IsStored, Mails

LEMMA CallAck ==
  ASSUME Typed, AckInv, ForwardData \/ FindConnection
  PROVE  AckInv'
<1> DEFINE r == Head(regQ)
<1>1. TypeOK /\ regQ # <<>> /\ IsCall(r) /\ UNCHANGED <<stored, acked>>
  BY DEF Typed, ForwardData, FindConnection, NextReg, IsCall, dbVars, histVars
<1>2. PICK c \in Conns : c = r.from
  BY <1>1, CallServed
<1>3. HandlerIsWhole(c) /\ hpc[c] \in Calling
  BY <1>1, <1>2, CallServed DEF Calling, IsCall
<1>4. /\ \A d \in Conns \ {c} : UNCHANGED <<hpc[d], job[d], answer[d]>>
      /\ hpc'[c] = "serve" \/ UNCHANGED <<job[c], answer[c]>>
  BY SMTT(30), <1>1, <1>2 DEF ForwardData, FindConnection, Goto, Done, Serve, TypeOK
<1>5. \A d \in Conns : Inserted(d)' => Inserted(d) /\ job'[d].msg = job[d].msg
  BY <1>3, <1>4 DEF Inserted, Handling, Calling
<1>6. CASE FindConnection
  <2>1. \A d \in Conns : Mails(d)' = Mails(d)
    BY <1>6 DEF FindConnection, Mails
  <2> QED
    BY <1>1, <1>5, <2>1, AckKept DEF IsStored
<1>7. CASE ForwardData
  <2>1. /\ r.op = "send_data" /\ r.conn \in Conns /\ r.body \in Packet
        /\ (r.body = answer[c] /\ hpc[c] = "replied") \/ r.body.type = "recv_message"
    BY <1>1, <1>2, <1>7, CallServed DEF ForwardData, NextReg, Push
  <2>2. r.body.type = "send_message" => \A m \in r.body.msgs : IsStored(m)
    BY <1>3, <2>1 DEF AckInv, HandledAreStored, Inserted, HandlerIsWhole, Handling
  <2>3. AcksAreStored'
    <3>1. CASE mbox' = mbox
      BY <1>1, <3>1 DEF AckInv, AcksAreStored, Mails, IsStored
    <3>2. CASE mbox' # mbox
      <4>1. PICK d \in Conns, x \in Mail : d = r.conn /\ x = [kind |-> "send_data", body |-> r.body]
        BY <2>1, MailFields
      <4>2. mbox' = [mbox EXCEPT ![d] = Append(@, x)]
        BY <1>7, <3>2, <4>1 DEF ForwardData
      <4>3. Mails(d)' = Mails(d) \cup {x} /\ \A e \in Conns \ {d} : Mails(e)' = Mails(e)
        BY <1>1, <4>2, MailArrives
      <4>4. Ack(x) => \A m \in x.body.msgs : IsStored(m)
        BY <2>2, <4>1 DEF Ack
      <4> QED
        BY <1>1, <4>3, <4>4 DEF AckInv, AcksAreStored, IsStored
    <3> QED
      BY <3>1, <3>2
  <2> QED
    BY <1>1, <1>5, <2>3 DEF AckInv, AckedIsStored, HandledAreStored, IsStored
<1> QED
  BY <1>6, <1>7

THEOREM AcksAreTrue == Spec => []AckInv
<1>1. ASSUME Typed, AckInv, Next PROVE AckInv'
  BY <1>1, Steps, QuietAck, SendDataAck, HandlerAck, GoesOnAck, RegistryAck, CallAck
<1> QED
  BY <1>1, TypesHold, InitAck, UnchangedAck, PTL DEF Spec

(* A message whose sender has been told that it was accepted is stored.    *)
THEOREM AcknowledgedIsStored == Spec => []AckedIsStored
<1>1. AckInv => AckedIsStored
  BY DEF AckInv
<1> QED
  BY <1>1, AcksAreTrue, PTL

-----------------------------------------------------------------------------
(* The invariant: a push waits in a mailbox, or has arrived; whatever comes *)
(* after it from the same sender is stored after it.                       *)

PushOf(x, m) == x.kind = "send_data" /\ x.body.type = "recv_message" /\ x.body.msgs = {m}
Precedes(s, m, n) == \E i, j \in 1..Len(s) : i < j /\ PushOf(s[i], m) /\ PushOf(s[j], n)

Got(c, m) == \E i \in 1..Len(got[c]) : got[c][i] = m
Mailed(c, m) == \E x \in Mails(c) : PushOf(x, m)
Underway(c, m) == Got(c, m) \/ Mailed(c, m)
Follows(m, n) == SentBy[m] = SentBy[n] => StoredBefore(m, n)

UnderwayAreStored == \A c \in Conns, m \in Msgs : Underway(c, m) => IsStored(m)
MailedAfterGot == \A c \in Conns, m, n \in Msgs : Got(c, m) /\ Mailed(c, n) => Follows(m, n)
MailedInOrder == \A c \in Conns, m, n \in Msgs : Precedes(mbox[c], m, n) => Follows(m, n)
HandledComeLast ==
  \A s \in Conns : Inserted(s) => \A c \in Conns, m \in Msgs : Underway(c, m) => Follows(m, job[s].msg)

OrderInv == PushesInOrder /\ UnderwayAreStored /\ MailedAfterGot /\ MailedInOrder /\ HandledComeLast

-----------------------------------------------------------------------------
(* Pushes in a mailbox.                                                    *)

LEMMA OrderOfTail ==
  ASSUME NEW s \in Seq(Mail), s # <<>>, NEW m, NEW n
  PROVE  /\ Precedes(Tail(s), m, n) => Precedes(s, m, n)
         /\ PushOf(Head(s), m) /\ (\E x \in Range(Tail(s)) : PushOf(x, n)) => Precedes(s, m, n)
<1> DEFINE t == Tail(s)
<1>1. /\ t \in Seq(Mail) /\ Len(s) \in Nat \ {0} /\ Head(s) = s[1] /\ Len(t) = Len(s) - 1
      /\ \A i \in 1..Len(t) : t[i] = s[i + 1] /\ i + 1 \in 1..Len(s) /\ 1 < i + 1
  BY HeadTailProperties, EmptySeq
<1> HIDE DEF t
<1>2. Precedes(t, m, n) => Precedes(s, m, n)
  <2> SUFFICES ASSUME NEW i \in 1..Len(t), NEW j \in 1..Len(t), i < j,
                      PushOf(t[i], m), PushOf(t[j], n)
               PROVE  Precedes(s, m, n)
    BY DEF Precedes
  <2>1. /\ t[i] = s[i + 1] /\ i + 1 \in 1..Len(s)
        /\ t[j] = s[j + 1] /\ j + 1 \in 1..Len(s) /\ i + 1 < j + 1
    BY <1>1
  <2> QED
    BY <2>1 DEF Precedes
<1>3. ASSUME PushOf(Head(s), m), NEW x \in Range(t), PushOf(x, n) PROVE Precedes(s, m, n)
  <2>1. PICK i \in 1..Len(t) : t[i] = x
    BY <1>1, RangeEquality
  <2>2. 1 \in 1..Len(s) /\ 1 < i + 1 /\ i + 1 \in 1..Len(s) /\ PushOf(s[1], m) /\ PushOf(s[i + 1], n)
    BY <1>1, <1>3, <2>1
  <2> QED
    BY <2>2 DEF Precedes
<1> QED
  BY <1>2, <1>3 DEF t

LEMMA OrderOfAppend ==
  ASSUME NEW s \in Seq(Mail), NEW x \in Mail, NEW m, NEW n, Precedes(Append(s, x), m, n)
  PROVE  Precedes(s, m, n) \/ (PushOf(x, n) /\ \E y \in Range(s) : PushOf(y, m))
<1> DEFINE t == Append(s, x)
<1>1. /\ Len(t) = Len(s) + 1 /\ Len(s) \in Nat /\ t[Len(s) + 1] = x
      /\ \A i \in 1..Len(s) : t[i] = s[i] /\ s[i] \in Range(s)
  BY RangeEquality
<1>2. PICK i \in 1..Len(t), j \in 1..Len(t) : i < j /\ PushOf(t[i], m) /\ PushOf(t[j], n)
  BY DEF Precedes
<1> HIDE DEF t
<1>3. i \in 1..Len(s) /\ (j \in 1..Len(s) \/ j = Len(s) + 1)
  BY <1>1, <1>2
<1> QED
  BY <1>1, <1>2, <1>3 DEF Precedes

(* The table only grows, at its end.                                       *)
LEMMA StoredOrder ==
  ASSUME TypeOK, NEW n \in Msgs, stored' = Append(stored, n)
  PROVE  /\ \A k, m : StoredBefore(k, m) => StoredBefore(k, m)'
         /\ \A m : IsStored(m) => StoredBefore(m, n)'
<1>1. /\ Len(stored') = Len(stored) + 1 /\ Len(stored) \in Nat
      /\ \A i \in 1..Len(stored) : stored'[i] = stored[i]
      /\ stored'[Len(stored) + 1] = n
  BY DEF TypeOK
<1>2. \A k, m : StoredBefore(k, m) => StoredBefore(k, m)'
  BY <1>1 DEF StoredBefore
<1>3. ASSUME NEW m, IsStored(m) PROVE StoredBefore(m, n)'
  <2>1. PICK i \in 1..Len(stored) : stored[i] = m
    BY <1>3 DEF IsStored
  <2>2. i < Len(stored) + 1 /\ i \in 1..Len(stored') /\ Len(stored) + 1 \in 1..Len(stored') /\ stored'[i] = m
    BY <1>1, <2>1
  <2> QED
    BY <1>1, <2>2 DEF StoredBefore
<1> QED
  BY <1>2, <1>3

-----------------------------------------------------------------------------
(* Steps that push nothing.                                                *)

LEMMA InitOrder == Init => OrderInv
<1> SUFFICES ASSUME Init PROVE OrderInv
  OBVIOUS
<1>1. \A c \in Conns : Mails(c) = {} /\ Len(mbox[c]) = 0 /\ Len(got[c]) = 0
  BY EmptyRange DEF Init, Mails
<1> QED
  BY <1>1 DEF Init, OrderInv, PushesInOrder, UnderwayAreStored, MailedAfterGot, MailedInOrder, HandledComeLast,
              Underway, Got, Mailed, Precedes, Inserted, Handling

LEMMA UnchangedOrder == OrderInv /\ UNCHANGED vars => OrderInv'
BY DEF vars, procVars, inVars, dbVars, histVars, OrderInv, PushesInOrder, UnderwayAreStored, MailedAfterGot,
       MailedInOrder, HandledComeLast, Underway, Got, Mailed, Mails, Inserted, Follows, StoredBefore, IsStored

(* No push enters a mailbox, no order in one is new, and no handler has     *)
(* just inserted.                                                          *)
LEMMA OrderKept ==
  ASSUME OrderInv, UNCHANGED <<got, stored>>,
         \A c \in Conns, m \in Msgs : Mailed(c, m)' => Mailed(c, m),
         \A c \in Conns, m, n \in Msgs : Precedes(mbox'[c], m, n) => Precedes(mbox[c], m, n),
         \A s \in Conns : Inserted(s)' => Inserted(s) /\ job'[s].msg = job[s].msg
  PROVE  OrderInv'
<1>1. \A c \in Conns, m \in Msgs : (Got(c, m)' <=> Got(c, m)) /\ (Underway(c, m)' => Underway(c, m))
  BY DEF Got, Underway
<1>2. \A m, n : (Follows(m, n) => Follows(m, n)') /\ (IsStored(m) => IsStored(m)')
  BY DEF Follows, StoredBefore, IsStored
<1>3. PushesInOrder'
  BY DEF OrderInv, PushesInOrder, StoredBefore
<1>4. UnderwayAreStored' /\ MailedAfterGot'
  BY <1>1, <1>2 DEF OrderInv, UnderwayAreStored, MailedAfterGot
<1>5. MailedInOrder'
  BY <1>2 DEF OrderInv, MailedInOrder
<1>6. HandledComeLast'
  BY <1>1 DEF OrderInv, HandledComeLast, Follows, StoredBefore
<1> QED
  BY <1>3, <1>4, <1>5, <1>6 DEF OrderInv

(* The mailbox lost its first entry, gained one that is no push, or is as   *)
(* before.                                                                 *)
LEMMA NoPushArrives ==
  ASSUME TypeOK, NEW c \in Conns,
         \/ mbox' = mbox
         \/ mbox[c] # <<>> /\ mbox' = [mbox EXCEPT ![c] = Tail(@)]
         \/ mbox' = [mbox EXCEPT ![c] = <<>>]
         \/ \E x \in Mail : x.kind # "send_data" /\ mbox' = [mbox EXCEPT ![c] = Append(@, x)]
  PROVE  /\ \A d \in Conns, m \in Msgs : Mailed(d, m)' => Mailed(d, m)
         /\ \A d \in Conns, m, n \in Msgs : Precedes(mbox'[d], m, n) => Precedes(mbox[d], m, n)
<1>1. CASE mbox' = mbox
  BY <1>1 DEF Mailed, Mails
<1>2. CASE mbox[c] # <<>> /\ mbox' = [mbox EXCEPT ![c] = Tail(@)]
  <2>1. /\ mbox[c] \in Seq(Mail) /\ mbox'[c] = Tail(mbox[c]) /\ \A d \in Conns \ {c} : mbox'[d] = mbox[d]
        /\ \A d \in Conns : Mails(d)' \subseteq Mails(d)
    BY <1>2, MailTaken DEF TypeOK
  <2> QED
    BY <1>2, <2>1, OrderOfTail DEF Mailed
<1>3. CASE mbox' = [mbox EXCEPT ![c] = <<>>]
  <2>1. mbox'[c] = <<>> /\ \A d \in Conns \ {c} : mbox'[d] = mbox[d]
    BY <1>3 DEF TypeOK
  <2>2. Mails(c)' = {} /\ Len(mbox'[c]) = 0
    BY <2>1, EmptyRange DEF Mails
  <2> QED
    BY <2>1, <2>2 DEF Mailed, Mails, Precedes
<1>4. ASSUME NEW x \in Mail, x.kind # "send_data", mbox' = [mbox EXCEPT ![c] = Append(@, x)]
      PROVE  /\ \A d \in Conns, m \in Msgs : Mailed(d, m)' => Mailed(d, m)
             /\ \A d \in Conns, m, n \in Msgs : Precedes(mbox'[d], m, n) => Precedes(mbox[d], m, n)
  <2>1. /\ mbox[c] \in Seq(Mail) /\ mbox'[c] = Append(mbox[c], x)
        /\ \A d \in Conns \ {c} : mbox'[d] = mbox[d] /\ Mails(d)' = Mails(d)
        /\ Mails(c)' = Mails(c) \cup {x}
    BY <1>4, MailArrives DEF TypeOK
  <2>2. \A m : ~PushOf(x, m)
    BY <1>4 DEF PushOf
  <2>3. \A m, n : Precedes(mbox'[c], m, n) => Precedes(mbox[c], m, n)
    BY <2>1, <2>2, OrderOfAppend
  <2> QED
    BY <2>1, <2>2, <2>3 DEF Mailed
<1> QED
  BY <1>1, <1>2, <1>3, <1>4

LEMMA AcceptOrder ==
  ASSUME Typed, OrderInv, NEW c \in Conns, Accept(c)
  PROVE  OrderInv'
<1>1. /\ TypeOK /\ cl[c] = "off" /\ UNCHANGED <<got, stored, job, answer>>
      /\ hpc' = [hpc EXCEPT ![c] = "serve"]
      /\ mbox' = [mbox EXCEPT ![c] = <<[kind |-> "send_data", body |-> Handshake]>>]
  BY DEF Typed, Accept, dbVars, histVars
<1>2. /\ mbox'[c] = <<[kind |-> "send_data", body |-> Handshake]>>
      /\ \A d \in Conns \ {c} : mbox'[d] = mbox[d] /\ hpc'[d] = hpc[d]
      /\ hpc'[c] = "serve"
  BY <1>1 DEF TypeOK
<1>3. /\ \A m : ~PushOf([kind |-> "send_data", body |-> Handshake], m)
      /\ Mails(c)' = {[kind |-> "send_data", body |-> Handshake]} /\ Len(mbox'[c]) = 1
  BY <1>2, PacketFields DEF PushOf, Mails, Range
<1>4. \A d \in Conns, m \in Msgs : Mailed(d, m)' => Mailed(d, m)
  BY <1>2, <1>3 DEF Mailed, Mails
<1>5. \A d \in Conns, m, n \in Msgs : Precedes(mbox'[d], m, n) => Precedes(mbox[d], m, n)
  BY <1>2, <1>3 DEF Precedes
<1>6. \A s \in Conns : Inserted(s)' => Inserted(s) /\ job'[s].msg = job[s].msg
  BY <1>1, <1>2 DEF Inserted, Handling
<1> QED
  BY <1>1, <1>4, <1>5, <1>6, OrderKept

LEMMA RegistryOrder ==
  ASSUME Typed, OrderInv, Announce \/ AddConnection \/ RemoveConnection \/ SetUser \/ FindConnection
  PROVE  OrderInv'
<1>1. TypeOK
  BY DEF Typed
<1>2. CASE Announce \/ AddConnection \/ RemoveConnection \/ SetUser
  <2>1. UNCHANGED <<hpc, job, answer, mbox, got, stored>>
    BY <1>2 DEF Announce, AddConnection, RemoveConnection, SetUser, procVars, inVars, dbVars, histVars
  <2> QED
    BY <2>1, OrderKept DEF Mailed, Mails, Inserted
<1>3. CASE FindConnection
  <2>1. regQ # <<>> /\ IsCall(Head(regQ)) /\ UNCHANGED <<mbox, got, stored>>
    BY <1>3 DEF FindConnection, NextReg, IsCall, dbVars, histVars
  <2>2. PICK s \in Conns : s = Head(regQ).from
    BY <2>1, CallServed
  <2>3. hpc[s] \in Calling
    BY <2>1, <2>2, CallServed DEF IsCall, Calling
  <2>4. /\ \A d \in Conns \ {s} : UNCHANGED <<hpc[d], job[d], answer[d]>>
        /\ hpc'[s] = "serve" \/ UNCHANGED <<job[s], answer[s]>>
    BY SMTT(30), <1>1, <1>3, <2>2 DEF FindConnection, Goto, Done, Serve, TypeOK
  <2>5. \A d \in Conns : Inserted(d)' => Inserted(d) /\ job'[d].msg = job[d].msg
    BY <2>3, <2>4 DEF Inserted, Handling, Calling
  <2> QED
    BY <1>1, <2>1, <2>5, OrderKept DEF Mailed, Mails
<1> QED
  BY <1>2, <1>3

LEMMA QuietOrder ==
  ASSUME Typed, OrderInv, NEW c \in Conns,
         \/ ClientSends(c) \/ GiveUp(c) \/ ClientCloses(c) \/ SocketDelivers(c) \/ Dies(c) \/ Handler(c)
         \/ UpdateConnection(c) \/ CallReply(c) \/ CallLookup(c) \/ CallPush(c)
  PROVE  OrderInv'
<1>1. TypeOK
  BY DEF Typed
<1>2. CASE ClientSends(c) \/ GiveUp(c) \/ ClientCloses(c)
  <2>1. UNCHANGED <<hpc, job, answer, mbox, got, stored>>
    BY <1>2 DEF ClientSends, GiveUp, ClientCloses, procVars, inVars, dbVars, histVars
  <2> QED
    BY <1>1, <2>1, OrderKept DEF Mailed, Mails, Inserted
<1>3. CASE SocketDelivers(c)
  <2>1. UNCHANGED <<hpc, job, answer, got, stored>>
    BY <1>3 DEF SocketDelivers, procVars, dbVars, histVars
  <2>2. \E x \in Mail : x.kind # "send_data" /\ mbox' = [mbox EXCEPT ![c] = Append(@, x)]
    BY <1>1, <1>3, SocketShape
  <2> QED
    BY <1>1, <2>1, <2>2, NoPushArrives, OrderKept DEF Inserted
<1>4. CASE Dies(c)
  <2>1. /\ UNCHANGED <<job, answer, got, stored>> /\ hpc' = [hpc EXCEPT ![c] = "dead"]
        /\ mbox' = [mbox EXCEPT ![c] = <<>>]
    BY <1>4, DiesShape DEF Exits
  <2>2. \A s \in Conns : Inserted(s)' => Inserted(s) /\ job'[s].msg = job[s].msg
    BY <1>1, <2>1 DEF Inserted, Handling, TypeOK
  <2> QED
    BY <1>1, <2>1, <2>2, NoPushArrives, OrderKept
<1>5. CASE Handler(c)
  <2>1. PICK r \in Request, p \in Packet, stage \in {"announce", "insert", "reply"} :
          RequestOf(c, r) /\ TakesUp(c, r, p, stage)
    BY <1>5, HandlerShape
  <2>2. /\ UNCHANGED <<stored, got>> /\ mbox[c] # <<>> /\ mbox' = [mbox EXCEPT ![c] = Tail(@)]
        /\ hpc'[c] = stage /\ answer'[c] = p
        /\ \A d \in Conns \ {c} : UNCHANGED <<hpc[d], job[d], answer[d]>>
    BY <1>1, <2>1 DEF TakesUp, TypeOK
  <2>3. \A s \in Conns : Inserted(s)' => Inserted(s) /\ job'[s].msg = job[s].msg
    BY <2>1, <2>2 DEF TakesUp, Inserted
  <2> QED
    BY <1>1, <2>2, <2>3, NoPushArrives, OrderKept
<1>6. CASE UpdateConnection(c) \/ CallReply(c) \/ CallLookup(c) \/ CallPush(c)
  <2>1. PICK from \in Handling \ {"insert"}, to \in Handling : Advances(c, from, to) /\ UNCHANGED stored
    BY <1>6, AdvanceShape DEF Handling
  <2>2. /\ hpc[c] = from /\ \A d \in Conns \ {c} : hpc'[d] = hpc[d]
        /\ UNCHANGED <<job, answer, mbox, got>>
    BY <1>1, <2>1 DEF Advances, TypeOK
  <2>3. \A s \in Conns : Inserted(s)' => Inserted(s) /\ job'[s].msg = job[s].msg
    BY <2>2 DEF Inserted
  <2> QED
    BY <1>1, <2>1, <2>2, <2>3, NoPushArrives, OrderKept
<1> QED
  BY <1>2, <1>3, <1>4, <1>5, <1>6

-----------------------------------------------------------------------------
(* A message enters the table after all that have been pushed.             *)

LEMMA InsertOrder ==
  ASSUME Typed, OrderInv, NEW c \in Conns, InsertMessage(c)
  PROVE  OrderInv'
<1>1. /\ TypeOK /\ HandlerIsWhole(c) /\ hpc[c] = "insert" /\ stored' = Append(stored, job[c].msg)
      /\ UNCHANGED <<job, answer, mbox, got>> /\ \A d \in Conns \ {c} : hpc'[d] = hpc[d]
  BY DEF Typed, HandlersAreWhole, InsertMessage, TypeOK, Goto, inVars, histVars
<1>2. PICK n \in Msgs : n = job[c].msg
  BY <1>1 DEF HandlerIsWhole, RequestOf, Handling
<1>3. /\ \A k, m : StoredBefore(k, m) => StoredBefore(k, m)'
      /\ \A m : IsStored(m) => StoredBefore(m, n)'
  BY <1>1, <1>2, StoredOrder
<1>4. \A k, m : Follows(k, m) => Follows(k, m)'
  BY <1>3 DEF Follows
<1>5. \A d \in Conns, m \in Msgs :
        (Got(d, m)' <=> Got(d, m)) /\ (Mailed(d, m)' <=> Mailed(d, m)) /\ (Underway(d, m)' <=> Underway(d, m))
  BY <1>1 DEF Got, Mailed, Mails, Underway
<1>6. PushesInOrder'
  BY <1>1, <1>3 DEF OrderInv, PushesInOrder
<1>7. UnderwayAreStored'
  BY <1>1, <1>2, <1>5, StoredStay DEF OrderInv, UnderwayAreStored
<1>8. MailedAfterGot' /\ MailedInOrder'
  BY <1>1, <1>4, <1>5 DEF OrderInv, MailedAfterGot, MailedInOrder
<1>9. HandledComeLast'
  <2> SUFFICES ASSUME NEW s \in Conns, Inserted(s)', NEW d \in Conns, NEW m \in Msgs, Underway(d, m)
               PROVE  Follows(m, job[s].msg)'
    BY <1>5 DEF HandledComeLast
  <2>1. CASE s = c
    BY <1>1, <1>2, <1>3, <2>1 DEF OrderInv, UnderwayAreStored, Follows
  <2>2. CASE s # c
    <3>1. Inserted(s)
      BY <1>1, <2>2 DEF Inserted
    <3>2. Follows(m, job[s].msg)
      BY <3>1 DEF OrderInv, HandledComeLast
    <3> QED
      BY <1>1, <1>3, <3>2 DEF Follows
  <2> QED
    BY <2>1, <2>2
<1> QED
  BY <1>6, <1>7, <1>8, <1>9 DEF OrderInv

-----------------------------------------------------------------------------
(* A push arrives: it was the first in the mailbox.                        *)

LEMMA GotInOrder ==
  ASSUME UNCHANGED stored,
         \A c \in Conns : \A i, j \in 1..Len(got'[c]) : i < j => Follows(got'[c][i], got'[c][j])
  PROVE  PushesInOrder'
<1> SUFFICES ASSUME NEW c \in Conns, NEW i \in 1..Len(got'[c]), NEW j \in 1..Len(got'[c]), i < j,
                    SentBy[got'[c][i]] = SentBy[got'[c][j]]
             PROVE  \E k, l \in 1..Len(stored') :
                      k < l /\ stored'[k] = got'[c][i] /\ stored'[l] = got'[c][j]
  BY ZenonT(60) DEF PushesInOrder, StoredBefore
<1>1. Follows(got'[c][i], got'[c][j])
  OBVIOUS
<1> QED
  BY <1>1 DEF Follows, StoredBefore

LEMMA ArrivalOrder ==
  ASSUME Typed, OrderInv, NEW c \in Conns, NEW n \in Msgs, NEW x, x = Head(mbox[c]), PushOf(x, n),
         mbox[c] # <<>>, mbox' = [mbox EXCEPT ![c] = Tail(@)],
         got' = [got EXCEPT ![c] = Append(@, n)],
         UNCHANGED <<hpc, job, answer, stored>>
  PROVE  OrderInv'
<1>1. TypeOK
  BY DEF Typed
<1>2. /\ got[c] \in Seq(Msgs) /\ got'[c] = Append(got[c], n) /\ \A d \in Conns \ {c} : got'[d] = got[d]
      /\ mbox[c] \in Seq(Mail) /\ mbox'[c] = Tail(mbox[c]) /\ x \in Mails(c)
  BY <1>1, MailTaken DEF TypeOK
<1>3. /\ Len(got'[c]) = Len(got[c]) + 1 /\ Len(got[c]) \in Nat
      /\ \A i \in 1..Len(got[c]) : got'[c][i] = got[c][i] /\ got[c][i] \in Msgs
      /\ got'[c][Len(got[c]) + 1] = n
  BY <1>2
<1>4. \A d \in Conns, m \in Msgs : (Got(d, m)' => Got(d, m) \/ (d = c /\ m = n)) /\ (Got(d, m) => Got(d, m)')
  BY <1>2, <1>3 DEF Got
<1>5. /\ \A d \in Conns, m \in Msgs : Mailed(d, m)' => Mailed(d, m)
      /\ \A d \in Conns, k, m \in Msgs : Precedes(mbox'[d], k, m) => Precedes(mbox[d], k, m)
  BY <1>1, NoPushArrives
<1>6. Mailed(c, n)
  BY <1>2 DEF Mailed
<1>7. \A d \in Conns, m \in Msgs : Underway(d, m)' => Underway(d, m)
  BY <1>4, <1>5, <1>6 DEF Underway
<1>8. \A k, m : (Follows(k, m)' <=> Follows(k, m)) /\ (IsStored(m)' <=> IsStored(m))
  BY DEF Follows, StoredBefore, IsStored
<1>9. PushesInOrder'
  <2> SUFFICES ASSUME NEW d \in Conns, NEW i \in 1..Len(got'[d]), NEW j \in 1..Len(got'[d]), i < j
               PROVE  Follows(got'[d][i], got'[d][j])
    BY GotInOrder
  <2>1. CASE d # c
    BY <1>2, <2>1 DEF OrderInv, PushesInOrder, Follows
  <2>3. CASE d = c /\ j # Len(got[c]) + 1
    <3>1. /\ i \in 1..Len(got[c]) /\ j \in 1..Len(got[c])
          /\ got'[c][i] = got[c][i] /\ got'[c][j] = got[c][j]
      BY <1>3, <2>3
    <3> QED
      BY <2>3, <3>1 DEF OrderInv, PushesInOrder, Follows
  <2>2. CASE d = c /\ j = Len(got[c]) + 1
    <3>1. i \in 1..Len(got[c]) /\ got'[c][i] = got[c][i] /\ got[c][i] \in Msgs
      BY <1>3, <2>2
    <3>2. Got(c, got[c][i])
      BY <3>1 DEF Got
    <3> QED
      BY <1>3, <1>6, <2>2, <3>1, <3>2 DEF OrderInv, MailedAfterGot
  <2> QED
    BY <2>1, <2>2, <2>3
<1>10. MailedAfterGot'
  <2> SUFFICES ASSUME NEW d \in Conns, NEW k \in Msgs, NEW m \in Msgs, Got(d, k)', Mailed(d, m)'
               PROVE  Follows(k, m)
    BY <1>8 DEF MailedAfterGot
  <2>1. CASE Got(d, k)
    BY <1>5, <2>1 DEF OrderInv, MailedAfterGot
  <2>2. CASE d = c /\ k = n
    <3>1. \E y \in Range(Tail(mbox[c])) : PushOf(y, m)
      BY <1>2, <2>2 DEF Mailed, Mails
    <3>2. Precedes(mbox[c], n, m)
      BY <1>2, <3>1, OrderOfTail
    <3> QED
      BY <2>2, <3>2 DEF OrderInv, MailedInOrder
  <2> QED
    BY <1>4, <2>1, <2>2
<1>11. UnderwayAreStored' /\ MailedInOrder'
  BY <1>5, <1>7, <1>8 DEF OrderInv, UnderwayAreStored, MailedInOrder
<1>12. HandledComeLast'
  <2> SUFFICES ASSUME NEW s \in Conns, Inserted(s)', NEW d \in Conns, NEW m \in Msgs, Underway(d, m)'
               PROVE  Follows(m, job[s].msg)'
    BY DEF HandledComeLast
  <2>1. Inserted(s)
    BY DEF Inserted
  <2>2. Follows(m, job[s].msg)
    BY <1>7, <2>1 DEF OrderInv, HandledComeLast
  <2> QED
    BY <2>2 DEF Follows, StoredBefore
<1> QED
  BY <1>9, <1>10, <1>11, <1>12 DEF OrderInv

LEMMA SendDataOrder ==
  ASSUME Typed, OrderInv, NEW c \in Conns, SendData(c)
  PROVE  OrderInv'
<1>1. /\ TypeOK /\ hpc[c] = "serve" /\ mbox[c] # <<>> /\ Head(mbox[c]).kind = "send_data"
      /\ Receives(c, Head(mbox[c]).body)
      /\ hpc' = [hpc EXCEPT ![c] = "serve"] /\ mbox' = [mbox EXCEPT ![c] = Tail(@)]
      /\ UNCHANGED <<stored, job, answer>>
  BY DEF Typed, SendData, NextMail, Serve, dbVars
<1>2. UNCHANGED hpc
  BY <1>1 DEF TypeOK
<1>3. PICK x \in Mails(c) : x = Head(mbox[c])
  BY <1>1, MailTaken
<1>4. x.kind = "send_data" /\ WholePacket(x.body)
  BY <1>1, <1>3 DEF Typed, PacketsAreWhole
<1>5. CASE got' = got
  BY <1>1, <1>2, <1>5, NoPushArrives, OrderKept DEF Inserted
<1>6. CASE got' # got
  <2>1. /\ x.body.type = "recv_message"
        /\ got' = [got EXCEPT ![c] = Append(@, CHOOSE m \in x.body.msgs : TRUE)]
    BY <1>1, <1>3, <1>6 DEF Receives
  <2>2. PICK n \in Msgs : x.body.msgs = {n}
    BY <1>4, <2>1 DEF WholePacket
  <2>3. (CHOOSE m \in x.body.msgs : TRUE) = n
    BY <2>2
  <2>4. PushOf(x, n) /\ got' = [got EXCEPT ![c] = Append(@, n)]
    BY <1>4, <2>1, <2>2, <2>3 DEF PushOf
  <2> QED
    BY <1>1, <1>2, <1>3, <2>4, ArrivalOrder
<1> QED
  BY <1>5, <1>6

-----------------------------------------------------------------------------
(* A push enters a mailbox: all that are underway from the same sender were *)
(* stored before it, and its handler is done.                              *)

LEMMA PushOrder ==
  ASSUME Typed, AckInv, OrderInv, NEW s \in Conns, NEW c \in Conns, NEW n \in Msgs, NEW x \in Mail,
         PushOf(x, n), Inserted(s), job[s].msg = n, ~Inserted(s)',
         \A d \in Conns \ {s} : Inserted(d)' => Inserted(d) /\ job'[d].msg = job[d].msg,
         mbox' = [mbox EXCEPT ![c] = Append(@, x)], UNCHANGED <<got, stored>>
  PROVE  OrderInv'
<1>1. /\ TypeOK /\ mbox[c] \in Seq(Mail) /\ mbox'[c] = Append(mbox[c], x)
      /\ \A d \in Conns \ {c} : mbox'[d] = mbox[d] /\ Mails(d)' = Mails(d)
      /\ Mails(c)' = Mails(c) \cup {x}
  BY MailArrives DEF Typed, TypeOK
<1>2. \A m : PushOf(x, m) => m = n
  BY DEF PushOf
<1>3. \A d \in Conns, m \in Msgs :
        /\ Got(d, m)' <=> Got(d, m)
        /\ Mailed(d, m)' => Mailed(d, m) \/ (d = c /\ m = n)
        /\ Underway(d, m)' => Underway(d, m) \/ m = n
  BY <1>1, <1>2 DEF Got, Mailed, Underway
<1>4. \A k, m : (Follows(k, m)' <=> Follows(k, m)) /\ (IsStored(m)' <=> IsStored(m))
  BY DEF Follows, StoredBefore, IsStored
<1>5. \A d \in Conns, m \in Msgs : Underway(d, m) => Follows(m, n)
  BY DEF OrderInv, HandledComeLast
<1>6. SentBy[n] = s
  BY DEF Typed, HandlersAreWhole, HandlerIsWhole, RequestOf, Inserted
<1>7. PushesInOrder'
  BY DEF OrderInv, PushesInOrder, StoredBefore
<1>8. UnderwayAreStored'
  BY <1>3, <1>4 DEF OrderInv, UnderwayAreStored, AckInv, HandledAreStored
<1>9. MailedAfterGot'
  BY <1>3, <1>4, <1>5 DEF OrderInv, MailedAfterGot, Underway
<1>10. MailedInOrder'
  <2> SUFFICES ASSUME NEW d \in Conns, NEW k \in Msgs, NEW m \in Msgs, Precedes(mbox'[d], k, m)
               PROVE  Follows(k, m)
    BY <1>4 DEF MailedInOrder
  <2>1. CASE Precedes(mbox[d], k, m)
    BY <2>1 DEF OrderInv, MailedInOrder
  <2>2. CASE d = c /\ PushOf(x, m) /\ \E y \in Range(mbox[c]) : PushOf(y, k)
    BY <1>2, <1>5, <2>2 DEF Underway, Mailed, Mails
  <2> QED
    BY <1>1, <2>1, <2>2, OrderOfAppend
<1>11. HandledComeLast'
  <2> SUFFICES ASSUME NEW d \in Conns, Inserted(d)', NEW e \in Conns, NEW m \in Msgs, Underway(e, m)'
               PROVE  Follows(m, job[d].msg)'
    BY DEF HandledComeLast
  <2>1. d # s /\ Inserted(d) /\ job'[d].msg = job[d].msg
    OBVIOUS
  <2>2. SentBy[job[d].msg] = d
    BY <2>1 DEF Typed, HandlersAreWhole, HandlerIsWhole, RequestOf, Inserted
  <2>3. Follows(m, job[d].msg)
    BY <1>3, <1>6, <2>1, <2>2 DEF OrderInv, HandledComeLast, Follows
  <2> QED
    BY <2>1, <2>3 DEF Follows, StoredBefore
<1> QED
  BY <1>7, <1>8, <1>9, <1>10, <1>11 DEF OrderInv

LEMMA ForwardDataOrder ==
  ASSUME Typed, AckInv, OrderInv, ForwardData
  PROVE  OrderInv'
<1> DEFINE r == Head(regQ)
<1>1. TypeOK /\ regQ # <<>> /\ r.op = "send_data" /\ IsCall(r) /\ UNCHANGED <<got, stored>>
  BY DEF Typed, ForwardData, NextReg, IsCall, dbVars, histVars
<1>2. PICK s \in Conns, c \in Conns : s = r.from /\ c = r.conn
  BY <1>1, CallServed
<1>3. /\ HandlerIsWhole(s) /\ r.body \in Packet
      /\ \/ hpc[s] = "replied" /\ r.body = answer[s]
         \/ hpc[s] = "pushing" /\ r.body = Push(s)
  BY <1>1, <1>2, CallServed
<1>4. PICK x \in Mail : x = [kind |-> "send_data", body |-> r.body]
  BY <1>3, MailFields
<1>5. mbox' = mbox \/ mbox' = [mbox EXCEPT ![c] = Append(@, x)]
  BY <1>2, <1>4 DEF ForwardData
<1>6. \A d \in Conns \ {s} : UNCHANGED <<hpc[d], job[d], answer[d]>>
  BY <1>1, <1>2 DEF ForwardData, Goto, Done, Serve, TypeOK
<1>7. hpc'[s] = "serve" \/ UNCHANGED <<job[s], answer[s]>>
  BY <1>1, <1>2 DEF ForwardData, Goto, Done, Serve, TypeOK
<1>8. \A d \in Conns : Inserted(d)' => Inserted(d) /\ job'[d].msg = job[d].msg
  BY <1>3, <1>6, <1>7 DEF Inserted, Handling
<1>9. CASE mbox' = mbox
  BY <1>1, <1>8, <1>9, OrderKept DEF Mailed, Mails
<1>10. CASE mbox' = [mbox EXCEPT ![c] = Append(@, x)] /\ hpc[s] = "replied" /\ r.body = answer[s]
  <2>1. \A m : ~PushOf(x, m)
    BY <1>3, <1>4, <1>10, RequestFields DEF PushOf, HandlerIsWhole, RequestOf, Handling, RequestTypes
  <2>2. /\ mbox[c] \in Seq(Mail) /\ mbox'[c] = Append(mbox[c], x)
        /\ \A d \in Conns \ {c} : mbox'[d] = mbox[d] /\ Mails(d)' = Mails(d)
        /\ Mails(c)' = Mails(c) \cup {x}
    BY <1>1, <1>10, MailArrives DEF TypeOK
  <2>3. \A d \in Conns, m \in Msgs : Mailed(d, m)' => Mailed(d, m)
    BY <2>1, <2>2 DEF Mailed
  <2>4. \A d \in Conns, k, m \in Msgs : Precedes(mbox'[d], k, m) => Precedes(mbox[d], k, m)
    BY <2>1, <2>2, OrderOfAppend
  <2> QED
    BY <1>1, <1>8, <2>3, <2>4, OrderKept
<1>11. CASE mbox' = [mbox EXCEPT ![c] = Append(@, x)] /\ hpc[s] = "pushing" /\ r.body = Push(s)
  <2>1. Inserted(s) /\ job[s].msg \in Msgs
    BY <1>3, <1>11 DEF Inserted, HandlerIsWhole, Handling, RequestOf
  <2>2. PushOf(x, job[s].msg) /\ r.body.type = "recv_message"
    BY <1>4, <1>11 DEF PushOf, Push
  <2>3. ~Inserted(s)'
    BY ZenonT(60), <1>1, <1>2, <2>2 DEF ForwardData, Done, Serve, Inserted, Handling, TypeOK
  <2>4. PICK n \in Msgs : n = job[s].msg
    BY <2>1
  <2> QED
    BY <1>1, <1>8, <1>11, <2>1, <2>2, <2>3, <2>4, PushOrder
<1> QED
  BY <1>3, <1>5, <1>9, <1>10, <1>11

-----------------------------------------------------------------------------
THEOREM OrderIsKept == Spec => []OrderInv
<1>1. ASSUME Typed, AckInv, OrderInv, Next PROVE OrderInv'
  BY <1>1, Steps, AcceptOrder, RegistryOrder, QuietOrder, InsertOrder, SendDataOrder, ForwardDataOrder
<1> QED
  BY <1>1, TypesHold, AcksAreTrue, InitOrder, UnchangedOrder, PTL DEF Spec

(* What one device sends arrives at each other device in the order of the   *)
(* messages table, and at most once.                                       *)
THEOREM ArrivalInOrder == Spec => []PushesInOrder
<1>1. OrderInv => PushesInOrder
  BY DEF OrderInv
<1> QED
  BY <1>1, OrderIsKept, PTL

=============================================================================
