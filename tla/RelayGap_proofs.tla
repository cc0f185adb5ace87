---------------------------- MODULE RelayGap_proofs ----------------------------
(***************************************************************************)
(* Proof that no message falls between the fetch and the pushes            *)
(* (NoMessageGap), for any connections, users, messages and quotas.  Two    *)
(* things have to be known: that a connection which has fetched does not    *)
(* register again, because whatever its client still has underway is no    *)
(* login; and that the registry reads its mailbox in order, so that a       *)
(* handler which looks for the receiver finds what was registered before.  *)
(***************************************************************************)
EXTENDS Relay_proofs

-----------------------------------------------------------------------------
(* A session: the requests of one client, in the order of their ids.       *)

Pending(c) == Unread(c) \cup {x.body : x \in {y \in Mails(c) : y.kind = "tcp"}}
IsReply(x) == x.kind = "send_data" /\ x.body.type \notin {"handshake", "recv_message"}
Replies(c) == {x.body : x \in {y \in Mails(c) : IsReply(y)}}
Busy(c) == hpc[c] \in Handling

Late == {"req_pub_key", "req_messages", "send_message", "req_logout"}
EarlyStates == {"off", "dialing", "hello", "askedKey", "haveKey", "askedLogin"}
LateWaits == {"askedMessages", "askedPubKey", "sending", "loggingOut"}

Ascending(s) == \A i, j \in 1..Len(s) : i < j => s[i].id < s[j].id
TcpAscending(s) ==
  \A i, j \in 1..Len(s) : i < j /\ s[i].kind = "tcp" /\ s[j].kind = "tcp" => s[i].body.id < s[j].body.id

IdsAscend(c) ==
  /\ Ascending(sock[c]) /\ TcpAscending(mbox[c])
  /\ \A x \in Mails(c), r \in Unread(c) : x.kind = "tcp" => x.body.id < r.id

(* What is pending is newer than what is handled and what was answered.    *)
PendingAreNewer(c) ==
  /\ \A r \in Pending(c) : r.id <= tries[c]
  /\ \A p \in Replies(c) : p.id <= tries[c] /\ \A r \in Pending(c) : p.id < r.id
  /\ Busy(c) => job[c].id <= tries[c] /\ \A r \in Pending(c) : job[c].id < r.id

(* What a client asks for before and after its login.                      *)
LoginsComeFirst(c) ==
  /\ cl[c] \in EarlyStates => c \notin fetched /\ \A r \in Pending(c) : r.type \notin Late
  /\ cl[c] \notin EarlyStates \cup {"closed"} => \A r \in Pending(c) : r.type \in Late
  /\ cl[c] \in LateWaits =>
       /\ \A p \in Replies(c) : p.id = tries[c] => p.type \in Late \cup {"error"}
       /\ Busy(c) /\ job[c].id = tries[c] => job[c].type \in Late
  /\ \A r, q \in Pending(c) : r.type \in Late /\ r.id < q.id => q.type \in Late
  /\ c \in fetched =>
       /\ \A r \in Pending(c) : r.type \in Late
       /\ Busy(c) => job[c].type \in Late

SessionOf(c) == IdsAscend(c) /\ PendingAreNewer(c) /\ LoginsComeFirst(c)
SessionInv == \A c \in Conns : SessionOf(c)

-----------------------------------------------------------------------------
(* Nothing of the session changes, except that its handler may be done.    *)
LEMMA SessionStays ==
  ASSUME NEW c \in Conns, SessionOf(c), UNCHANGED <<sock[c], mbox[c], cl[c], tries[c]>>,
         c \in fetched' <=> c \in fetched, Busy(c)' => Busy(c) /\ job'[c] = job[c]
  PROVE  SessionOf(c)'
<1>1. Mails(c)' = Mails(c) /\ Unread(c)' = Unread(c)
  BY DEF Mails, Unread
<1>2. Pending(c)' = Pending(c) /\ Replies(c)' = Replies(c)
  BY <1>1 DEF Pending, Replies
<1>3. IdsAscend(c)'
  BY <1>1 DEF SessionOf, IdsAscend
<1>4. PendingAreNewer(c)'
  BY <1>2 DEF SessionOf, PendingAreNewer
<1>5. LoginsComeFirst(c)'
  BY <1>2 DEF SessionOf, LoginsComeFirst
<1> QED
  BY <1>3, <1>4, <1>5 DEF SessionOf

(* What is underway gets less, and the client may stop waiting.            *)
LEMMA SessionShrinks ==
  ASSUME NEW c \in Conns, SessionOf(c), IdsAscend(c)',
         Pending(c)' \subseteq Pending(c), Replies(c)' \subseteq Replies(c), tries'[c] = tries[c],
         c \in fetched' <=> c \in fetched, Busy(c)' => Busy(c) /\ job'[c] = job[c],
         \/ cl'[c] = cl[c] \/ cl'[c] = "closed"
         \/ cl[c] \in EarlyStates /\ cl'[c] \in EarlyStates
         \/ cl[c] \notin EarlyStates \cup {"closed"} /\ cl'[c] = "in"
  PROVE  SessionOf(c)'
<1>1. PendingAreNewer(c)'
  BY DEF SessionOf, PendingAreNewer
<1>2. LoginsComeFirst(c)'
  <2> USE DEF SessionOf, LoginsComeFirst
  <2>1. cl'[c] \in EarlyStates => cl[c] \in EarlyStates
    BY DEF EarlyStates
  <2>2. cl'[c] \notin EarlyStates \cup {"closed"} => cl[c] \notin EarlyStates \cup {"closed"}
    BY DEF EarlyStates
  <2>3. cl'[c] \in LateWaits => cl'[c] = cl[c]
    BY DEF EarlyStates, LateWaits
  <2> QED
    BY <2>1, <2>2, <2>3
<1> QED
  BY <1>1, <1>2 DEF SessionOf

-----------------------------------------------------------------------------
(* Ids in the queues.                                                      *)

LEMMA TailAscends ==
  ASSUME NEW s \in Seq(Request), s # <<>>, Ascending(s)
  PROVE  Ascending(Tail(s)) /\ \A r \in Range(Tail(s)) : Head(s).id < r.id
<1> DEFINE t == Tail(s)
<1>1. /\ t \in Seq(Request) /\ Len(s) \in Nat \ {0} /\ Head(s) = s[1] /\ Len(t) = Len(s) - 1
      /\ \A i \in 1..Len(t) : t[i] = s[i + 1] /\ i + 1 \in 1..Len(s) /\ 1 < i + 1 /\ 1 \in 1..Len(s)
  BY HeadTailProperties, EmptySeq
<1> HIDE DEF t
<1>2. Ascending(t)
  <2> SUFFICES ASSUME NEW i \in 1..Len(t), NEW j \in 1..Len(t), i < j PROVE t[i].id < t[j].id
    BY DEF Ascending
  <2>1. /\ t[i] = s[i + 1] /\ i + 1 \in 1..Len(s)
        /\ t[j] = s[j + 1] /\ j + 1 \in 1..Len(s) /\ i + 1 < j + 1
    BY <1>1
  <2> QED
    BY <2>1 DEF Ascending
<1>3. \A r \in Range(t) : Head(s).id < r.id
  <2> SUFFICES ASSUME NEW i \in 1..Len(t) PROVE Head(s).id < t[i].id
    BY <1>1, RangeEquality
  <2> QED
    BY <1>1 DEF Ascending
<1> QED
  BY <1>2, <1>3 DEF t

LEMMA AppendAscends ==
  ASSUME NEW s \in Seq(Request), NEW r \in Request, Ascending(s), \A q \in Range(s) : q.id < r.id
  PROVE  Ascending(Append(s, r))
<1> DEFINE t == Append(s, r)
<1>1. /\ Len(t) = Len(s) + 1 /\ Len(s) \in Nat /\ t[Len(s) + 1] = r
      /\ \A i \in 1..Len(s) : t[i] = s[i] /\ s[i] \in Range(s)
  BY RangeEquality
<1> HIDE DEF t
<1>2. ASSUME NEW i \in 1..Len(t), NEW j \in 1..Len(t), i < j PROVE t[i].id < t[j].id
  <2>1. CASE j = Len(s) + 1
    BY <1>1, <1>2, <2>1
  <2>2. CASE j \in 1..Len(s)
    BY <1>1, <1>2, <2>2 DEF Ascending
  <2> QED
    BY <1>1, <2>1, <2>2
<1> QED
  BY <1>2 DEF Ascending, t

LEMMA TailTcpAscends ==
  ASSUME NEW s \in Seq(Mail), s # <<>>, TcpAscending(s)
  PROVE  /\ TcpAscending(Tail(s))
         /\ Head(s).kind = "tcp" => \A x \in Range(Tail(s)) : x.kind = "tcp" => Head(s).body.id < x.body.id
<1> DEFINE t == Tail(s)
<1>1. /\ t \in Seq(Mail) /\ Len(s) \in Nat \ {0} /\ Head(s) = s[1] /\ Len(t) = Len(s) - 1
      /\ \A i \in 1..Len(t) : t[i] = s[i + 1] /\ i + 1 \in 1..Len(s) /\ 1 < i + 1 /\ 1 \in 1..Len(s)
  BY HeadTailProperties, EmptySeq
<1> HIDE DEF t
<1>2. TcpAscending(t)
  <2> SUFFICES ASSUME NEW i \in 1..Len(t), NEW j \in 1..Len(t), i < j, t[i].kind = "tcp", t[j].kind = "tcp"
               PROVE  t[i].body.id < t[j].body.id
    BY DEF TcpAscending
  <2>1. /\ t[i] = s[i + 1] /\ i + 1 \in 1..Len(s)
        /\ t[j] = s[j + 1] /\ j + 1 \in 1..Len(s) /\ i + 1 < j + 1
    BY <1>1
  <2> QED
    BY <2>1 DEF TcpAscending
<1>3. ASSUME Head(s).kind = "tcp", NEW x \in Range(t), x.kind = "tcp" PROVE Head(s).body.id < x.body.id
  <2>1. PICK i \in 1..Len(t) : t[i] = x
    BY <1>1, RangeEquality
  <2> QED
    BY <1>1, <1>3, <2>1 DEF TcpAscending
<1> QED
  BY <1>2, <1>3 DEF t

LEMMA AppendTcpAscends ==
  ASSUME NEW s \in Seq(Mail), NEW x \in Mail, TcpAscending(s),
         x.kind = "tcp" => \A y \in Range(s) : y.kind = "tcp" => y.body.id < x.body.id
  PROVE  TcpAscending(Append(s, x))
<1> DEFINE t == Append(s, x)
<1>1. /\ Len(t) = Len(s) + 1 /\ Len(s) \in Nat /\ t[Len(s) + 1] = x
      /\ \A i \in 1..Len(s) : t[i] = s[i] /\ s[i] \in Range(s)
  BY RangeEquality
<1> HIDE DEF t
<1>2. ASSUME NEW i \in 1..Len(t), NEW j \in 1..Len(t), i < j, t[i].kind = "tcp", t[j].kind = "tcp"
      PROVE  t[i].body.id < t[j].body.id
  <2>1. CASE j = Len(s) + 1
    BY <1>1, <1>2, <2>1
  <2>2. CASE j \in 1..Len(s)
    BY <1>1, <1>2, <2>2 DEF TcpAscending
  <2> QED
    BY <1>1, <2>1, <2>2
<1> QED
  BY <1>2 DEF TcpAscending, t

LEMMA PendingFields ==
  ASSUME Typed, NEW c \in Conns
  PROVE  /\ \A r \in Pending(c) : r \in Request /\ r.id \in Nat
         /\ \A p \in Replies(c) : p \in Packet /\ p.id \in Nat
         /\ Busy(c) => job[c].id \in Nat
<1>1. Mails(c) \subseteq Mail /\ Unread(c) \subseteq Request
  BY QueueMembers DEF Typed
<1>2. \A r \in Pending(c) : r \in Request
  BY <1>1, MailFields DEF Pending
<1>3. \A p \in Replies(c) : p \in Packet
  BY <1>1, MailFields DEF Replies, IsReply
<1>4. Busy(c) => job[c] \in Request
  BY DEF Typed, HandlersAreWhole, HandlerIsWhole, RequestOf, Busy
<1> QED
  BY <1>2, <1>3, <1>4, RequestFields, PacketFields

(* A session in which nothing travels.                                     *)
LEMMA EmptySession ==
  ASSUME NEW c \in Conns, Mails(c) \subseteq {[kind |-> "send_data", body |-> Handshake]}, Unread(c) = {}
  PROVE  Pending(c) = {} /\ Replies(c) = {}
BY PacketFields DEF Pending, Replies, IsReply

LEMMA InitSession == Init => SessionInv
<1> SUFFICES ASSUME Init, NEW c \in Conns PROVE SessionOf(c)
  BY DEF SessionInv
<1>1. /\ sock[c] = <<>> /\ mbox[c] = <<>> /\ hpc[c] = "off" /\ cl[c] = "off" /\ fetched = {}
      /\ Mails(c) = {} /\ Unread(c) = {}
  BY EmptyRange DEF Init, Mails, Unread
<1>2. Pending(c) = {} /\ Replies(c) = {}
  BY <1>1, EmptySession
<1>3. Ascending(sock[c]) /\ TcpAscending(mbox[c])
  BY <1>1 DEF Ascending, TcpAscending
<1> QED
  BY <1>1, <1>2, <1>3
  DEF SessionOf, IdsAscend, PendingAreNewer, LoginsComeFirst, Busy, Handling, LateWaits, EarlyStates

LEMMA UnchangedSession == SessionInv /\ UNCHANGED vars => SessionInv'
<1> SUFFICES ASSUME SessionInv, UNCHANGED vars, NEW c \in Conns PROVE SessionOf(c)'
  BY DEF SessionInv
<1> QED
  BY SessionStays DEF SessionInv, vars, procVars, inVars, clientVars, histVars, Busy

-----------------------------------------------------------------------------
(* Every step keeps the sessions in order.                                 *)

LEMMA OneSession ==
  ASSUME SessionInv, NEW c \in Conns, SessionOf(c)',
         \A d \in Conns \ {c} : /\ UNCHANGED <<sock[d], mbox[d], cl[d], tries[d], hpc[d], job[d]>>
                                /\ d \in fetched' <=> d \in fetched
  PROVE  SessionInv'
<1> SUFFICES ASSUME NEW d \in Conns \ {c} PROVE SessionOf(d)'
  BY DEF SessionInv
<1> QED
  BY SessionStays DEF SessionInv, Busy

(* Steps that have to do with no session.                                  *)
LEMMA RegistrySession ==
  ASSUME SessionInv, Announce \/ AddConnection \/ RemoveConnection \/ SetUser
  PROVE  SessionInv'
<1> SUFFICES ASSUME NEW c \in Conns PROVE SessionOf(c)'
  BY DEF SessionInv
<1>1. UNCHANGED <<sock, mbox, cl, tries, fetched, hpc, job>>
  BY DEF Announce, AddConnection, RemoveConnection, SetUser, procVars, inVars, clientVars, histVars
<1> QED
  BY <1>1, SessionStays DEF SessionInv, Busy

LEMMA AcceptSession ==
  ASSUME Typed, SessionInv, NEW c \in Conns, Accept(c)
  PROVE  SessionInv'
<1>1. /\ TypeOK /\ cl[c] = "off" /\ UNCHANGED <<job, sock, tries, fetched>>
      /\ hpc' = [hpc EXCEPT ![c] = "serve"] /\ cl' = [cl EXCEPT ![c] = "dialing"]
      /\ mbox' = [mbox EXCEPT ![c] = <<[kind |-> "send_data", body |-> Handshake]>>]
  BY DEF Typed, Accept, histVars
<1>2. /\ mbox'[c] = <<[kind |-> "send_data", body |-> Handshake]>> /\ hpc'[c] = "serve" /\ cl'[c] = "dialing"
      /\ \A d \in Conns \ {c} : UNCHANGED <<mbox[d], hpc[d], cl[d]>>
  BY <1>1 DEF TypeOK
<1>3. Mails(c)' = {[kind |-> "send_data", body |-> Handshake]} /\ Len(mbox'[c]) = 1
  BY <1>2 DEF Mails, Range
<1>4. Unread(c)' = Unread(c) /\ Pending(c)' = Unread(c) /\ Replies(c)' = {}
  BY <1>1, <1>3, PacketFields DEF Unread, Pending, Replies, IsReply
<1>5. SessionOf(c)
  BY DEF SessionInv
<1>6. Pending(c)' \subseteq Pending(c) /\ Replies(c)' \subseteq Replies(c)
  BY <1>4 DEF Pending
<1>7. IdsAscend(c)'
  BY <1>1, <1>2, <1>3, <1>4, <1>5 DEF SessionOf, IdsAscend, TcpAscending
<1>8. SessionOf(c)'
  BY <1>1, <1>2, <1>5, <1>6, <1>7, SessionShrinks DEF Busy, Handling, EarlyStates
<1> QED
  BY <1>1, <1>2, <1>8, OneSession

LEMMA ClientStopsSession ==
  ASSUME Typed, SessionInv, NEW c \in Conns, GiveUp(c) \/ ClientCloses(c)
  PROVE  SessionInv'
<1>1. TypeOK /\ UNCHANGED <<hpc, job, sock, mbox, tries, fetched>>
  BY DEF Typed, GiveUp, ClientCloses, procVars, inVars, histVars
<1>2. /\ \/ cl'[c] = "closed"
         \/ cl[c] \in EarlyStates /\ cl'[c] \in EarlyStates
         \/ cl[c] \notin EarlyStates \cup {"closed"} /\ cl'[c] = "in"
      /\ \A d \in Conns \ {c} : cl'[d] = cl[d]
  BY <1>1 DEF GiveUp, ClientCloses, Waiting, EarlyStates, TypeOK
<1>3. Pending(c)' = Pending(c) /\ Replies(c)' = Replies(c) /\ (IdsAscend(c) => IdsAscend(c)')
  BY <1>1 DEF Pending, Replies, IdsAscend, Mails, Unread
<1>4. SessionOf(c) /\ IdsAscend(c)'
  BY <1>3 DEF SessionInv, SessionOf
<1>5. SessionOf(c)'
  BY <1>1, <1>2, <1>3, <1>4, SessionShrinks DEF Busy
<1> QED
  BY <1>1, <1>2, <1>5, OneSession

(* A new request gets the newest id; before its login a client asks for no  *)
(* more than the login.                                                    *)
LEMMA ClientSendsSession ==
  ASSUME Typed, SessionInv, NEW c \in Conns, ClientSends(c)
  PROVE  SessionInv'
<1>1. TypeOK /\ SessionOf(c)
  BY DEF Typed, SessionInv
<1>2. PICK q \in Request, s \in Waits :
        /\ RequestOf(c, q) /\ q.id = tries[c] + 1 /\ q.token = tok[c]
        /\ sock' = [sock EXCEPT ![c] = Append(@, q)]
        /\ sent' = IF q.type = "send_message" THEN sent \cup {q.msg} ELSE sent
        /\ q.type = "send_message" => q.msg \notin sent
        /\ <<q.type, q.msg, s>> \in Requests(c) /\ cl' = [cl EXCEPT ![c] = s]
  BY <1>1, SendShape
<1>3. /\ tries' = [tries EXCEPT ![c] = @ + 1] /\ UNCHANGED <<hpc, job, mbox, fetched>>
  BY DEF ClientSends, procVars, histVars
<1>4. /\ sock'[c] = Append(sock[c], q) /\ sock[c] \in Seq(Request) /\ cl'[c] = s /\ tries'[c] = tries[c] + 1
      /\ tries[c] \in Nat /\ cl[c] \notin {"off", "closed"}
      /\ \A d \in Conns \ {c} : UNCHANGED <<sock[d], cl[d], tries[d]>>
  BY <1>1, <1>2, <1>3 DEF TypeOK, Requests
<1>5. Unread(c)' = Unread(c) \cup {q} /\ Mails(c)' = Mails(c)
  BY <1>1, <1>2, <1>3, RequestWritten DEF Mails
<1>6. Pending(c)' = Pending(c) \cup {q} /\ Replies(c)' = Replies(c)
  BY <1>5 DEF Pending, Replies
<1>7. /\ \A r \in Pending(c) : r \in Request /\ r.id \in Nat
      /\ \A p \in Replies(c) : p \in Packet /\ p.id \in Nat
      /\ Busy(c) => job[c].id \in Nat
  BY PendingFields
<1>8. \A r \in Pending(c) : r.id <= tries[c] /\ r.id < q.id
  BY <1>1, <1>2, <1>4, <1>7 DEF SessionOf, PendingAreNewer
<1>9. IdsAscend(c)'
  <2>1. Ascending(sock'[c])
    BY <1>1, <1>4, <1>8, AppendAscends DEF SessionOf, IdsAscend, Pending, Unread
  <2>2. \A x \in Mails(c) : x.kind = "tcp" => x.body.id < q.id
    BY <1>8 DEF Pending
  <2> QED
    BY <1>1, <1>3, <1>5, <2>1, <2>2 DEF SessionOf, IdsAscend
<1>10. PendingAreNewer(c)'
  BY <1>1, <1>2, <1>3, <1>4, <1>6, <1>7 DEF SessionOf, PendingAreNewer, Busy
<1>11. /\ cl[c] \in EarlyStates <=> s \in EarlyStates
       /\ cl[c] \in EarlyStates <=> q.type \notin Late
  BY <1>2 DEF Requests, EarlyStates, Late
<1>12. LoginsComeFirst(c)'
  <2> USE DEF LoginsComeFirst
  <2>1. LoginsComeFirst(c)
    BY <1>1 DEF SessionOf
  <2>2. cl'[c] \in LateWaits =>
           /\ \A p \in Replies(c)' : p.id # tries'[c]
           /\ Busy(c)' => job'[c].id # tries'[c]
    BY <1>1, <1>3, <1>4, <1>6, <1>7 DEF SessionOf, PendingAreNewer, Busy
  <2>3. \A r \in Pending(c) : r.type \in Late => q.type \in Late
    BY <1>4, <1>11, <2>1
  <2>4. c \in fetched => q.type \in Late
    BY <1>11, <2>1
  <2> QED
    BY <1>3, <1>4, <1>6, <1>8, <1>11, <2>1, <2>2, <2>3, <2>4 DEF Busy, EarlyStates, Waits
<1>13. SessionOf(c)'
  BY <1>9, <1>10, <1>12 DEF SessionOf
<1> QED
  BY <1>3, <1>4, <1>13, OneSession

(* A request goes from the socket to the end of the mailbox.               *)
LEMMA SocketDeliversSession ==
  ASSUME Typed, SessionInv, NEW c \in Conns, SocketDelivers(c)
  PROVE  SessionInv'
<1>1. /\ TypeOK /\ SessionOf(c) /\ mbox[c] \in Seq(Mail) /\ sock[c] \in Seq(Request)
      /\ UNCHANGED <<hpc, job, cl, tries, fetched>>
  BY DEF Typed, SessionInv, SocketDelivers, procVars, clientVars, histVars, TypeOK
<1>2. CASE sock[c] # <<>> /\ mbox' = [mbox EXCEPT ![c] = Append(@, [kind |-> "tcp", body |-> Head(sock[c])])]
           /\ sock' = [sock EXCEPT ![c] = Tail(@)]
  <2>1. /\ Head(sock[c]) \in Request /\ Head(sock[c]) \in Unread(c)
        /\ \A d \in Conns : Unread(d)' \subseteq Unread(d)
    BY <1>1, <1>2, RequestRead
  <2>2. PICK r \in Request, x \in Mail : r = Head(sock[c]) /\ x = [kind |-> "tcp", body |-> r]
    BY <2>1, MailFields
  <2>3. mbox' = [mbox EXCEPT ![c] = Append(@, x)]
    BY <1>2, <2>2
  <2>4. Mails(c)' = Mails(c) \cup {x}
    BY <1>1, <2>3, MailArrives
  <2>5. /\ mbox'[c] = Append(mbox[c], x) /\ sock'[c] = Tail(sock[c])
        /\ \A d \in Conns \ {c} : UNCHANGED <<mbox[d], sock[d]>>
    BY <1>1, <1>2, <2>3 DEF TypeOK
  <2>6. Pending(c)' \subseteq Pending(c) /\ Replies(c)' = Replies(c)
    BY <2>1, <2>2, <2>4 DEF Pending, Replies, IsReply
  <2>7. IdsAscend(c)
    BY <1>1 DEF SessionOf
  <2>8. Ascending(sock'[c]) /\ \A q \in Unread(c)' : r.id < q.id
    BY <1>1, <1>2, <2>2, <2>5, <2>7, TailAscends DEF IdsAscend, Unread
  <2>9. TcpAscending(mbox'[c])
    <3>1. \A y \in Range(mbox[c]) : y.kind = "tcp" => y.body.id < x.body.id
      BY <2>1, <2>2, <2>7 DEF IdsAscend, Mails
    <3> QED
      BY <1>1, <2>5, <2>7, <3>1, AppendTcpAscends DEF IdsAscend
  <2>10. IdsAscend(c)'
    BY <2>1, <2>2, <2>4, <2>7, <2>8, <2>9 DEF IdsAscend
  <2>11. SessionOf(c)'
    BY <1>1, <2>6, <2>10, SessionShrinks DEF Busy
  <2> QED
    BY <1>1, <2>5, <2>11, OneSession
<1>3. CASE mbox' = [mbox EXCEPT ![c] = Append(@, [kind |-> "tcp_closed"])] /\ UNCHANGED sock
  <2>1. PICK x \in Mail : x = [kind |-> "tcp_closed"]
    BY MailFields
  <2>2. mbox' = [mbox EXCEPT ![c] = Append(@, x)] /\ x.kind # "tcp" /\ ~IsReply(x)
    BY <1>3, <2>1 DEF IsReply
  <2>3. Mails(c)' = Mails(c) \cup {x} /\ Unread(c)' = Unread(c)
    BY <1>1, <1>3, <2>2, MailArrives DEF Unread
  <2>4. mbox'[c] = Append(mbox[c], x) /\ \A d \in Conns \ {c} : UNCHANGED <<mbox[d], sock[d]>>
    BY <1>1, <1>3, <2>2 DEF TypeOK
  <2>5. Pending(c)' = Pending(c) /\ Replies(c)' = Replies(c)
    BY <2>2, <2>3 DEF Pending, Replies
  <2>6. IdsAscend(c)'
    <3>1. IdsAscend(c)
      BY <1>1 DEF SessionOf
    <3>2. TcpAscending(mbox'[c])
      BY <1>1, <2>2, <2>4, <3>1, AppendTcpAscends DEF IdsAscend
    <3> QED
      BY <1>3, <2>2, <2>3, <3>1, <3>2 DEF IdsAscend
  <2>7. SessionOf(c)'
    BY <1>1, <2>5, <2>6, SessionShrinks DEF Busy
  <2> QED
    BY <1>1, <2>4, <2>7, OneSession
<1> QED
  BY <1>2, <1>3 DEF SocketDelivers

(* The mailbox without its head.                                           *)
LEMMA TakenFromMailbox ==
  ASSUME Typed, NEW c \in Conns, SessionOf(c), mbox[c] # <<>>, mbox' = [mbox EXCEPT ![c] = Tail(@)],
         UNCHANGED sock
  PROVE  /\ IdsAscend(c)' /\ Pending(c)' \subseteq Pending(c) /\ Replies(c)' \subseteq Replies(c)
         /\ Head(mbox[c]).kind = "tcp" =>
              /\ Head(mbox[c]).body \in Pending(c)
              /\ \A r \in Pending(c)' : Head(mbox[c]).body.id < r.id
         /\ IsReply(Head(mbox[c])) => Head(mbox[c]).body \in Replies(c)
         /\ \A d \in Conns \ {c} : UNCHANGED <<mbox[d], sock[d]>>
<1>1. /\ TypeOK /\ mbox[c] \in Seq(Mail) /\ mbox'[c] = Tail(mbox[c]) /\ IdsAscend(c)
      /\ \A d \in Conns \ {c} : UNCHANGED <<mbox[d], sock[d]>>
  BY DEF Typed, TypeOK, SessionOf
<1>2. Head(mbox[c]) \in Mails(c) /\ Mails(c)' \subseteq Mails(c) /\ Unread(c)' = Unread(c)
  BY <1>1, MailTaken DEF Unread
<1>3. /\ TcpAscending(mbox'[c])
      /\ Head(mbox[c]).kind = "tcp" => \A x \in Mails(c)' : x.kind = "tcp" => Head(mbox[c]).body.id < x.body.id
  BY <1>1, TailTcpAscends DEF IdsAscend, Mails
<1> DEFINE h == Head(mbox[c])
<1> HIDE DEF h
<1>4. Pending(c)' \subseteq Pending(c) /\ Replies(c)' \subseteq Replies(c)
  BY <1>2 DEF Pending, Replies
<1>5. IdsAscend(c)'
  BY <1>1, <1>2, <1>3 DEF IdsAscend
<1>6. h \in Mails(c) /\ (h.kind = "tcp" => \A x \in Mails(c)' : x.kind = "tcp" => h.body.id < x.body.id)
  BY <1>2, <1>3 DEF h
<1>7. h.kind = "tcp" => h.body \in Pending(c) /\ \A r \in Pending(c)' : h.body.id < r.id
  BY <1>1, <1>2, <1>6 DEF Pending, IdsAscend
<1>8. IsReply(h) => h.body \in Replies(c)
  BY <1>6 DEF Replies
<1> QED
  BY <1>1, <1>4, <1>5, <1>7, <1>8 DEF h

(* A packet is written: an answer counts only when it is the last one that  *)
(* may come, and after the login it is no login.                           *)
LEMMA SendDataSession ==
  ASSUME Typed, SessionInv, NEW c \in Conns, SendData(c)
  PROVE  SessionInv'
<1> DEFINE x == Head(mbox[c])
<1>1. /\ TypeOK /\ SessionOf(c) /\ mbox[c] # <<>> /\ x.kind = "send_data" /\ Receives(c, x.body)
      /\ hpc[c] = "serve" /\ hpc' = [hpc EXCEPT ![c] = "serve"] /\ mbox' = [mbox EXCEPT ![c] = Tail(@)]
      /\ UNCHANGED <<job, sock, tries, fetched>>
  BY DEF Typed, SessionInv, SendData, NextMail, Serve
<1>2. /\ IdsAscend(c)' /\ Pending(c)' \subseteq Pending(c) /\ Replies(c)' \subseteq Replies(c)
      /\ IsReply(x) => x.body \in Replies(c)
      /\ \A d \in Conns \ {c} : UNCHANGED <<mbox[d], sock[d]>>
  BY <1>1, TakenFromMailbox
<1>3. /\ x \in Mails(c) /\ x \in Mail
  BY <1>1, MailTaken
<1>4. PICK p \in Packet : p = x.body /\ WholePacket(p)
  BY <1>1, <1>3, MailFields DEF Typed, PacketsAreWhole
<1>5. hpc' = hpc /\ ~Busy(c) /\ ~Busy(c)'
  BY <1>1 DEF TypeOK, Busy, Handling
<1>6. /\ IsReply(x) <=> p.type \notin {"handshake", "recv_message"}
      /\ Waiting(c) => tries[c] # 0
  BY <1>1, <1>4 DEF IsReply, Typed, PacketsAreWhole
<1> HIDE DEF x
<1>7. Answers(c, p) =>
        /\ p \in Replies(c) /\ Pending(c) = {} /\ p.id = tries[c]
        /\ cl[c] \in LateWaits => p.type \in Late \cup {"error"}
  <2> SUFFICES ASSUME Answers(c, p)
               PROVE  /\ p \in Replies(c) /\ Pending(c) = {} /\ p.id = tries[c]
                      /\ cl[c] \in LateWaits => p.type \in Late \cup {"error"}
    OBVIOUS
  <2>1. p \in Replies(c) /\ p.id = tries[c] /\ p.id \in Nat
    BY <1>2, <1>4, <1>6, PacketFields DEF Answers, WholePacket
  <2>2. \A r \in Pending(c) : r.id \in Nat /\ r.id <= tries[c] /\ p.id < r.id
    BY <1>1, <2>1, PendingFields DEF SessionOf, PendingAreNewer
  <2> QED
    BY <1>1, <2>1, <2>2 DEF SessionOf, LoginsComeFirst
<1>8. /\ cl'[c] = IF p.type = "handshake" /\ cl[c] = "dialing" THEN "hello"
                  ELSE IF ~Answers(c, p) THEN cl[c]
                  ELSE IF p.type = "error" THEN IF cl[c] \in {"askedKey", "askedLogin"} THEN "hello" ELSE "in"
                  ELSE IF p.type = "req_key" THEN "haveKey"
                  ELSE IF p.type = "req_login" THEN "loggedIn"
                  ELSE "in"
      /\ \A d \in Conns \ {c} : cl'[d] = cl[d]
  BY <1>1, <1>4 DEF Receives, TypeOK
<1>9. SessionOf(c)'
  <2>1. CASE \/ cl'[c] = cl[c]
             \/ cl[c] \in EarlyStates /\ cl'[c] \in EarlyStates
             \/ cl[c] \notin EarlyStates \cup {"closed"} /\ cl'[c] = "in"
    BY <1>1, <1>2, <1>5, <2>1, SessionShrinks
  <2>2. CASE Answers(c, p) /\ cl[c] \in LateWaits
    <3>1. cl[c] \notin EarlyStates \cup {"closed"} /\ cl'[c] = "in"
      BY <1>7, <1>8, <2>2 DEF EarlyStates, LateWaits, Late
    <3> QED
      BY <2>1, <3>1
  <2>3. CASE Answers(c, p) /\ cl[c] \in {"askedKey", "askedLogin"} /\ cl'[c] \in {"loggedIn", "in"}
    <3>1. Pending(c) = {} /\ Pending(c)' = {} /\ c \notin fetched
      BY <1>1, <1>2, <1>7, <2>3 DEF SessionOf, LoginsComeFirst, EarlyStates
    <3>2. PendingAreNewer(c)'
      BY <1>1, <1>2, <1>5, <3>1 DEF SessionOf, PendingAreNewer
    <3>3. LoginsComeFirst(c)'
      BY <1>1, <1>5, <2>3, <3>1 DEF LoginsComeFirst, EarlyStates, LateWaits
    <3> QED
      BY <1>2, <3>2, <3>3 DEF SessionOf
  <2> QED
    BY <1>8, <2>1, <2>2, <2>3 DEF Answers, Waiting, EarlyStates, LateWaits
<1> QED
  BY <1>1, <1>2, <1>5, <1>8, <1>9, OneSession

LEMMA DiesSession ==
  ASSUME Typed, SessionInv, NEW c \in Conns, Dies(c)
  PROVE  SessionInv'
<1>1. TypeOK /\ SessionOf(c) /\ Exits(c)
  BY DiesShape DEF Typed, SessionInv
<1>2. /\ Mails(c)' = {} /\ Unread(c)' = {}
      /\ mbox'[c] = <<>> /\ sock'[c] = <<>> /\ hpc'[c] = "dead"
      /\ \A d \in Conns \ {c} : UNCHANGED <<mbox[d], sock[d], hpc[d]>>
      /\ UNCHANGED <<cl, tries, fetched, job>>
  BY <1>1, QueuesDropped DEF Exits, TypeOK
<1>3. Pending(c)' = {} /\ Replies(c)' = {}
  BY <1>2 DEF Pending, Replies
<1>4. IdsAscend(c)'
  BY <1>2 DEF IdsAscend, Ascending, TcpAscending
<1>5. ~Busy(c)'
  BY <1>2 DEF Busy, Handling
<1>6. SessionOf(c)'
  BY <1>1, <1>2, <1>3, <1>4, <1>5, SessionShrinks
<1> QED
  BY <1>2, <1>6, OneSession

(* A handler takes up the oldest request that is pending.                  *)
LEMMA HandlerSession ==
  ASSUME Typed, SessionInv, NEW c \in Conns, Handler(c)
  PROVE  SessionInv'
<1>1. PICK r \in Request, p \in Packet, stage \in {"announce", "insert", "reply"} :
        RequestOf(c, r) /\ TakesUp(c, r, p, stage)
  BY HandlerShape
<1>2. /\ TypeOK /\ SessionOf(c) /\ mbox[c] # <<>> /\ mbox' = [mbox EXCEPT ![c] = Tail(@)]
      /\ Head(mbox[c]).kind = "tcp" /\ Head(mbox[c]).body = r
      /\ job' = [job EXCEPT ![c] = r] /\ hpc' = [hpc EXCEPT ![c] = stage]
      /\ UNCHANGED <<sock, cl, tries>>
      /\ \/ r.type = "req_messages" /\ fetched' = fetched \cup {c}
         \/ fetched' = fetched
  BY <1>1 DEF TakesUp, Typed, SessionInv, Fetches
<1>3. /\ IdsAscend(c)' /\ Pending(c)' \subseteq Pending(c) /\ Replies(c)' \subseteq Replies(c)
      /\ r \in Pending(c) /\ \A q \in Pending(c)' : r.id < q.id
      /\ \A d \in Conns \ {c} : UNCHANGED <<mbox[d], sock[d]>>
  BY <1>2, TakenFromMailbox
<1>4. job'[c] = r /\ \A d \in Conns \ {c} : job'[d] = job[d] /\ hpc'[d] = hpc[d]
  BY <1>2 DEF TypeOK
<1>5. PendingAreNewer(c)'
  BY <1>2, <1>3, <1>4 DEF SessionOf, PendingAreNewer
<1>6. LoginsComeFirst(c)'
  <2>1. LoginsComeFirst(c)
    BY <1>2 DEF SessionOf
  <2>2. cl'[c] \in EarlyStates => c \notin fetched' /\ \A q \in Pending(c)' : q.type \notin Late
    BY <1>2, <1>3, <2>1 DEF LoginsComeFirst, Late
  <2>3. cl'[c] \notin EarlyStates \cup {"closed"} => \A q \in Pending(c)' : q.type \in Late
    BY <1>2, <1>3, <2>1 DEF LoginsComeFirst
  <2>4. cl'[c] \in LateWaits =>
          /\ \A q \in Replies(c)' : q.id = tries'[c] => q.type \in Late \cup {"error"}
          /\ Busy(c)' /\ job'[c].id = tries'[c] => job'[c].type \in Late
    BY <1>2, <1>3, <1>4, <2>1 DEF LoginsComeFirst, LateWaits, EarlyStates
  <2>5. \A q1, q2 \in Pending(c)' : q1.type \in Late /\ q1.id < q2.id => q2.type \in Late
    BY <1>3, <2>1 DEF LoginsComeFirst
  <2>6. c \in fetched' => r.type \in Late /\ \A q \in Pending(c)' : q.type \in Late
    BY <1>2, <1>3, <2>1 DEF LoginsComeFirst, Late
  <2> QED
    BY <1>4, <2>2, <2>3, <2>4, <2>5, <2>6 DEF LoginsComeFirst
<1>7. SessionOf(c)'
  BY <1>3, <1>5, <1>6 DEF SessionOf
<1> QED
  BY <1>2, <1>3, <1>4, <1>7, OneSession

LEMMA GoesOnSession ==
  ASSUME Typed, SessionInv, NEW c \in Conns,
         UpdateConnection(c) \/ InsertMessage(c) \/ CallReply(c) \/ CallLookup(c) \/ CallPush(c)
  PROVE  SessionInv'
<1>1. PICK from \in Handling, to \in Handling : Advances(c, from, to)
  BY AdvanceShape DEF Handling
<1>2. /\ TypeOK /\ UNCHANGED <<sock, mbox, cl, tries, fetched, job>> /\ Busy(c)
      /\ \A d \in Conns \ {c} : hpc'[d] = hpc[d]
  BY <1>1 DEF Advances, Typed, TypeOK, Busy
<1> SUFFICES ASSUME NEW d \in Conns PROVE SessionOf(d)'
  BY DEF SessionInv
<1> QED
  BY <1>2, SessionStays DEF SessionInv, Busy

-----------------------------------------------------------------------------
(* The registry serves a call.                                             *)

LEMMA ReplyArrives ==
  ASSUME Typed, NEW d \in Conns, SessionOf(d), NEW x \in Mail,
         mbox' = [mbox EXCEPT ![d] = Append(@, x)], x.kind = "send_data",
         IsReply(x) => Busy(d) /\ x.body.id = job[d].id /\ x.body.type \in {job[d].type, "error"},
         UNCHANGED <<sock, cl, tries, fetched>>, Busy(d)' => Busy(d) /\ job'[d] = job[d]
  PROVE  SessionOf(d)'
<1>1. /\ TypeOK /\ mbox[d] \in Seq(Mail) /\ mbox'[d] = Append(mbox[d], x)
      /\ Mails(d)' = Mails(d) \cup {x} /\ Unread(d)' = Unread(d)
  BY MailArrives DEF Typed, TypeOK, Unread
<1>2. /\ Pending(d)' = Pending(d)
      /\ Replies(d)' = Replies(d) \cup (IF IsReply(x) THEN {x.body} ELSE {})
  BY <1>1 DEF Pending, Replies
<1>3. IdsAscend(d)'
  <2>1. TcpAscending(mbox'[d])
    BY <1>1, AppendTcpAscends DEF SessionOf, IdsAscend
  <2> QED
    BY <1>1, <2>1 DEF SessionOf, IdsAscend
<1>4. PendingAreNewer(d)'
  BY <1>2 DEF SessionOf, PendingAreNewer
<1>5. LoginsComeFirst(d)'
  BY <1>2 DEF SessionOf, LoginsComeFirst
<1> QED
  BY <1>3, <1>4, <1>5 DEF SessionOf

LEMMA CallSession ==
  ASSUME Typed, SessionInv, ForwardData \/ FindConnection
  PROVE  SessionInv'
<1> DEFINE r == Head(regQ)
           x == [kind |-> "send_data", body |-> r.body]
<1>1. /\ TypeOK /\ regQ # <<>> /\ IsCall(r) /\ UNCHANGED <<sock, cl, tries, fetched>>
      /\ Done(r.from) \/ ((Goto(r.from, "lookup") \/ Goto(r.from, "push")) /\ UNCHANGED job)
  BY DEF Typed, ForwardData, FindConnection, NextReg, IsCall, clientVars, histVars
<1>2. /\ r.from \in Conns /\ HandlerIsWhole(r.from) /\ hpc[r.from] \in Handling
      /\ r.op = "send_data" =>
           /\ r.conn \in Conns /\ r.body \in Packet
           /\ \/ hpc[r.from] = "replied" /\ r.conn = r.from /\ r.body = answer[r.from]
              \/ hpc[r.from] = "pushing" /\ r.conn = target[r.from] /\ r.body = Push(r.from)
  BY <1>1, CallServed DEF IsCall, Handling
<1>3. \A d \in Conns : Busy(d)' => Busy(d) /\ job'[d] = job[d]
  BY <1>1, <1>2 DEF TypeOK, Done, Serve, Goto, Busy, Handling
<1>4. CASE mbox' = mbox
  <2> SUFFICES ASSUME NEW d \in Conns PROVE SessionOf(d)'
    BY DEF SessionInv
  <2> QED
    BY <1>1, <1>3, <1>4, SessionStays DEF SessionInv
<1>5. CASE r.op = "send_data" /\ mbox' = [mbox EXCEPT ![r.conn] = Append(@, x)]
  <2>1. x \in Mail
    BY <1>2, <1>5, MailFields
  <2>2. PICK e \in Conns, y \in Mail : e = r.conn /\ y = x
    BY <1>2, <1>5, <2>1
  <2>3. IsReply(y) => Busy(e) /\ y.body.id = job[e].id /\ y.body.type \in {job[e].type, "error"}
    BY <1>2, <1>5, <2>2 DEF IsReply, Busy, HandlerIsWhole, Push
  <2>4. mbox' = [mbox EXCEPT ![e] = Append(@, y)] /\ y.kind = "send_data"
    BY <1>5, <2>2
  <2> HIDE DEF r, x
  <2>5. SessionOf(e)'
    BY <1>1, <1>3, <2>3, <2>4, ReplyArrives DEF SessionInv
  <2>6. \A d \in Conns \ {e} : mbox'[d] = mbox[d]
    BY <1>1, <2>4 DEF TypeOK
  <2>7. ASSUME NEW d \in Conns \ {e} PROVE SessionOf(d)'
    BY <1>1, <1>3, <2>6, SessionStays DEF SessionInv
  <2> QED
    BY <2>5, <2>7 DEF SessionInv
<1> QED
  BY <1>4, <1>5 DEF ForwardData, FindConnection, NextReg

(* In every session the requests are handled in order, logins before all    *)
(* others.                                                                 *)
THEOREM SessionsInOrder == Spec => []SessionInv
<1>1. ASSUME Typed, SessionInv, Next PROVE SessionInv'
  BY <1>1, Steps, RegistrySession, AcceptSession, ClientStopsSession, ClientSendsSession, SocketDeliversSession,
     SendDataSession, DiesSession, HandlerSession, GoesOnSession, CallSession
<1> QED
  BY <1>1, TypesHold, InitSession, UnchangedSession, PTL DEF Spec

-----------------------------------------------------------------------------
(* A connection is registered for its owner or for nobody, so that a        *)
(* message is pushed to a device of its receiver.                          *)

UsersAreOwners ==
  /\ \A c \in DOMAIN registry : registry[c] \in {Nobody, Owner[c]}
  /\ \A x \in Calls : x.op = "update" => x.user \in {Nobody, Owner[x.conn]}
TargetsAreReceivers ==
  /\ \A s \in Conns : hpc[s] \in {"push", "pushing"} => Owner[target[s]] = To[job[s].msg]
  /\ \A m \in Msgs : pushedTo[m] # Nobody => Owner[pushedTo[m]] = To[m]
OwnersInv == UsersAreOwners /\ TargetsAreReceivers

-----------------------------------------------------------------------------
(* A message that came too late for a fetch is looked after: by the handler *)
(* that still looks for the receiver and that will find whatever has been   *)
(* registered when it does.                                                *)

Registers(x, c) == x.op = "update" /\ x.conn = c /\ x.user = Owner[c]
Gone(c) == ~Registered(c) /\ \A x \in Calls : ~Registers(x, c)

(* What registers c is read before the call of s.                          *)
ReadBefore(c, s) ==
  \A i, j \in 1..Len(regQ) :
    regQ[i].op = "get_connection_uuid" /\ regQ[i].from = s /\ Registers(regQ[j], c) => j < i

Seeks(s, m, c) ==
  /\ answer[s].type = "send_message" /\ job[s].msg = m
  /\ hpc[s] \in {"reply", "replied", "lookup", "push"} \/ (hpc[s] = "asked" /\ ReadBefore(c, s))

MissedBy(m, c) == IsStored(m) /\ To[m] = Owner[c] /\ m \notin snapshot[c]
LookedAfter(m, c) == Gone(c) \/ pushedTo[m] # Nobody \/ \E s \in Conns : Seeks(s, m, c)
NoneMissed == \A m \in Msgs, c \in fetched : MissedBy(m, c) => LookedAfter(m, c)


LEMMA InitOwners == Init => OwnersInv
<1> SUFFICES ASSUME Init PROVE OwnersInv
  OBVIOUS
<1>1. DOMAIN registry = {} /\ Calls = {}
  BY EmptyRange DEF Init, Calls
<1> QED
  BY <1>1 DEF Init, OwnersInv, UsersAreOwners, TargetsAreReceivers

LEMMA UnchangedOwners == OwnersInv /\ UNCHANGED vars => OwnersInv'
BY DEF OwnersInv, UsersAreOwners, TargetsAreReceivers, Calls, vars, procVars, regVars, histVars

(* Steps that change neither the registry nor a target.                    *)
LEMMA OwnersKept ==
  ASSUME Typed, OwnersInv, UNCHANGED <<registry, pushedTo>>,
         regQ' = regQ \/ \E x \in RegMail :
           regQ' = Append(regQ, x) /\ (x.op = "update" => x.user \in {Nobody, Owner[x.conn]}),
         \A s \in Conns : hpc'[s] \in {"push", "pushing"} => UNCHANGED <<hpc[s], target[s], job[s]>>
  PROVE  OwnersInv'
<1>1. TypeOK
  BY DEF Typed
<1>2. \A x \in Calls' : x \in Calls \/ (x.op = "update" => x.user \in {Nobody, Owner[x.conn]})
  BY <1>1, CastSent DEF Calls
<1> QED
  BY <1>2 DEF OwnersInv, UsersAreOwners, TargetsAreReceivers

LEMMA QuietOwners ==
  ASSUME Typed, OwnersInv, NEW c \in Conns,
         \/ Accept(c) \/ ClientSends(c) \/ GiveUp(c) \/ ClientCloses(c) \/ SocketDelivers(c)
         \/ SendData(c) \/ Dies(c) \/ Handler(c)
  PROVE  OwnersInv'
<1>1. TypeOK
  BY DEF Typed
<1>2. CASE \/ Accept(c) \/ ClientSends(c) \/ GiveUp(c) \/ ClientCloses(c) \/ SocketDelivers(c) \/ SendData(c)
  <2>1. /\ UNCHANGED <<registry, pushedTo, regQ, target, job>>
        /\ hpc' = hpc \/ hpc' = [hpc EXCEPT ![c] = "serve"]
    BY <1>2 DEF Accept, ClientSends, GiveUp, ClientCloses, SocketDelivers, SendData, Serve,
                procVars, regVars, histVars
  <2>2. \A s \in Conns : hpc'[s] \in {"push", "pushing"} => hpc'[s] = hpc[s]
    BY <1>1, <2>1 DEF TypeOK
  <2> QED
    BY <2>1, <2>2, OwnersKept
<1>3. CASE Dies(c)
  <2>1. Exits(c)
    BY <1>3, DiesShape
  <2>2. PICK x \in RegMail : x = [op |-> "remove", conn |-> c]
    BY RegMailFields
  <2>3. UNCHANGED <<registry, pushedTo, target, job>> /\ (regQ' = regQ \/ regQ' = Append(regQ, x)) /\ x.op # "update"
    BY <2>1, <2>2 DEF Exits
  <2>4. \A s \in Conns : hpc'[s] \in {"push", "pushing"} => hpc'[s] = hpc[s]
    BY <1>1, <2>1 DEF Exits, TypeOK
  <2> QED
    BY <2>3, <2>4, OwnersKept
<1>4. CASE Handler(c)
  <2>1. PICK r \in Request, p \in Packet, stage \in {"announce", "insert", "reply"} :
          RequestOf(c, r) /\ TakesUp(c, r, p, stage)
    BY <1>4, HandlerShape
  <2>2. UNCHANGED <<registry, pushedTo, regQ, target>>
    BY <2>1 DEF TakesUp
  <2>3. \A s \in Conns : hpc'[s] \in {"push", "pushing"} => hpc'[s] = hpc[s] /\ job'[s] = job[s]
    BY <1>1, <2>1 DEF TakesUp, TypeOK
  <2> QED
    BY <2>2, <2>3, OwnersKept
<1> QED
  BY <1>2, <1>3, <1>4

LEMMA GoesOnOwners ==
  ASSUME Typed, OwnersInv, NEW c \in Conns,
         UpdateConnection(c) \/ InsertMessage(c) \/ CallReply(c) \/ CallLookup(c) \/ CallPush(c)
  PROVE  OwnersInv'
<1>1. TypeOK /\ HandlerIsWhole(c) /\ Typed'
  BY GoesOnTyped DEF Typed, HandlersAreWhole
<1>2. ASSUME NEW from, NEW to \in Handling \ {"push"}, Advances(c, from, to)
      PROVE  /\ UNCHANGED <<registry, target, job>> /\ hpc[c] = from /\ hpc'[c] = to
             /\ \A s \in Conns \ {c} : hpc'[s] = hpc[s]
  BY <1>1, <1>2 DEF Advances, TypeOK
<1>3. CASE UpdateConnection(c)
  <2> DEFINE x == [op |-> "update", conn |-> c, user |-> IF job[c].type = "req_logout" THEN Nobody ELSE Owner[c]]
  <2>1. Advances(c, "announce", "reply") /\ regQ' = Append(regQ, x) /\ UNCHANGED pushedTo
    BY <1>3, AdvanceShape DEF UpdateConnection
  <2>2. x \in RegMail /\ x.user \in {Nobody, Owner[x.conn]}
    BY RegMailFields, OwnerAssumption
  <2>3. UNCHANGED <<registry, target, job>> /\ \A s \in Conns : hpc'[s] \in {"push", "pushing"} => hpc'[s] = hpc[s]
    BY <1>2, <2>1 DEF Handling
  <2> HIDE DEF x
  <2> QED
    BY <2>1, <2>2, <2>3, OwnersKept
<1>4. CASE InsertMessage(c)
  <2>1. Advances(c, "insert", "reply") /\ UNCHANGED <<regQ, pushedTo>>
    BY <1>4, AdvanceShape
  <2>2. UNCHANGED <<registry, target, job>> /\ \A s \in Conns : hpc'[s] \in {"push", "pushing"} => hpc'[s] = hpc[s]
    BY <1>2, <2>1 DEF Handling
  <2> QED
    BY <2>1, <2>2, OwnersKept
<1>5. CASE CallReply(c)
  <2> DEFINE x == [op |-> "send_data", from |-> c, conn |-> c, body |-> answer[c]]
  <2>1. Advances(c, "reply", "replied") /\ regQ' = Append(regQ, x) /\ UNCHANGED pushedTo
    BY <1>5, AdvanceShape DEF CallReply
  <2>2. x \in RegMail /\ x.op # "update"
    BY <1>1, <2>1, RegMailFields DEF HandlerIsWhole, Handling, Advances
  <2>3. UNCHANGED <<registry, target, job>> /\ \A s \in Conns : hpc'[s] \in {"push", "pushing"} => hpc'[s] = hpc[s]
    BY <1>2, <2>1 DEF Handling
  <2> HIDE DEF x
  <2> QED
    BY <2>1, <2>2, <2>3, OwnersKept
<1>6. CASE CallLookup(c)
  <2> DEFINE x == [op |-> "get_connection_uuid", from |-> c, user |-> To[job[c].msg]]
  <2>1. Advances(c, "lookup", "asked") /\ regQ' = Append(regQ, x) /\ UNCHANGED pushedTo
    BY <1>6, AdvanceShape DEF CallLookup
  <2>2. x \in RegMail /\ x.op # "update"
    BY <1>1, <2>1, RegMailFields DEF HandlerIsWhole, Handling, Advances
  <2>3. UNCHANGED <<registry, target, job>> /\ \A s \in Conns : hpc'[s] \in {"push", "pushing"} => hpc'[s] = hpc[s]
    BY <1>2, <2>1 DEF Handling
  <2> HIDE DEF x
  <2> QED
    BY <2>1, <2>2, <2>3, OwnersKept
<1>7. CASE CallPush(c)
  <2> DEFINE x == [op |-> "send_data", from |-> c, conn |-> target[c],
                   body |-> [type |-> "recv_message", id |-> job[c].id, msgs |-> {job[c].msg}]]
  <2>1. /\ Advances(c, "push", "pushing") /\ regQ' = Append(regQ, x)
        /\ pushedTo' = [pushedTo EXCEPT ![job[c].msg] = target[c]]
    BY <1>7, AdvanceShape DEF CallPush
  <2>2. /\ UNCHANGED <<registry, target, job>> /\ hpc[c] = "push" /\ hpc'[c] = "pushing"
        /\ \A s \in Conns \ {c} : hpc'[s] = hpc[s]
    BY <1>2, <2>1 DEF Handling
  <2>3. regQ' \in Seq(RegMail) /\ Calls' = Calls \cup {x} /\ x.op # "update"
    <3>1. target[c] \in Conns /\ job[c].msg \in Msgs /\ job[c] \in Request
      BY <1>1, <2>2 DEF HandlerIsWhole, Handling, RequestOf
    <3>2. [type |-> "recv_message", id |-> job[c].id, msgs |-> {job[c].msg}] \in Packet
      BY <3>1, PacketFields, RequestFields
    <3>3. x \in RegMail /\ x.op # "update"
      BY <3>1, <3>2, RegMailFields
    <3> QED
      BY <1>1, <2>1, <3>3, CastSent
  <2>4. Owner[target[c]] = To[job[c].msg]
    BY <2>2 DEF OwnersInv, TargetsAreReceivers
  <2> HIDE DEF x
  <2>5. UsersAreOwners'
    BY <2>2, <2>3 DEF OwnersInv, UsersAreOwners
  <2>6. \A m \in Msgs : pushedTo'[m] # Nobody => Owner[pushedTo'[m]] = To[m]
    BY <1>1, <2>1, <2>4 DEF TypeOK, OwnersInv, TargetsAreReceivers
  <2> QED
    BY <2>2, <2>5, <2>6 DEF OwnersInv, TargetsAreReceivers
<1> QED
  BY <1>3, <1>4, <1>5, <1>6, <1>7

LEMMA RegistryOwners ==
  ASSUME Typed, OwnersInv, Announce \/ AddConnection \/ RemoveConnection \/ SetUser
  PROVE  OwnersInv'
<1>1. TypeOK
  BY DEF Typed
<1>2. CASE Announce
  <2>1. PICK x \in RegMail : x = [op |-> "add", conn |-> acc]
    BY <1>1, <1>2, RegMailFields DEF Announce, TypeOK
  <2>2. regQ' = Append(regQ, x) /\ x.op # "update" /\ UNCHANGED <<registry, pushedTo, hpc, target, job>>
    BY <1>2, <2>1 DEF Announce, procVars, histVars
  <2> QED
    BY <2>2, OwnersKept
<1>3. CASE AddConnection \/ RemoveConnection \/ SetUser
  <2> DEFINE x == Head(regQ)
  <2>1. regQ # <<>> /\ regQ' = Tail(regQ) /\ UNCHANGED <<pushedTo, hpc, target, job>>
    BY <1>3 DEF AddConnection, RemoveConnection, SetUser, NextReg, procVars, histVars
  <2>2. x \in RegMail /\ x \in Calls /\ Calls' \subseteq Calls
    BY <1>1, <2>1, CallTaken
  <2>3. \A c \in DOMAIN registry' : registry'[c] \in {Nobody, Owner[c]}
    <3>1. CASE AddConnection
      BY <3>1 DEF AddConnection, OwnersInv, UsersAreOwners
    <3>2. CASE RemoveConnection
      BY <3>2 DEF RemoveConnection, OwnersInv, UsersAreOwners
    <3>3. CASE SetUser
      BY <2>2, <3>3 DEF SetUser, NextReg, OwnersInv, UsersAreOwners
    <3> QED
      BY <1>3, <3>1, <3>2, <3>3
  <2> QED
    BY <2>1, <2>2, <2>3 DEF OwnersInv, UsersAreOwners, TargetsAreReceivers
<1> QED
  BY <1>2, <1>3

LEMMA CallOwners ==
  ASSUME Typed, OwnersInv, ForwardData \/ FindConnection
  PROVE  OwnersInv'
<1> DEFINE r == Head(regQ)
<1>1. /\ TypeOK /\ regQ # <<>> /\ IsCall(r) /\ regQ' = Tail(regQ) /\ UNCHANGED <<registry, pushedTo>>
  BY DEF Typed, ForwardData, FindConnection, NextReg, IsCall, histVars
<1>2. /\ r.from \in Conns /\ r \in RegMail
      /\ r.op = "get_connection_uuid" => r.user = To[job[r.from].msg]
  BY <1>1, CallServed DEF IsCall
<1>3. UsersAreOwners'
  <2>1. Calls' \subseteq Calls
    BY <1>1, CallTaken
  <2> QED
    BY <1>1, <2>1 DEF OwnersInv, UsersAreOwners
<1>4. ASSUME NEW s \in Conns, hpc'[s] \in {"push", "pushing"} PROVE Owner[target'[s]] = To[job'[s].msg]
  <2>1. CASE s # r.from
    <3>1. UNCHANGED <<hpc[s], target[s], job[s]>>
      BY <1>1, <1>2, <2>1 DEF ForwardData, FindConnection, TypeOK, Done, Serve, Goto
    <3> QED
      BY <1>4, <3>1 DEF OwnersInv, TargetsAreReceivers
  <2>2. CASE s = r.from
    <3>1. /\ r.op = "get_connection_uuid" /\ job' = job
          /\ \E d \in {c \in DOMAIN registry : registry[c] = r.user} : target' = [target EXCEPT ![s] = d]
      BY <1>1, <1>2, <1>4, <2>2 DEF ForwardData, FindConnection, NextReg, TypeOK, Done, Serve, Goto
    <3>2. PICK d \in DOMAIN registry : registry[d] = r.user /\ target' = [target EXCEPT ![s] = d]
      BY <3>1
    <3>3. target'[s] = d /\ r.user \in Users /\ d \in Conns
      BY <1>1, <1>2, <3>1, <3>2, RegMailFields DEF TypeOK
    <3>4. Owner[d] = r.user
      BY <3>2, <3>3, NobodyAssumption DEF OwnersInv, UsersAreOwners
    <3> QED
      BY <1>2, <2>2, <3>1, <3>3, <3>4
  <2> QED
    BY <2>1, <2>2
<1> QED
  BY <1>1, <1>3, <1>4 DEF OwnersInv, TargetsAreReceivers

(* What is pushed is pushed to one of its receiver's devices.              *)
THEOREM PushesGoToTheReceiver == Spec => []OwnersInv
<1>1. ASSUME Typed, OwnersInv, Next PROVE OwnersInv'
  BY <1>1, Steps, QuietOwners, GoesOnOwners, RegistryOwners, CallOwners
<1> QED
  BY <1>1, TypesHold, InitOwners, UnchangedOwners, PTL DEF Spec


-----------------------------------------------------------------------------
(* The registry's mailbox after a step.                                    *)

LEMMA QueueOfTail ==
  ASSUME TypeOK, regQ # <<>>, regQ' = Tail(regQ)
  PROVE  /\ Len(regQ) \in Nat \ {0} /\ Head(regQ) = regQ[1] /\ Len(regQ') = Len(regQ) - 1
         /\ \A i \in 1..Len(regQ') : regQ'[i] = regQ[i + 1] /\ i + 1 \in 1..Len(regQ)
         /\ \A i \in 1..Len(regQ) : regQ[i] \in Calls
         /\ \A x \in Calls : \E i \in 1..Len(regQ) : regQ[i] = x
<1>1. regQ \in Seq(RegMail)
  BY DEF TypeOK
<1>2. Len(regQ) \in Nat \ {0} /\ Head(regQ) = regQ[1]
  BY <1>1, HeadTailProperties, EmptySeq
<1>3. Len(regQ') = Len(regQ) - 1 /\ \A i \in 1..Len(regQ') : regQ'[i] = regQ[i + 1]
  BY <1>1, HeadTailProperties
<1>4. \A i \in 1..Len(regQ') : i + 1 \in 1..Len(regQ)
  BY <1>2, <1>3
<1>5. Calls = {regQ[i] : i \in 1..Len(regQ)}
  BY <1>1, RangeEquality DEF Calls
<1> QED
  BY <1>2, <1>3, <1>4, <1>5

LEMMA QueueOfAppend ==
  ASSUME TypeOK, NEW x \in RegMail, regQ' = Append(regQ, x)
  PROVE  /\ Len(regQ) \in Nat /\ Len(regQ') = Len(regQ) + 1 /\ regQ'[Len(regQ) + 1] = x
         /\ \A i \in 1..Len(regQ) : regQ'[i] = regQ[i] /\ regQ[i] \in Calls
BY RangeEquality DEF TypeOK, Calls

LEMMA ReadBeforeStays ==
  ASSUME TypeOK, NEW c \in Conns, NEW s \in Conns, ReadBefore(c, s),
         \/ regQ' = regQ
         \/ regQ # <<>> /\ regQ' = Tail(regQ)
         \/ \E x \in RegMail : /\ regQ' = Append(regQ, x) /\ ~Registers(x, c)
                               /\ ~(x.op = "get_connection_uuid" /\ x.from = s)
  PROVE  ReadBefore(c, s)'
<1>1. CASE regQ' = regQ
  BY <1>1 DEF ReadBefore
<1>2. CASE regQ # <<>> /\ regQ' = Tail(regQ)
  <2>1. \A k \in 1..Len(regQ') : regQ'[k] = regQ[k + 1] /\ k + 1 \in 1..Len(regQ)
    BY <1>2, QueueOfTail
  <2> SUFFICES ASSUME NEW i \in 1..Len(regQ'), NEW j \in 1..Len(regQ'),
                      regQ'[i].op = "get_connection_uuid", regQ'[i].from = s, Registers(regQ'[j], c)
               PROVE  j < i
    BY DEF ReadBefore, Registers
  <2>2. /\ regQ[i + 1].op = "get_connection_uuid" /\ regQ[i + 1].from = s /\ Registers(regQ[j + 1], c)
        /\ i + 1 \in 1..Len(regQ) /\ j + 1 \in 1..Len(regQ)
    BY <2>1 DEF Registers
  <2>3. j + 1 < i + 1
    BY <2>2 DEF ReadBefore
  <2> QED
    BY <2>3
<1>3. ASSUME NEW x \in RegMail, regQ' = Append(regQ, x), ~Registers(x, c),
             ~(x.op = "get_connection_uuid" /\ x.from = s)
      PROVE  ReadBefore(c, s)'
  <2> SUFFICES ASSUME NEW i \in 1..Len(regQ'), NEW j \in 1..Len(regQ'),
                      regQ'[i].op = "get_connection_uuid", regQ'[i].from = s, Registers(regQ'[j], c)
               PROVE  j < i
    BY DEF ReadBefore, Registers
  <2>1. /\ Len(regQ) \in Nat /\ Len(regQ') = Len(regQ) + 1 /\ regQ'[Len(regQ) + 1] = x
        /\ \A k \in 1..Len(regQ) : regQ'[k] = regQ[k]
    BY <1>3, QueueOfAppend
  <2>2. i # Len(regQ) + 1 /\ j # Len(regQ) + 1
    BY <1>3, <2>1
  <2>3. i \in 1..Len(regQ) /\ j \in 1..Len(regQ) /\ regQ'[i] = regQ[i] /\ regQ'[j] = regQ[j]
    BY <2>1, <2>2
  <2> QED
    BY <2>3 DEF ReadBefore
<1> QED
  BY <1>1, <1>2, <1>3

LEMMA SeeksStays ==
  ASSUME TypeOK, NEW c \in Conns, NEW s \in Conns, NEW m, Seeks(s, m, c), UNCHANGED <<hpc[s], job[s], answer[s]>>,
         \/ regQ' = regQ
         \/ regQ # <<>> /\ regQ' = Tail(regQ)
         \/ \E x \in RegMail : /\ regQ' = Append(regQ, x) /\ ~Registers(x, c)
                               /\ ~(x.op = "get_connection_uuid" /\ x.from = s)
  PROVE  Seeks(s, m, c)'
<1>1. ReadBefore(c, s) => ReadBefore(c, s)'
  BY ReadBeforeStays
<1> QED
  BY <1>1 DEF Seeks

LEMMA GoneStays ==
  ASSUME TypeOK, NEW c \in Conns, Gone(c), registry' = registry,
         \/ regQ' = regQ
         \/ regQ # <<>> /\ regQ' = Tail(regQ)
         \/ \E x \in RegMail : regQ' = Append(regQ, x) /\ ~Registers(x, c)
  PROVE  Gone(c)'
<1>1. \A x \in Calls' : x \in Calls \/ ~Registers(x, c)
  BY CastSent, CallTaken DEF Calls
<1> QED
  BY <1>1 DEF Gone, Registered, Registers

(* Who has fetched does not register again.                                *)
LEMMA FetchedAreRegistered ==
  ASSUME Typed, SessionInv, NEW c \in fetched, hpc[c] = "announce"
  PROVE  job[c].type = "req_logout"
BY DEF Typed, TypeOK, HandlersAreWhole, HandlerIsWhole, SessionInv, SessionOf, LoginsComeFirst, Busy, Handling, Late

-----------------------------------------------------------------------------
(* Every step keeps the messages looked after.                             *)

LEMMA InitGap == Init => NoneMissed
BY DEF Init, NoneMissed

LEMMA UnchangedGap == NoneMissed /\ UNCHANGED vars => NoneMissed'
BY DEF NoneMissed, MissedBy, LookedAfter, Gone, Registers, Registered, Seeks, ReadBefore, Calls, IsStored,
       vars, procVars, regVars, dbVars, histVars

LEMMA GapKept ==
  ASSUME Typed, NoneMissed, UNCHANGED <<stored, fetched, snapshot>>,
         \A m \in Msgs, c \in fetched : LookedAfter(m, c) => LookedAfter(m, c)'
  PROVE  NoneMissed'
BY DEF NoneMissed, MissedBy, IsStored

(* Steps of connection c that do not end a search.                         *)
LEMMA SearchesGoOn ==
  ASSUME Typed, NoneMissed, UNCHANGED <<stored, fetched, snapshot, registry, pushedTo>>, NEW c \in Conns,
         \A s \in Conns \ {c} : UNCHANGED <<hpc[s], job[s], answer[s]>>,
         hpc[c] \notin {"reply", "replied", "lookup", "asked", "push"} \/ UNCHANGED <<hpc[c], job[c], answer[c]>>,
         \/ regQ' = regQ
         \/ \E x \in RegMail : regQ' = Append(regQ, x) /\ x.op # "get_connection_uuid"
                               /\ \A d \in fetched : ~Registers(x, d)
  PROVE  NoneMissed'
<1> SUFFICES ASSUME NEW m \in Msgs, NEW d \in fetched, LookedAfter(m, d) PROVE LookedAfter(m, d)'
  BY GapKept
<1>1. TypeOK /\ d \in Conns
  BY DEF Typed, TypeOK
<1>2. CASE Gone(d)
  BY <1>1, <1>2, GoneStays DEF LookedAfter
<1>3. CASE pushedTo[m] # Nobody
  BY <1>3 DEF LookedAfter
<1>4. ASSUME NEW s \in Conns, Seeks(s, m, d) PROVE LookedAfter(m, d)'
  <2>1. UNCHANGED <<hpc[s], job[s], answer[s]>>
    BY <1>4 DEF Seeks
  <2>2. Seeks(s, m, d)'
    BY <1>1, <1>4, <2>1, SeeksStays
  <2> QED
    BY <2>2 DEF LookedAfter
<1> QED
  BY <1>2, <1>3, <1>4 DEF LookedAfter

LEMMA QuietGap ==
  ASSUME Typed, NoneMissed, NEW c \in Conns,
         \/ Accept(c) \/ ClientSends(c) \/ GiveUp(c) \/ ClientCloses(c) \/ SocketDelivers(c)
         \/ SendData(c) \/ Dies(c)
  PROVE  NoneMissed'
<1>1. TypeOK /\ (cl[c] = "off" => hpc[c] = "off")
  BY DEF Typed, ProcessesAreSpawned
<1>2. CASE \/ Accept(c) \/ ClientSends(c) \/ GiveUp(c) \/ ClientCloses(c) \/ SocketDelivers(c) \/ SendData(c)
  <2>1. /\ UNCHANGED <<stored, fetched, snapshot, registry, pushedTo, regQ, job, answer>>
        /\ hpc' = hpc \/ (hpc[c] \in {"off", "serve"} /\ hpc' = [hpc EXCEPT ![c] = "serve"])
    BY <1>1, <1>2 DEF Accept, ClientSends, GiveUp, ClientCloses, SocketDelivers, SendData, Serve, NextMail,
                procVars, regVars, dbVars, histVars
  <2>2. /\ \A s \in Conns \ {c} : UNCHANGED <<hpc[s], job[s], answer[s]>>
        /\ hpc[c] \notin {"reply", "replied", "lookup", "asked", "push"} \/ UNCHANGED <<hpc[c], job[c], answer[c]>>
    BY <1>1, <2>1 DEF TypeOK
  <2> QED
    BY <2>1, <2>2, SearchesGoOn
<1>3. CASE Dies(c)
  <2>1. Exits(c)
    BY <1>3, DiesShape
  <2>2. PICK x \in RegMail : x = [op |-> "remove", conn |-> c]
    BY RegMailFields
  <2>3. /\ UNCHANGED <<stored, fetched, snapshot, registry, pushedTo>>
        /\ regQ' = regQ \/ regQ' = Append(regQ, x)
        /\ x.op # "get_connection_uuid" /\ \A d \in fetched : ~Registers(x, d)
    BY <2>1, <2>2 DEF Exits, Registers
  <2>4. hpc[c] = "serve" /\ \A s \in Conns \ {c} : UNCHANGED <<hpc[s], job[s], answer[s]>>
    BY <1>1, <2>1 DEF Exits, TypeOK
  <2> QED
    BY <2>3, <2>4, SearchesGoOn
<1> QED
  BY <1>2, <1>3

(* A fetch misses nothing of what is stored at that time.                  *)
LEMMA HandlerGap ==
  ASSUME Typed, NoneMissed, NEW c \in Conns, Handler(c)
  PROVE  NoneMissed'
<1>1. PICK r \in Request, p \in Packet, stage \in {"announce", "insert", "reply"} :
        RequestOf(c, r) /\ TakesUp(c, r, p, stage)
  BY HandlerShape
<1>2. /\ TypeOK /\ hpc[c] = "serve" /\ UNCHANGED <<stored, registry, pushedTo, regQ>>
      /\ Fetches(c) \/ UNCHANGED <<fetched, snapshot>>
      /\ \A s \in Conns \ {c} : UNCHANGED <<hpc[s], job[s], answer[s]>>
  BY <1>1 DEF TakesUp, Typed, TypeOK
<1>3. CASE UNCHANGED <<fetched, snapshot>>
  BY <1>2, <1>3, SearchesGoOn
<1>4. CASE Fetches(c)
  <2> SUFFICES ASSUME NEW m \in Msgs, NEW d \in fetched', MissedBy(m, d)' PROVE LookedAfter(m, d)'
    BY DEF NoneMissed
  <2>1. d # c
    BY <1>2, <1>4 DEF Fetches, MissedBy, TypeOK, IsStored
  <2>2. d \in fetched /\ MissedBy(m, d) /\ d \in Conns
    BY <1>2, <1>4, <2>1 DEF Fetches, MissedBy, TypeOK, IsStored
  <2>3. LookedAfter(m, d)
    BY <2>2 DEF NoneMissed
  <2>4. Gone(d) => Gone(d)'
    BY <1>2, <2>2, GoneStays
  <2>5. ASSUME NEW s \in Conns, Seeks(s, m, d) PROVE Seeks(s, m, d)'
    <3>1. s # c
      BY <1>2, <2>5 DEF Seeks
    <3> QED
      BY <1>2, <2>2, <2>5, <3>1, SeeksStays
  <2> QED
    BY <1>2, <2>3, <2>4, <2>5 DEF LookedAfter
<1> QED
  BY <1>2, <1>3, <1>4


(* A handler that goes on: a message is inserted with its search, the       *)
(* search is on until the push.                                            *)
LEMMA GoesOnGap ==
  ASSUME Typed, SessionInv, NoneMissed, NEW c \in Conns,
         UpdateConnection(c) \/ InsertMessage(c) \/ CallReply(c) \/ CallLookup(c) \/ CallPush(c)
  PROVE  NoneMissed'
<1>1. TypeOK /\ HandlerIsWhole(c) /\ CallsAreAwaited
  BY DEF Typed, HandlersAreWhole
<1>2. ASSUME NEW from, NEW to, Advances(c, from, to)
      PROVE  /\ UNCHANGED <<registry, fetched, snapshot, job, answer>> /\ hpc[c] = from /\ hpc'[c] = to
             /\ \A s \in Conns \ {c} : hpc'[s] = hpc[s]
  BY <1>1, <1>2 DEF Advances, TypeOK
<1>3. CASE UpdateConnection(c)
  <2> DEFINE x == [op |-> "update", conn |-> c, user |-> IF job[c].type = "req_logout" THEN Nobody ELSE Owner[c]]
  <2>1. Advances(c, "announce", "reply") /\ regQ' = Append(regQ, x) /\ UNCHANGED <<stored, pushedTo>>
    BY <1>3, AdvanceShape DEF UpdateConnection
  <2>2. hpc[c] = "announce" /\ UNCHANGED <<registry, fetched, snapshot, job, answer>>
        /\ \A s \in Conns \ {c} : hpc'[s] = hpc[s]
    BY <1>2, <2>1
  <2>3. c \in fetched => x.user # Owner[c]
    BY <2>2, FetchedAreRegistered, OwnerAssumption, NobodyAssumption
  <2>4. x \in RegMail /\ x.op # "get_connection_uuid" /\ \A d \in fetched : ~Registers(x, d)
    BY <2>3, RegMailFields, OwnerAssumption DEF Registers
  <2> HIDE DEF x
  <2> QED
    BY <2>1, <2>2, <2>4, SearchesGoOn
<1>4. CASE InsertMessage(c)
  <2>1. /\ Advances(c, "insert", "reply") /\ UNCHANGED <<regQ, pushedTo>>
        /\ stored' = Append(stored, job[c].msg)
    BY <1>4, AdvanceShape DEF InsertMessage
  <2>2. /\ UNCHANGED <<registry, fetched, snapshot, job, answer>> /\ hpc[c] = "insert" /\ hpc'[c] = "reply"
        /\ \A s \in Conns \ {c} : hpc'[s] = hpc[s]
    BY <1>2, <2>1
  <2>3. answer[c].type = "send_message" /\ job[c].msg \in Msgs
    BY <1>1, <2>2 DEF HandlerIsWhole, Handling, RequestOf
  <2>4. \A m \in Msgs : IsStored(m)' => IsStored(m) \/ m = job[c].msg
    <3>1. stored \in Seq(Msgs)
      BY <1>1 DEF TypeOK
    <3>2. /\ Len(stored') = Len(stored) + 1 /\ Len(stored) \in Nat /\ stored'[Len(stored) + 1] = job[c].msg
          /\ \A i \in 1..Len(stored) : stored'[i] = stored[i]
      BY <2>1, <2>3, <3>1
    <3> QED
      BY <3>2 DEF IsStored
  <2> SUFFICES ASSUME NEW m \in Msgs, NEW d \in fetched, MissedBy(m, d)' PROVE LookedAfter(m, d)'
    BY <2>2 DEF NoneMissed
  <2>5. d \in Conns
    BY <1>1 DEF TypeOK
  <2>6. CASE m = job[c].msg
    BY <2>2, <2>3, <2>6 DEF LookedAfter, Seeks
  <2>7. CASE m # job[c].msg
    <3>1. LookedAfter(m, d)
      BY <2>2, <2>4, <2>7 DEF NoneMissed, MissedBy
    <3>2. Gone(d) => Gone(d)'
      BY <1>1, <2>1, <2>2, <2>5, GoneStays
    <3>3. ASSUME NEW s \in Conns, Seeks(s, m, d) PROVE Seeks(s, m, d)'
      <4>1. s # c
        BY <2>2, <3>3 DEF Seeks
      <4> QED
        BY <1>1, <2>1, <2>2, <2>5, <3>3, <4>1, SeeksStays
    <3> QED
      BY <2>1, <3>1, <3>2, <3>3 DEF LookedAfter
  <2> QED
    BY <2>6, <2>7
<1>5. CASE CallReply(c)
  <2> DEFINE x == [op |-> "send_data", from |-> c, conn |-> c, body |-> answer[c]]
  <2>1. Advances(c, "reply", "replied") /\ regQ' = Append(regQ, x) /\ UNCHANGED <<stored, pushedTo>>
    BY <1>5, AdvanceShape DEF CallReply
  <2>2. /\ UNCHANGED <<registry, fetched, snapshot, job, answer>> /\ hpc[c] = "reply" /\ hpc'[c] = "replied"
        /\ \A s \in Conns \ {c} : hpc'[s] = hpc[s]
    BY <1>2, <2>1
  <2>3. x \in RegMail /\ x.op = "send_data" /\ \A d : ~Registers(x, d)
    BY <1>1, <2>2, RegMailFields DEF HandlerIsWhole, Handling, Registers
  <2> HIDE DEF x
  <2> SUFFICES ASSUME NEW m \in Msgs, NEW d \in fetched, LookedAfter(m, d) PROVE LookedAfter(m, d)'
    BY <2>1, <2>2, GapKept
  <2>4. d \in Conns
    BY <1>1 DEF TypeOK
  <2>5. Gone(d) => Gone(d)'
    BY <1>1, <2>1, <2>2, <2>3, <2>4, GoneStays
  <2>6. ASSUME NEW s \in Conns, Seeks(s, m, d) PROVE Seeks(s, m, d)'
    <3>1. CASE s = c
      BY <2>2, <2>6, <3>1 DEF Seeks
    <3>2. CASE s # c
      BY <1>1, <2>1, <2>2, <2>3, <2>4, <2>6, <3>2, SeeksStays
    <3> QED
      BY <3>1, <3>2
  <2> QED
    BY <2>1, <2>5, <2>6 DEF LookedAfter
<1>6. CASE CallLookup(c)
  <2> DEFINE x == [op |-> "get_connection_uuid", from |-> c, user |-> To[job[c].msg]]
  <2>1. Advances(c, "lookup", "asked") /\ regQ' = Append(regQ, x) /\ UNCHANGED <<stored, pushedTo>>
    BY <1>6, AdvanceShape DEF CallLookup
  <2>2. /\ UNCHANGED <<registry, fetched, snapshot, job, answer>> /\ hpc[c] = "lookup" /\ hpc'[c] = "asked"
        /\ \A s \in Conns \ {c} : hpc'[s] = hpc[s]
    BY <1>2, <2>1
  <2>3. x \in RegMail /\ x.op = "get_connection_uuid" /\ x.from = c /\ \A d : ~Registers(x, d)
    BY <1>1, <2>2, RegMailFields DEF HandlerIsWhole, Handling, Registers
  <2>4. \A y \in Calls : y.op = "get_connection_uuid" => y.from # c
    BY <1>1, <2>2 DEF CallsAreAwaited, IsCall, CallOf
  <2> HIDE DEF x
  <2> SUFFICES ASSUME NEW m \in Msgs, NEW d \in fetched, LookedAfter(m, d) PROVE LookedAfter(m, d)'
    BY <2>1, <2>2, GapKept
  <2>5. d \in Conns
    BY <1>1 DEF TypeOK
  <2>6. Gone(d) => Gone(d)'
    BY <1>1, <2>1, <2>2, <2>3, <2>5, GoneStays
  <2>7. ASSUME NEW s \in Conns, Seeks(s, m, d) PROVE Seeks(s, m, d)'
    <3>1. CASE s = c
      <4>1. /\ Len(regQ) \in Nat /\ Len(regQ') = Len(regQ) + 1 /\ regQ'[Len(regQ) + 1] = x
            /\ \A i \in 1..Len(regQ) : regQ'[i] = regQ[i] /\ regQ[i] \in Calls
        BY <1>1, <2>1, <2>3, QueueOfAppend
      <4>2. ASSUME NEW i \in 1..Len(regQ'), NEW j \in 1..Len(regQ'),
                   regQ'[i].op = "get_connection_uuid", regQ'[i].from = c, Registers(regQ'[j], d)
            PROVE  j < i
        <5>1. i \notin 1..Len(regQ)
          BY <2>4, <4>1, <4>2
        <5>2. j # Len(regQ) + 1
          BY <2>3, <4>1, <4>2
        <5> QED
          BY <4>1, <5>1, <5>2
      <4>3. ReadBefore(d, c)'
        BY <4>2 DEF ReadBefore, Registers
      <4> QED
        BY <2>2, <2>7, <3>1, <4>3 DEF Seeks
    <3>2. CASE s # c
      BY <1>1, <2>1, <2>2, <2>3, <2>5, <2>7, <3>2, SeeksStays
    <3> QED
      BY <3>1, <3>2
  <2> QED
    BY <2>1, <2>6, <2>7 DEF LookedAfter
<1>7. CASE CallPush(c)
  <2> DEFINE x == [op |-> "send_data", from |-> c, conn |-> target[c],
                   body |-> [type |-> "recv_message", id |-> job[c].id, msgs |-> {job[c].msg}]]
  <2>1. /\ Advances(c, "push", "pushing") /\ regQ' = Append(regQ, x) /\ UNCHANGED stored
        /\ pushedTo' = [pushedTo EXCEPT ![job[c].msg] = target[c]]
    BY <1>7, AdvanceShape DEF CallPush
  <2>2. /\ UNCHANGED <<registry, fetched, snapshot, job, answer>> /\ hpc[c] = "push" /\ hpc'[c] = "pushing"
        /\ \A s \in Conns \ {c} : hpc'[s] = hpc[s]
    BY <1>2, <2>1
  <2>3. target[c] \in Conns /\ job[c].msg \in Msgs /\ job[c] \in Request
    BY <1>1, <2>2 DEF HandlerIsWhole, Handling, RequestOf
  <2>4. x \in RegMail /\ x.op = "send_data" /\ \A d : ~Registers(x, d)
    <3>1. [type |-> "recv_message", id |-> job[c].id, msgs |-> {job[c].msg}] \in Packet
      BY <2>3, PacketFields, RequestFields
    <3> QED
      BY <2>3, <3>1, RegMailFields DEF Registers
  <2> HIDE DEF x
  <2>5. target[c] # Nobody /\ pushedTo \in [Msgs -> Conns \cup {Nobody}]
    BY <1>1, <2>3, NobodyAssumption DEF TypeOK
  <2>6. /\ pushedTo'[job[c].msg] # Nobody
        /\ \A m \in Msgs : pushedTo[m] # Nobody => pushedTo'[m] # Nobody
    BY <2>1, <2>3, <2>5
  <2> SUFFICES ASSUME NEW m \in Msgs, NEW d \in fetched, LookedAfter(m, d) PROVE LookedAfter(m, d)'
    BY <2>1, <2>2, GapKept
  <2>7. d \in Conns
    BY <1>1 DEF TypeOK
  <2>8. Gone(d) => Gone(d)'
    BY <1>1, <2>1, <2>2, <2>4, <2>7, GoneStays
  <2>9. ASSUME NEW s \in Conns, Seeks(s, m, d) PROVE Seeks(s, m, d)' \/ pushedTo'[m] # Nobody
    <3>1. CASE s = c
      BY <2>6, <2>9, <3>1 DEF Seeks
    <3>2. CASE s # c
      BY <1>1, <2>1, <2>2, <2>4, <2>7, <2>9, <3>2, SeeksStays
    <3> QED
      BY <3>1, <3>2
  <2> QED
    BY <2>6, <2>8, <2>9 DEF LookedAfter
<1> QED
  BY <1>3, <1>4, <1>5, <1>6, <1>7

(* The registry is told of connections and users.                          *)
LEMMA RegistryGap ==
  ASSUME Typed, NoneMissed, Announce \/ AddConnection \/ RemoveConnection \/ SetUser
  PROVE  NoneMissed'
<1>1. TypeOK /\ UNCHANGED <<hpc, job, answer, stored, fetched, snapshot, pushedTo>>
  BY DEF Typed, Announce, AddConnection, RemoveConnection, SetUser, procVars, dbVars, histVars
<1>2. \/ regQ # <<>> /\ regQ' = Tail(regQ)
      \/ \E x \in RegMail : regQ' = Append(regQ, x) /\ x.op = "add"
  <2>1. acc \in Conns \cup {Nobody}
    BY <1>1 DEF TypeOK
  <2> QED
    BY <2>1, RegMailFields DEF Announce, AddConnection, RemoveConnection, SetUser, NextReg
<1> SUFFICES ASSUME NEW m \in Msgs, NEW d \in fetched, LookedAfter(m, d) PROVE LookedAfter(m, d)'
  BY <1>1, GapKept
<1>3. d \in Conns
  BY <1>1 DEF TypeOK
<1>4. Gone(d) => Gone(d)'
  <2>1. CASE Announce
    BY <1>1, <1>2, <1>3, <2>1, GoneStays DEF Announce, Registers
  <2>2. CASE AddConnection \/ RemoveConnection \/ SetUser
    <3>1. regQ # <<>> /\ regQ' = Tail(regQ)
      BY <2>2 DEF AddConnection, RemoveConnection, SetUser, NextReg
    <3>2. Head(regQ) \in Calls /\ Calls' \subseteq Calls
      BY <1>1, <3>1, CallTaken
    <3>3. Gone(d) => ~Registered(d)'
      BY <1>3, <2>2, <3>2, OwnerAssumption, NobodyAssumption
      DEF AddConnection, RemoveConnection, SetUser, NextReg, Gone, Registered, Registers
    <3> QED
      BY <3>2, <3>3 DEF Gone, Registers
  <2> QED
    BY <2>1, <2>2
<1>5. ASSUME NEW s \in Conns, Seeks(s, m, d) PROVE Seeks(s, m, d)'
  BY <1>1, <1>2, <1>3, <1>5, SeeksStays DEF Registers
<1> QED
  BY <1>1, <1>4, <1>5 DEF LookedAfter

(* The registry answers: the search of a message ends in a push unless the  *)
(* connection is gone.                                                     *)
LEMMA CallGap ==
  ASSUME Typed, NoneMissed, ForwardData \/ FindConnection
  PROVE  NoneMissed'
<1> DEFINE r == Head(regQ)
<1>1. /\ TypeOK /\ regQ # <<>> /\ IsCall(r) /\ regQ' = Tail(regQ)
      /\ UNCHANGED <<stored, fetched, snapshot, pushedTo, registry>>
  BY DEF Typed, ForwardData, FindConnection, NextReg, IsCall, dbVars, histVars
<1>2. /\ r.from \in Conns /\ r \in RegMail
      /\ r.op = "get_connection_uuid" => r.user = To[job[r.from].msg]
      /\ r.op = "send_data" =>
           \/ hpc[r.from] = "replied" /\ r.body = answer[r.from]
           \/ hpc[r.from] = "pushing"
  BY <1>1, CallServed DEF IsCall
<1>3. \A s \in Conns \ {r.from} : UNCHANGED <<hpc[s], job[s], answer[s]>>
  BY <1>1, <1>2 DEF ForwardData, FindConnection, TypeOK, Done, Serve, Goto
<1> SUFFICES ASSUME NEW m \in Msgs, NEW d \in fetched, MissedBy(m, d), LookedAfter(m, d)
             PROVE  LookedAfter(m, d)'
  BY <1>1 DEF NoneMissed, MissedBy, IsStored
<1>4. d \in Conns
  BY <1>1 DEF TypeOK
<1>5. Gone(d) => Gone(d)'
  BY <1>1, <1>4, GoneStays
<1>6. ASSUME NEW s \in Conns, Seeks(s, m, d) PROVE Seeks(s, m, d)' \/ Gone(d)'
  <2>1. CASE s # r.from
    BY <1>1, <1>3, <1>4, <1>6, <2>1, SeeksStays
  <2>2. CASE s = r.from /\ ForwardData
    <3>1. r.op = "send_data" /\ hpc[s] = "replied" /\ r.body.type = "send_message"
      BY <1>2, <1>6, <2>2 DEF ForwardData, NextReg, Seeks
    <3>2. hpc'[s] = "lookup" /\ UNCHANGED <<job, answer>>
      BY <1>1, <2>2, <3>1 DEF ForwardData, Goto, TypeOK
    <3> QED
      BY <1>6, <3>2 DEF Seeks
  <2>3. CASE s = r.from /\ FindConnection
    <3> DEFINE found == {e \in DOMAIN registry : registry[e] = r.user}
    <3>1. r.op = "get_connection_uuid" /\ r.user = To[m] /\ hpc[s] = "asked" /\ ReadBefore(d, s)
      BY <1>1, <1>2, <1>6, <2>3, CallServed DEF FindConnection, NextReg, Seeks
    <3>2. CASE found = {}
      <4>1. ~Registered(d)'
        BY <1>1, <3>1, <3>2 DEF Registered, MissedBy
      <4>2. \A i \in 1..Len(regQ) : ~Registers(regQ[i], d)
        <5>1. Len(regQ) \in Nat \ {0} /\ r = regQ[1]
          BY <1>1, QueueOfTail
        <5> HIDE DEF r
        <5>2. regQ[1].op = "get_connection_uuid" /\ regQ[1].from = s /\ 1 \in 1..Len(regQ)
          BY <2>3, <3>1, <5>1
        <5> QED
          BY <3>1, <5>1, <5>2 DEF ReadBefore
      <4>3. \A x \in Calls' : ~Registers(x, d)
        <5>1. Calls' \subseteq Calls /\ \A x \in Calls : \E i \in 1..Len(regQ) : regQ[i] = x
          BY <1>1, CallTaken, QueueOfTail
        <5> QED
          BY <4>2, <5>1
      <4> QED
        BY <4>1, <4>3 DEF Gone, Registers
    <3>3. CASE found # {}
      <4>1. hpc'[s] = "push" \/ found = {}
        BY <1>1, <2>3 DEF FindConnection, Goto, TypeOK
      <4>2. UNCHANGED <<job, answer>>
        BY <2>3, <3>3 DEF FindConnection
      <4> QED
        BY <1>6, <3>3, <4>1, <4>2 DEF Seeks
    <3> QED
      BY <3>2, <3>3
  <2> QED
    BY <2>1, <2>2, <2>3
<1> QED
  BY <1>1, <1>5, <1>6 DEF LookedAfter

THEOREM MessagesAreLookedAfter == Spec => []NoneMissed
<1>1. ASSUME Typed, SessionInv, NoneMissed, Next PROVE NoneMissed'
  BY <1>1, Steps, QuietGap, HandlerGap, GoesOnGap, RegistryGap, CallGap
<1> QED
  BY <1>1, TypesHold, SessionsInOrder, InitGap, UnchangedGap, PTL DEF Spec

(* No message falls between the fetch and the pushes: what is stored too    *)
(* late for the fetch of a registered connection is pushed to one of the    *)
(* receiver's devices, or a handler is about to.                           *)
THEOREM NoMessageIsLost == Spec => []NoMessageGap
<1>1. Typed /\ OwnersInv /\ NoneMissed => NoMessageGap
  <2> SUFFICES ASSUME Typed, OwnersInv, NoneMissed, NEW m \in Msgs, NEW c \in fetched,
                      IsStored(m), To[m] = Owner[c], Registered(c), m \notin snapshot[c], ~InProgress(m)
               PROVE  pushedTo[m] # Nobody /\ Owner[pushedTo[m]] = To[m]
    BY DEF NoMessageGap
  <2>1. LookedAfter(m, c) /\ ~Gone(c)
    BY DEF NoneMissed, MissedBy, Gone
  <2>2. \A s \in Conns : ~Seeks(s, m, c)
    <3> SUFFICES ASSUME NEW s \in Conns, Seeks(s, m, c) PROVE InProgress(m)
      OBVIOUS
    <3>1. job[s].msg = m /\ hpc[s] \in {"reply", "replied", "lookup", "asked", "push"} /\ answer[s].type = "send_message"
      BY DEF Seeks
    <3>2. job[s].type = "send_message"
      BY <3>1 DEF Typed, HandlersAreWhole, HandlerIsWhole, Handling
    <3> QED
      BY <3>1, <3>2 DEF InProgress
  <2> QED
    BY <2>1, <2>2 DEF LookedAfter, OwnersInv, TargetsAreReceivers
<1> QED
  BY <1>1, TypesHold, PushesGoToTheReceiver, MessagesAreLookedAfter, PTL

=============================================================================
