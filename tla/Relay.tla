-------------------------------- MODULE Relay --------------------------------
(***************************************************************************)
(* The server's processes, server/lib: the acceptor, one process per       *)
(* client connection and the TCPServer GenServer, which keeps the registry *)
(* from connections to processes and users.  Connection processes talk to  *)
(* the registry by casts (not awaited) and calls (awaited) and to their    *)
(* sockets; a message to another user is stored, acknowledged and pushed   *)
(* to one connection the registry knows for the receiver.                  *)
(*                                                                         *)
(* Around them the clients: each connection is one device of one user,     *)
(* which follows the client's protocol (handshake, key, login, fetch, then *)
(* messages), may give up on an answer and may go away at any time.  A     *)
(* step of a connection process is one database operation, one message to  *)
(* the registry or one packet written; the database's own steps are        *)
(* abstracted: a login succeeds, fails or crashes at once.                 *)
(***************************************************************************)
EXTENDS Naturals, Sequences, FiniteSets

CONSTANTS Conns,        \* connections, each one device
          Users,        \* the people who use the devices
          Newcomers,    \* those of them who have no account at the start
          Msgs,         \* messages the devices may send
          Nobody,       \* no user, connection, message or token
          Quota,        \* bound: Quota[c], the requests device c makes
          Leavers,      \* bound: the devices that may go away
          Impatient,    \* bound: the devices that may give up on an answer
          Owner,        \* Owner[c]: the user at device c
          SentBy,       \* SentBy[m]: the device that sends m
          To            \* To[m]: the user m is for; it need not exist

ASSUME OwnerAssumption == Owner \in [Conns -> Users]
ASSUME NewcomerAssumption == Newcomers \subseteq Users
ASSUME MsgAssumption == SentBy \in [Msgs -> Conns] /\ To \in [Msgs -> Users \cup {Nobody}]
ASSUME NobodyAssumption == Nobody \notin Conns \cup Users \cup Msgs \cup (Conns \X Nat)
ASSUME DeviceAssumption == Leavers \subseteq Conns /\ Impatient \subseteq Conns
ASSUME QuotaAssumption == Quota \in [Conns -> Nat]

VARIABLES
  acc,        \* the connection the acceptor has spawned and not yet announced
  hpc,        \* where each connection process is
  job,        \* the request it is handling
  answer,     \* the packet it is about to answer with
  target,     \* the connection it is about to push the message to
  sock,       \* requests sent by the client and not yet read from the socket
  armed,      \* whether the socket is in active-once mode
  mbox,       \* the connection process's mailbox
  regQ,       \* the registry's mailbox
  registry,   \* connection -> user, Nobody before the login
  regUp,      \* whether the registry process has never crashed
  accounts,   \* the users that have an account
  token,      \* their session tokens
  stored,     \* the messages table, in insertion order
  cl,         \* where each client is in its protocol
  tries,      \* requests each client has made; the last one's message id
  tok,        \* the token each client holds
  sent,       \* messages handed to SendMessage
  acked,      \* messages whose sender has been told they were accepted
  fetched,    \* connections that had a fetch answered from the database
  snapshot,   \* the messages the last fetch of each connection found
  pushedTo,   \* the connection each message was pushed to
  got         \* messages pushed to each client, in order of arrival

procVars == <<hpc, job, answer, target>>
inVars == <<sock, armed, mbox>>
regVars == <<regQ, registry, regUp>>
dbVars == <<accounts, token, stored>>
clientVars == <<cl, tries, tok, sent>>
histVars == <<acked, fetched, snapshot, pushedTo, got>>
vars == <<acc, procVars, inVars, regVars, dbVars, clientVars, histVars>>

RequestTypes == {"req_key", "req_login", "req_signup", "req_pub_key", "req_messages",
                 "send_message", "req_logout"}
Tokens == (Conns \X Nat) \cup {Nobody}

(* A request as the handler sees it: type, message id, token, message; and *)
(* a packet for a client: type, id of the request it answers, messages.    *)
Request == [type : RequestTypes, id : Nat, token : Tokens, msg : Msgs \cup {Nobody}]
Packet == [type : RequestTypes \cup {"handshake", "error", "recv_message"},
           id : Nat, msgs : SUBSET Msgs]
NoRequest == [type |-> "none", id |-> 0, token |-> Nobody, msg |-> Nobody]
NoPacket == [type |-> "none", id |-> 0, msgs |-> {}]
Handshake == [type |-> "handshake", id |-> 0, msgs |-> {}]

Mail == [kind : {"tcp"}, body : Request] \cup [kind : {"tcp_closed"}]
          \cup [kind : {"send_data"}, body : Packet]
RegMail ==
  [op : {"add", "remove"}, conn : Conns]
    \cup [op : {"update"}, conn : Conns, user : Users \cup {Nobody}]
    \cup [op : {"send_data"}, from : Conns, conn : Conns, body : Packet]
    \cup [op : {"get_connection_uuid"}, from : Conns, user : Users]

TypeOK ==
  /\ acc \in Conns \cup {Nobody}
  /\ hpc \in [Conns -> {"off", "serve", "announce", "insert", "reply", "replied", "lookup",
                        "asked", "push", "pushing", "dead"}]
  /\ job \in [Conns -> Request \cup {NoRequest}]
  /\ answer \in [Conns -> Packet \cup {NoPacket}]
  /\ target \in [Conns -> Conns \cup {Nobody}]
  /\ sock \in [Conns -> Seq(Request)]
  /\ armed \in [Conns -> BOOLEAN]
  /\ mbox \in [Conns -> Seq(Mail)]
  /\ regQ \in Seq(RegMail)
  /\ DOMAIN registry \subseteq Conns
  /\ \A c \in DOMAIN registry : registry[c] \in Users \cup {Nobody}
  /\ regUp \in BOOLEAN
  /\ accounts \subseteq Users
  /\ token \in [Users -> Tokens]
  /\ stored \in Seq(Msgs)
  /\ cl \in [Conns -> {"off", "dialing", "hello", "askedKey", "haveKey", "askedLogin", "loggedIn",
                       "askedMessages", "in", "askedPubKey", "sending", "loggingOut", "closed"}]
  /\ tries \in [Conns -> Nat]
  /\ tok \in [Conns -> Tokens]
  /\ sent \subseteq Msgs /\ acked \subseteq Msgs
  /\ fetched \subseteq Conns
  /\ snapshot \in [Conns -> SUBSET Msgs]
  /\ pushedTo \in [Msgs -> Conns \cup {Nobody}]
  /\ got \in [Conns -> Seq(Msgs)]

Init ==
  /\ acc = Nobody
  /\ hpc = [c \in Conns |-> "off"]
  /\ job = [c \in Conns |-> NoRequest]
  /\ answer = [c \in Conns |-> NoPacket]
  /\ target = [c \in Conns |-> Nobody]
  /\ sock = [c \in Conns |-> <<>>]
  /\ armed = [c \in Conns |-> FALSE]
  /\ mbox = [c \in Conns |-> <<>>]
  /\ regQ = <<>>
  /\ registry = <<>>
  /\ regUp = TRUE
  /\ accounts = Users \ Newcomers
  /\ token = [u \in Users |-> Nobody]
  /\ stored = <<>>
  /\ cl = [c \in Conns |-> "off"]
  /\ tries = [c \in Conns |-> 0]
  /\ tok = [c \in Conns |-> Nobody]
  /\ sent = {} /\ acked = {}
  /\ fetched = {}
  /\ snapshot = [c \in Conns |-> {}]
  /\ pushedTo = [m \in Msgs |-> Nobody]
  /\ got = [c \in Conns |-> <<>>]

IsStored(m) == \E i \in 1..Len(stored) : stored[i] = m

-----------------------------------------------------------------------------
(* The acceptor: one connection at a time, the process is spawned before   *)
(* the registry hears of it.  The process's first act is the handshake.    *)

Accept(c) ==
  /\ acc = Nobody /\ cl[c] = "off"
  /\ acc' = c
  /\ cl' = [cl EXCEPT ![c] = "dialing"]
  /\ hpc' = [hpc EXCEPT ![c] = "serve"]
  /\ mbox' = [mbox EXCEPT ![c] = <<[kind |-> "send_data", body |-> Handshake]>>]
  /\ UNCHANGED <<job, answer, target, sock, armed, regVars, dbVars, tries, tok, sent, histVars>>

Announce ==
  /\ acc # Nobody
  /\ regQ' = Append(regQ, [op |-> "add", conn |-> acc])
  /\ acc' = Nobody
  /\ UNCHANGED <<procVars, inVars, registry, regUp, dbVars, clientVars, histVars>>

-----------------------------------------------------------------------------
(* The clients.                                                            *)

Waiting(c) ==
  cl[c] \in {"askedKey", "askedLogin", "askedMessages", "askedPubKey", "sending", "loggingOut"}

(* Mutant: a sign-up that does not wait for the key.                       *)
Requests_NoKey(c) ==
  CASE cl[c] = "hello"    -> {<<"req_signup", Nobody, "askedLogin">>}
    [] OTHER -> {}

(* A client's next request by its state; the state while it waits.  Only a *)
(* newcomer signs up, and that includes no fetch; AddContact asks for the  *)
(* public key of somebody to write to.                                     *)
Requests(c) ==
  CASE cl[c] = "hello"    -> {<<"req_key", Nobody, "askedKey">>}
    [] cl[c] = "haveKey"  -> {<<"req_login", Nobody, "askedLogin">>}
                               \cup (IF Owner[c] \in Newcomers THEN {<<"req_signup", Nobody, "askedLogin">>} ELSE {})
    [] cl[c] = "loggedIn" -> {<<"req_messages", Nobody, "askedMessages">>}
    [] cl[c] = "in"       -> {<<"send_message", m, "sending">> : m \in {n \in Msgs \ sent : SentBy[n] = c}}
                               \cup {<<"req_pub_key", m, "askedPubKey">> : m \in {n \in Msgs \ sent : SentBy[n] = c}}
                               \cup {<<"req_logout", Nobody, "loggingOut">>}
    [] OTHER -> {}

ClientSends(c) ==
  /\ tries[c] < Quota[c]
  /\ \E r \in Requests(c) :
       /\ sock' = [sock EXCEPT ![c] = Append(@, [type |-> r[1], id |-> tries[c] + 1,
                                                 token |-> tok[c], msg |-> r[2]])]
       /\ cl' = [cl EXCEPT ![c] = r[3]]
       /\ sent' = IF r[1] = "send_message" THEN sent \cup {r[2]} ELSE sent
  /\ tries' = [tries EXCEPT ![c] = @ + 1]
  /\ UNCHANGED <<acc, procVars, armed, mbox, regVars, dbVars, tok, histVars>>

(* SendReceive's timeout: Login gives up on a key or a token, but goes on  *)
(* without its messages.                                                   *)
GiveUp(c) ==
  /\ c \in Impatient /\ Waiting(c)
  /\ cl' = [cl EXCEPT ![c] = IF @ \in {"askedKey", "askedLogin"} THEN "hello" ELSE "in"]
  /\ UNCHANGED <<acc, procVars, inVars, regVars, dbVars, tries, tok, sent, histVars>>

ClientCloses(c) ==
  /\ c \in Leavers /\ cl[c] \notin {"off", "closed"}
  /\ cl' = [cl EXCEPT ![c] = "closed"]
  /\ UNCHANGED <<acc, procVars, inVars, regVars, dbVars, tries, tok, sent, histVars>>

(* What a client does with a packet: an answer counts only when it carries *)
(* the id of the request the client waits for.                             *)
Answers(c, p) == Waiting(c) /\ p.id = tries[c] /\ p.type # "recv_message"

Receives(c, p) ==
  /\ cl' = [cl EXCEPT ![c] =
       IF p.type = "handshake" /\ @ = "dialing" THEN "hello"
       ELSE IF ~Answers(c, p) THEN @
       ELSE IF p.type = "error" THEN IF @ \in {"askedKey", "askedLogin"} THEN "hello" ELSE "in"
       ELSE IF p.type = "req_key" THEN "haveKey"
       ELSE IF p.type = "req_login" THEN "loggedIn"
       ELSE "in"]
  /\ tok' = IF Answers(c, p) /\ p.type \in {"req_login", "req_signup"} THEN [tok EXCEPT ![c] = <<c, p.id>>] ELSE tok
  /\ acked' = IF Answers(c, p) /\ p.type = "send_message" THEN acked \cup p.msgs ELSE acked
  /\ got' = IF p.type = "recv_message" /\ cl[c] # "closed"
            THEN [got EXCEPT ![c] = Append(@, CHOOSE m \in p.msgs : TRUE)] ELSE got

-----------------------------------------------------------------------------
(* The connection process: its socket and its mailbox.                     *)

(* In active-once mode the next request, or the end of the stream, becomes *)
(* one message in the mailbox.                                             *)
SocketDelivers(c) ==
  /\ armed[c] /\ hpc[c] \notin {"off", "dead"}
  /\ \/ /\ sock[c] # <<>>
        /\ mbox' = [mbox EXCEPT ![c] = Append(@, [kind |-> "tcp", body |-> Head(sock[c])])]
        /\ sock' = [sock EXCEPT ![c] = Tail(@)]
     \/ /\ sock[c] = <<>> /\ cl[c] = "closed"
        /\ [kind |-> "tcp_closed"] \notin {mbox[c][i] : i \in 1..Len(mbox[c])}
        /\ mbox' = [mbox EXCEPT ![c] = Append(@, [kind |-> "tcp_closed"])]
        /\ UNCHANGED sock
  /\ armed' = [armed EXCEPT ![c] = FALSE]
  /\ UNCHANGED <<acc, procVars, regVars, dbVars, clientVars, histVars>>

NextMail(c, kind) == hpc[c] = "serve" /\ mbox[c] # <<>> /\ Head(mbox[c]).kind = kind

(* Back to loop_serve, which sets active-once again.                       *)
Serve(c) ==
  /\ hpc' = [hpc EXCEPT ![c] = "serve"]
  /\ armed' = [armed EXCEPT ![c] = TRUE]

(* The handler is done with its request.                                   *)
Done(c) ==
  /\ Serve(c)
  /\ job' = [job EXCEPT ![c] = NoRequest]
  /\ answer' = [answer EXCEPT ![c] = NoPacket]
  /\ target' = [target EXCEPT ![c] = Nobody]

(* The process exits: nothing reads its mailbox or its socket again.       *)
Die(c) ==
  /\ hpc' = [hpc EXCEPT ![c] = "dead"]
  /\ mbox' = [mbox EXCEPT ![c] = <<>>]
  /\ sock' = [sock EXCEPT ![c] = <<>>]
  /\ armed' = [armed EXCEPT ![c] = FALSE]

(* Mutant: a packet that was written may be written again.                    *)
SendData_Again(c) ==
  /\ NextMail(c, "send_data")
  /\ Receives(c, Head(mbox[c]).body)
  /\ Serve(c)
  /\ mbox' \in {mbox, [mbox EXCEPT ![c] = Tail(@)]}
  /\ UNCHANGED <<acc, job, answer, target, sock, regVars, dbVars, tries, sent, fetched, snapshot, pushedTo>>

(* A packet is written.  A peer that is gone may not have been noticed.    *)
SendData(c) ==
  /\ NextMail(c, "send_data")
  /\ Receives(c, Head(mbox[c]).body)
  /\ Serve(c)
  /\ mbox' = [mbox EXCEPT ![c] = Tail(@)]
  /\ UNCHANGED <<acc, job, answer, target, sock, regVars, dbVars, tries, sent, fetched, snapshot, pushedTo>>

(* The write fails, after the retries the process exits without telling    *)
(* the registry.                                                           *)
SendDataFails(c) ==
  /\ NextMail(c, "send_data") /\ cl[c] = "closed"
  /\ Die(c)
  /\ UNCHANGED <<acc, job, answer, target, regVars, dbVars, clientVars, histVars>>

TcpClosed(c) ==
  /\ NextMail(c, "tcp_closed")
  /\ regQ' = Append(regQ, [op |-> "remove", conn |-> c])
  /\ Die(c)
  /\ UNCHANGED <<acc, job, answer, target, registry, regUp, dbVars, clientVars, histVars>>

-----------------------------------------------------------------------------
(* The connection process: handle_data.                                    *)

Goto(c, stage) == hpc' = [hpc EXCEPT ![c] = stage]
Take(c, type) ==
  /\ NextMail(c, "tcp") /\ Head(mbox[c]).body.type = type
  /\ job' = [job EXCEPT ![c] = Head(mbox[c]).body]
  /\ mbox' = [mbox EXCEPT ![c] = Tail(@)]
AnswerWith(c, type, msgs) ==
  answer' = [answer EXCEPT ![c] = [type |-> type, id |-> Head(mbox[c]).body.id, msgs |-> msgs]]

(* verify_token: the token of the user's latest login.                     *)
Verified(c) == Head(mbox[c]).body.token # Nobody /\ Head(mbox[c]).body.token = token[Owner[c]]

Unauthorised(c) ==
  /\ \E type \in {"req_pub_key", "req_messages", "send_message", "req_logout"} : Take(c, type)
  /\ ~Verified(c)
  /\ AnswerWith(c, "error", {})
  /\ Goto(c, "reply")
  /\ UNCHANGED <<acc, target, sock, armed, regVars, dbVars, clientVars, histVars>>

ReqKey(c) ==
  /\ Take(c, "req_key")
  /\ AnswerWith(c, "req_key", {})
  /\ Goto(c, "reply")
  /\ UNCHANGED <<acc, target, sock, armed, regVars, dbVars, clientVars, histVars>>

ReqLogin(c) ==
  /\ Take(c, "req_login") /\ Owner[c] \in accounts
  /\ token' = [token EXCEPT ![Owner[c]] = <<c, Head(mbox[c]).body.id>>]
  /\ AnswerWith(c, "req_login", {})
  /\ Goto(c, "announce")
  /\ UNCHANGED <<acc, target, sock, armed, regVars, accounts, stored, clientVars, histVars>>

ReqSignup(c) ==
  /\ Take(c, "req_signup") /\ Owner[c] \notin accounts
  /\ accounts' = accounts \cup {Owner[c]}
  /\ token' = [token EXCEPT ![Owner[c]] = <<c, Head(mbox[c]).body.id>>]
  /\ AnswerWith(c, "req_signup", {})
  /\ Goto(c, "announce")
  /\ UNCHANGED <<acc, target, sock, armed, regVars, stored, clientVars, histVars>>

(* Mutant: a failed login is logged and not answered.                       *)
LoginFails_Silent(c) ==
  /\ Take(c, "req_login")
  /\ token' \in {token, [token EXCEPT ![Owner[c]] = Nobody]}
  /\ Serve(c)
  /\ UNCHANGED <<acc, answer, target, sock, regVars, accounts, stored, clientVars, histVars>>

(* No key or no account; or a wrong password, which ends the user's        *)
(* session on every device.                                                *)
LoginFails(c) ==
  /\ Take(c, "req_login")
  /\ token' \in {token, [token EXCEPT ![Owner[c]] = Nobody]}
  /\ AnswerWith(c, "error", {})
  /\ Goto(c, "reply")
  /\ UNCHANGED <<acc, target, sock, armed, regVars, accounts, stored, clientVars, histVars>>

(* No key, or there is an account already.                                 *)
SignupFails(c) ==
  /\ Take(c, "req_signup")
  /\ AnswerWith(c, "error", {})
  /\ Goto(c, "reply")
  /\ UNCHANGED <<acc, target, sock, armed, regVars, dbVars, clientVars, histVars>>

(* The handler raises on a contended key; the registry is not told.        *)
HandlerCrashes(c) ==
  /\ NextMail(c, "tcp") /\ Head(mbox[c]).body.type \in {"req_key", "req_login", "req_signup"}
  /\ Die(c)
  /\ UNCHANGED <<acc, job, answer, target, regVars, dbVars, clientVars, histVars>>

ReqMessages(c) ==
  /\ Take(c, "req_messages") /\ Verified(c)
  /\ snapshot' = [snapshot EXCEPT ![c] = {m \in Msgs : IsStored(m) /\ To[m] = Owner[c]}]
  /\ fetched' = fetched \cup {c}
  /\ AnswerWith(c, "req_messages", {m \in Msgs : IsStored(m) /\ To[m] = Owner[c]})
  /\ Goto(c, "reply")
  /\ UNCHANGED <<acc, target, sock, armed, regVars, dbVars, clientVars, acked, pushedTo, got>>

(* Mutant: the message is acknowledged and not inserted.                   *)
SendMessage_NoInsert(c) ==
  /\ Take(c, "send_message") /\ Verified(c)
  /\ AnswerWith(c, "send_message", {Head(mbox[c]).body.msg})
  /\ Goto(c, "reply")
  /\ UNCHANGED <<acc, target, sock, armed, regVars, dbVars, clientVars, histVars>>

SendMessage(c) ==
  /\ Take(c, "send_message") /\ Verified(c)
  /\ LET m == Head(mbox[c]).body.msg IN
     IF To[m] \in accounts
     THEN AnswerWith(c, "send_message", {m}) /\ Goto(c, "insert")
     ELSE AnswerWith(c, "error", {}) /\ Goto(c, "reply")
  /\ UNCHANGED <<acc, target, sock, armed, regVars, dbVars, clientVars, histVars>>

ReqPubKey(c) ==
  /\ Take(c, "req_pub_key") /\ Verified(c)
  /\ AnswerWith(c, IF To[Head(mbox[c]).body.msg] \in accounts THEN "req_pub_key" ELSE "error", {})
  /\ Goto(c, "reply")
  /\ UNCHANGED <<acc, target, sock, armed, regVars, dbVars, clientVars, histVars>>

ReqLogout(c) ==
  /\ Take(c, "req_logout") /\ Verified(c)
  /\ AnswerWith(c, "req_logout", {})
  /\ Goto(c, "announce")
  /\ UNCHANGED <<acc, target, sock, armed, regVars, dbVars, clientVars, histVars>>

(* The cast to the registry: whose connection this is, or nobody's.        *)
UpdateConnection(c) ==
  /\ hpc[c] = "announce"
  /\ regQ' = Append(regQ, [op |-> "update", conn |-> c,
                           user |-> IF job[c].type = "req_logout" THEN Nobody ELSE Owner[c]])
  /\ Goto(c, "reply")
  /\ UNCHANGED <<acc, job, answer, target, inVars, registry, regUp, dbVars, clientVars, histVars>>

InsertMessage(c) ==
  /\ hpc[c] = "insert"
  /\ stored' = Append(stored, job[c].msg)
  /\ Goto(c, "reply")
  /\ UNCHANGED <<acc, job, answer, target, inVars, regVars, accounts, token, clientVars, histVars>>

CallReply(c) ==
  /\ hpc[c] = "reply"
  /\ regQ' = Append(regQ, [op |-> "send_data", from |-> c, conn |-> c, body |-> answer[c]])
  /\ Goto(c, "replied")
  /\ UNCHANGED <<acc, job, answer, target, inVars, registry, regUp, dbVars, clientVars, histVars>>

(* Mutant: the sender's connection is looked up, not the receiver's.       *)
CallLookup_Sender(c) ==
  /\ hpc[c] = "lookup"
  /\ regQ' = Append(regQ, [op |-> "get_connection_uuid", from |-> c, user |-> Owner[c]])
  /\ Goto(c, "asked")
  /\ UNCHANGED <<acc, job, answer, target, inVars, registry, regUp, dbVars, clientVars, histVars>>

CallLookup(c) ==
  /\ hpc[c] = "lookup"
  /\ regQ' = Append(regQ, [op |-> "get_connection_uuid", from |-> c, user |-> To[job[c].msg]])
  /\ Goto(c, "asked")
  /\ UNCHANGED <<acc, job, answer, target, inVars, registry, regUp, dbVars, clientVars, histVars>>

(* The packet for the receiver carries the sender's message id.            *)
CallPush(c) ==
  /\ hpc[c] = "push"
  /\ regQ' = Append(regQ, [op |-> "send_data", from |-> c, conn |-> target[c],
                           body |-> [type |-> "recv_message", id |-> job[c].id, msgs |-> {job[c].msg}]])
  /\ pushedTo' = [pushedTo EXCEPT ![job[c].msg] = target[c]]
  /\ Goto(c, "pushing")
  /\ UNCHANGED <<acc, job, answer, target, inVars, registry, regUp, dbVars, clientVars,
                 acked, fetched, snapshot, got>>

-----------------------------------------------------------------------------
(* The registry.                                                           *)

NextReg(op) == regUp /\ regQ # <<>> /\ Head(regQ).op = op

AddConnection ==
  /\ NextReg("add")
  /\ registry' = [c \in DOMAIN registry \cup {Head(regQ).conn} |->
                    IF c = Head(regQ).conn THEN Nobody ELSE registry[c]]
  /\ regQ' = Tail(regQ)
  /\ UNCHANGED <<acc, procVars, inVars, regUp, dbVars, clientVars, histVars>>

RemoveConnection ==
  /\ NextReg("remove")
  /\ registry' = [c \in DOMAIN registry \ {Head(regQ).conn} |-> registry[c]]
  /\ regQ' = Tail(regQ)
  /\ UNCHANGED <<acc, procVars, inVars, regUp, dbVars, clientVars, histVars>>

(* Mutant: the fields of the cast are swapped.                             *)
SetUser_Swapped ==
  /\ NextReg("update")
  /\ registry' = [c \in DOMAIN registry |-> Head(regQ).conn]
  /\ regUp' = (Head(regQ).conn \in DOMAIN registry)
  /\ regQ' = Tail(regQ)
  /\ UNCHANGED <<acc, procVars, inVars, dbVars, clientVars, histVars>>

(* An unknown connection gets a reply no cast may give: the process exits. *)
SetUser ==
  /\ NextReg("update")
  /\ registry' = [c \in DOMAIN registry |->
                    IF c = Head(regQ).conn THEN Head(regQ).user ELSE registry[c]]
  /\ regUp' = (Head(regQ).conn \in DOMAIN registry)
  /\ regQ' = Tail(regQ)
  /\ UNCHANGED <<acc, procVars, inVars, dbVars, clientVars, histVars>>

(* Mutant: no reply when the connection is not known.                      *)
ForwardData_NoReply ==
  /\ NextReg("send_data")
  /\ LET r == Head(regQ) IN
     IF r.conn \in DOMAIN registry /\ hpc[r.conn] # "dead"
     THEN /\ mbox' = [mbox EXCEPT ![r.conn] = Append(@, [kind |-> "send_data", body |-> r.body])]
          /\ IF r.body.type = "send_message"
             THEN Goto(r.from, "lookup") /\ UNCHANGED <<armed, job, answer, target>>
             ELSE Done(r.from)
     ELSE UNCHANGED <<mbox, hpc, armed, job, answer, target>>
  /\ regQ' = Tail(regQ)
  /\ UNCHANGED <<acc, sock, registry, regUp, dbVars, clientVars, histVars>>

(* The packet goes to the mailbox of the connection's process, which may   *)
(* be dead, or nowhere; the caller goes on either way.                     *)
ForwardData ==
  /\ NextReg("send_data")
  /\ LET r == Head(regQ) IN
     /\ mbox' = IF r.conn \in DOMAIN registry /\ hpc[r.conn] # "dead"
                THEN [mbox EXCEPT ![r.conn] = Append(@, [kind |-> "send_data", body |-> r.body])]
                ELSE mbox
     /\ IF r.body.type = "send_message"
        THEN Goto(r.from, "lookup") /\ UNCHANGED <<armed, job, answer, target>>
        ELSE Done(r.from)
  /\ regQ' = Tail(regQ)
  /\ UNCHANGED <<acc, sock, registry, regUp, dbVars, clientVars, histVars>>

(* Any entry of the user: maps have no order one could rely on.            *)
FindConnection ==
  /\ NextReg("get_connection_uuid")
  /\ LET r == Head(regQ)
         found == {c \in DOMAIN registry : registry[c] = r.user} IN
     \/ found = {} /\ Done(r.from)
     \/ /\ \E d \in found : target' = [target EXCEPT ![r.from] = d]
        /\ Goto(r.from, "push")
        /\ UNCHANGED <<armed, job, answer>>
  /\ regQ' = Tail(regQ)
  /\ UNCHANGED <<acc, sock, mbox, registry, regUp, dbVars, clientVars, histVars>>

-----------------------------------------------------------------------------
ConnProcess(c) ==
  \/ SendData(c) \/ SendDataFails(c) \/ TcpClosed(c)
  \/ Unauthorised(c) \/ ReqKey(c) \/ ReqLogin(c) \/ LoginFails(c) \/ HandlerCrashes(c)
  \/ ReqSignup(c) \/ SignupFails(c)
  \/ ReqMessages(c) \/ SendMessage(c) \/ ReqPubKey(c) \/ ReqLogout(c)
  \/ UpdateConnection(c) \/ InsertMessage(c) \/ CallReply(c) \/ CallLookup(c) \/ CallPush(c)

Registry == AddConnection \/ RemoveConnection \/ SetUser \/ ForwardData \/ FindConnection

Next ==
  \/ Announce \/ Registry
  \/ \E c \in Conns :
       \/ Accept(c) \/ ClientSends(c) \/ GiveUp(c) \/ ClientCloses(c)
       \/ SocketDelivers(c) \/ ConnProcess(c)

Spec == Init /\ [][Next]_vars

(* The BEAM schedules every runnable process and the sockets deliver; the  *)
(* clients owe nothing.                                                    *)
Fairness ==
  /\ WF_vars(Announce) /\ WF_vars(Registry)
  /\ \A c \in Conns : WF_vars(SocketDelivers(c)) /\ WF_vars(ConnProcess(c))

FairSpec == Spec /\ Fairness

-----------------------------------------------------------------------------
(* Properties.                                                             *)

(* The registry never meets an update for a connection it does not know,   *)
(* the one message whose handler's return value would crash it and lose    *)
(* every registration: the add is cast by another process than the update, *)
(* but a client logs in only with a key that the registry let through.     *)
RegistryNeverCrashes == regUp

(* A client that has been told its message was accepted can rely on it:    *)
(* the message is in the table, whatever became of the connections since.  *)
AckedIsStored == \A m \in acked : IsStored(m)

(* A handler still has to look for the receiver of m.                      *)
InProgress(m) ==
  \E c \in Conns : job[c].type = "send_message" /\ job[c].msg = m /\ hpc[c] \in {"reply", "replied", "lookup", "asked", "push"}

Registered(c) == c \in DOMAIN registry /\ registry[c] = Owner[c]

(* No message falls between the fetch and the pushes: one that was stored  *)
(* too late for the fetch of a connection that is logged in is pushed to   *)
(* one of the receiver's connections, or its handler is about to.          *)
NoMessageGap ==
  \A m \in Msgs, c \in fetched :
    IsStored(m) /\ To[m] = Owner[c] /\ Registered(c) /\ m \notin snapshot[c] /\ ~InProgress(m)
      => pushedTo[m] # Nobody /\ Owner[pushedTo[m]] = To[m]

(* What one device sends arrives at each other device in the order in      *)
(* which it was stored, and at most once: a handler is done with a message *)
(* before its process takes up the next one.                               *)
StoredBefore(m, n) == \E i, j \in 1..Len(stored) : i < j /\ stored[i] = m /\ stored[j] = n
PushesInOrder ==
  \A c \in Conns : \A i, j \in 1..Len(got[c]) :
    i < j /\ SentBy[got[c][i]] = SentBy[got[c][j]] => StoredBefore(got[c][i], got[c][j])

(* No process waits for another for ever: a handler always gets back to    *)
(* its socket.                                                             *)
HandlersFinish == \A c \in Conns : hpc[c] \notin {"off", "serve", "dead"} ~> hpc[c] \in {"serve", "dead"}

(* A message for a user with one registered connection gets to it, by the  *)
(* fetch or by a push, as long as the connection lasts and stays the only  *)
(* one.                                                                    *)
OnlyConnection(c) ==
  /\ Registered(c) /\ cl[c] # "closed" /\ c \in fetched
  /\ \A d \in DOMAIN registry \ {c} : registry[d] # Owner[c]
Arrived(m, c) == m \in snapshot[c] \/ \E i \in 1..Len(got[c]) : got[c][i] = m
OnlineDelivery ==
  \A m \in Msgs : \A c \in {d \in Conns : Owner[d] = To[m]} :
    IsStored(m) /\ OnlyConnection(c) ~> Arrived(m, c) \/ ~OnlyConnection(c)

(* What the server's interface says of messages: they are requested by the *)
(* client or pushed by the server.  A newcomer that has signed up has the  *)
(* second only, and every message stored for it is pushed to a connection. *)
SignedUp(c) == Owner[c] \in Newcomers /\ Registered(c) /\ cl[c] = "in" /\ c \notin fetched
NewcomerMissesNothing ==
  \A m \in Msgs, c \in Conns :
    SignedUp(c) /\ IsStored(m) /\ To[m] = Owner[c] /\ ~InProgress(m) => pushedTo[m] # Nobody

(* Whoever waits for an answer gets one, if only an error, as long as its   *)
(* process lives, provided that the registry knew the connection before    *)
(* the handler took the request up: the reply goes through the registry.   *)
OnTheWay(c) ==
  \/ sock[c] # <<>>
  \/ \E i \in 1..Len(mbox[c]) : mbox[c][i].kind = "tcp" /\ mbox[c][i].body.id = tries[c]
KnownAreAnswered ==
  \A c \in Conns :
    Waiting(c) /\ OnTheWay(c) /\ c \in DOMAIN registry ~> ~Waiting(c) \/ hpc[c] = "dead"

(* What the login flow says of a key request: the server generates a key   *)
(* and sends it to the client.  A client that stays, waits and whose       *)
(* handler does not crash gets one.                                        *)
KeyRequestIsAnswered ==
  \A c \in Conns : cl[c] = "askedKey" ~> cl[c] # "askedKey" \/ hpc[c] = "dead"
=============================================================================
