---------------------------------- MODULE Wire ----------------------------------
(***************************************************************************)
(* The bytes between a client and the server: how tcpclient/packet.go and  *)
(* client.go lay requests out and the server's acceptor and data handler   *)
(* take them apart, and back.  A byte string is a sequence of words of     *)
(* four bytes, so that every length in the code is a fourth of what it is  *)
(* there: an id has four words, a key, a token and a hash have eight, the  *)
(* client's length field two and the server's frame header one.  A word    *)
(* counts to Base.  Version, type and the first two bytes of the message   *)
(* id, which are not a whole word, are taken for one, so that a packet's   *)
(* header has five.  Base is more than any length, as 2^32 is.             *)
(*                                                                         *)
(* TCP keeps the order of the bytes and not the borders between writes.    *)
(* The server reads frames ({packet, 4}), the client takes what one Read   *)
(* gives it for a packet.  Time-outs are in module TcpClient.              *)
(***************************************************************************)
EXTENDS Integers, SequencesExt

CONSTANTS MaxRequests,   \* bound: requests of this client's
          MaxPackets,    \* bound: these and the messages that a peer sends this client
          MaxCuts        \* bound: Reads that end inside a frame

ASSUME WireAssumption == {MaxRequests, MaxPackets, MaxCuts} \subseteq Nat

VARIABLES
  auth,        \* authID and authToken are set
  toServer, toClient,  \* the two directions of the connection, in words
  asked,       \* what the client has sent, by number
  understood,  \* what the server has made of it
  letters,     \* messages of the peer's, as the peer made them
  sent,        \* the packets the server has sent, with the messages in each
  waiting,     \* pendingResponses
  got,         \* the packets the client has taken to be for it
  read,        \* the messages it has read, with how they came
  cuts,        \* Reads that ended inside a frame
  whole,       \* each Read of the client's so far has given it exactly one frame
  crashed      \* a slice of the client's was out of range

vars == <<auth, toServer, toClient, asked, understood, letters, sent, waiting, got, read,
          cuts, whole, crashed>>

(* MessageType, packet_to_int and packet_bin_to_atom.                      *)
Error == 1
ReqLogin == 3
ReqSignup == 4
ReqLogout == 5
ReqKey == 6
SendMessage == 7
RecvMessage == 8
ReqMessages == 9
ReqPubKey == 10

Base == 64
IdLen == 4
KeyLen == 8
TokenLen == 8
HashLen == 8
LengthLen == 2
HeaderLen == 1 + IdLen

Block(x, n) == [i \in 1..n |-> x]
Me == Block(201, IdLen)
Peer == Block(202, IdLen)
MessageID(n) == Block(300 + n, IdLen)
Token == Block(500, TokenLen)

(* IntToBytes and int_to_bytes, BytesToInt and bytes_to_int.               *)
IntToBytes(i) == <<i \div Base, i % Base>>
BytesToInt(b) == FoldLeft(LAMBDA i, w : i * Base + w, 0, b)

Before(b, n) == SubSeq(b, 1, n)
After(b, n) == SubSeq(b, n + 1, Len(b))

-----------------------------------------------------------------------------
(* Messages.                                                               *)

(* The k-th message of the peer's, after Encrypt.                          *)
Letter(k) == [sender |-> Peer, key |-> Block(600 + k, KeyLen), index |-> Base + k,
              text |-> <<700 + k>>, hash |-> Block(800 + k, HashLen)]

(* Message.Payload                                                         *)
MessagePayload(m) == m.key \o IntToBytes(m.index) \o m.text \o m.hash

(* ParseMessageData; shorter data make a slice panic.                      *)
MinMessage == IdLen + KeyLen + LengthLen + HashLen
ParseMessageData(d) ==
  [sender |-> Before(d, IdLen),
   key    |-> SubSeq(d, IdLen + 1, IdLen + KeyLen),
   index  |-> BytesToInt(SubSeq(d, IdLen + KeyLen + 1, IdLen + KeyLen + LengthLen)),
   text   |-> SubSeq(d, IdLen + KeyLen + LengthLen + 1, Len(d) - HashLen),
   hash   |-> After(d, Len(d) - HashLen)]

(* Mutant: a message whose end is not there is taken as far as it goes.    *)
ParseMessagesData_Short(data) ==
  LET Parse[d \in Seq(Nat)] ==
        IF Len(d) < LengthLen THEN [ok |-> d = <<>>, messages |-> <<>>]
        ELSE LET n == BytesToInt(Before(d, LengthLen))
                 rest == After(d, LengthLen)
                 more == Parse[After(rest, n)] IN
             IF Len(rest) < MinMessage THEN [ok |-> TRUE, messages |-> <<>>]
             ELSE [more EXCEPT !.messages = <<ParseMessageData(IF Len(rest) < n THEN rest ELSE Before(rest, n))>> \o @]
  IN Parse[data]

(* ParseMessagesData: every message comes with its length.                 *)
ParseMessagesData(data) ==
  LET Parse[d \in Seq(Nat)] ==
        IF d = <<>> THEN [ok |-> TRUE, messages |-> <<>>]
        ELSE LET n == BytesToInt(Before(d, LengthLen))
                 rest == After(d, LengthLen)
                 more == Parse[After(rest, n)] IN
             IF Len(d) < LengthLen \/ Len(rest) < n THEN [ok |-> FALSE, messages |-> <<>>]
             ELSE [more EXCEPT !.messages = <<ParseMessageData(Before(rest, n))>> \o @]
  IN Parse[data]

(* messages_bytes, of the handling of req_messages.                        *)
MessagesBytes(ms) ==
  FoldLeft(LAMBDA acc, m : acc \o IntToBytes(Len(MessagePayload(m)) + IdLen) \o m.sender \o MessagePayload(m), <<>>, ms)

-----------------------------------------------------------------------------
(* Requests.                                                               *)

(* ReceiveMessagePayload.payload; a contact or a time that is not given.   *)
NoContact == <<>>
FetchPayload(contact, since) ==
  IF contact = NoContact /\ since = 0 THEN <<>> ELSE contact \o IntToBytes(since)

(* What the server makes of it.                                            *)
FetchContact(data) == IF Len(data) > IdLen THEN Before(data, IdLen) ELSE NoContact
FetchSince(data) == BytesToInt(IF Len(data) > IdLen THEN After(data, IdLen) ELSE data)

(* The requests the client makes.  The proofs of passwords are sealed.     *)
Sealed == Block(900, 9)
Requests ==
  {[type |-> ReqKey, data |-> Me], [type |-> ReqLogin, data |-> Me \o Sealed],
   [type |-> ReqSignup, data |-> Me \o Block(400, KeyLen) \o Sealed], [type |-> ReqLogout, data |-> <<>>],
   [type |-> ReqPubKey, data |-> Peer], [type |-> SendMessage, data |-> Peer \o MessagePayload(Letter(9))]}
  \cup {[type |-> ReqMessages, data |-> FetchPayload(c, t)] : c \in {NoContact, Peer}, t \in {0, Base + 1}}

NeedsCredentials(type) == type \notin {ReqKey, ReqLogin, ReqSignup}

(* Mutant: the credentials are left out.                                   *)
Payload_Bare(type, id, data) ==
  LET message == <<type>> \o id \o data IN IntToBytes(Len(message)) \o message

(* Packet.payload                                                          *)
Payload(type, id, data) ==
  LET message == <<type>> \o id \o (IF NeedsCredentials(type) THEN Me \o Token ELSE <<>>) \o data IN
  IntToBytes(Len(message)) \o message

(* get_packet_response_type                                                *)
ResponseType(type) ==
  CASE type = ReqKey -> "plain"
    [] type \in {ReqLogin, ReqSignup} -> "no_auth"
    [] OTHER -> "with_auth"

(* parse_packet and parse_packet_data; the sender of a plain packet is not *)
(* named.                                                                  *)
Parsed(packet) ==
  LET type == packet[1]
      id == SubSeq(packet, 2, HeaderLen)
      data == After(packet, HeaderLen)
      kind == ResponseType(type) IN
  [type |-> type, id |-> id,
   who  |-> IF kind = "plain" THEN <<>> ELSE Before(data, IdLen),
   token |-> IF kind = "with_auth" THEN SubSeq(data, IdLen + 1, IdLen + TokenLen) ELSE <<>>,
   data |-> CASE kind = "plain" -> data
              [] kind = "no_auth" -> After(data, IdLen)
              [] kind = "with_auth" -> After(data, IdLen + TokenLen)]

(* The same request, as the client means it.                               *)
Meant(n, r) ==
  LET kind == ResponseType(r.type) IN
  [type |-> r.type, id |-> MessageID(n),
   who |-> IF kind = "plain" THEN <<>> ELSE Me,
   token |-> IF kind = "with_auth" THEN Token ELSE <<>>,
   data |-> IF kind = "no_auth" THEN After(r.data, IdLen) ELSE r.data]

Init ==
  /\ auth \in BOOLEAN
  /\ toServer = <<>> /\ toClient = <<>> /\ asked = <<>> /\ understood = <<>>
  /\ letters = 0 /\ sent = <<>> /\ waiting = {} /\ got = <<>> /\ read = <<>>
  /\ cuts = 0 /\ whole = TRUE /\ crashed = FALSE

(* SendReceive: createPacket, payload and Write.                           *)
ClientSends(r) ==
  /\ ~crashed /\ Len(asked) < MaxRequests /\ Len(asked) + letters < MaxPackets
  /\ NeedsCredentials(r.type) => auth
  /\ LET n == Len(asked) + 1 IN
     /\ asked' = Append(asked, Meant(n, r))
     /\ waiting' = waiting \cup {MessageID(n)}
     /\ toServer' = toServer \o Payload(r.type, MessageID(n), r.data)
  /\ UNCHANGED <<auth, toClient, understood, letters, sent, got, read, cuts, whole, crashed>>

-----------------------------------------------------------------------------
(* The server.                                                             *)

(* create_packet and the frame that {packet, 4} puts around it.            *)
Frame(type, id, data) == <<HeaderLen + Len(data), type>> \o id \o data

SendData(type, id, data, ms) ==
  /\ toClient' = toClient \o Frame(type, id, data)
  /\ sent' = Append(sent, [type |-> type, id |-> id, data |-> data, letters |-> ms])

(* The messages of the peer's that a fetch is for; those this client has   *)
(* sent itself are left out.                                               *)
Stored(contact, since) ==
  SelectSeq([k \in 1..letters |-> Letter(k)], LAMBDA m : contact \in {NoContact, Peer} /\ m.index > since)

(* What the handling of each type sends, or the error when it fails.       *)
Answer(p) ==
  \/ p.type = ReqMessages
     /\ LET ms == Stored(FetchContact(p.data), FetchSince(p.data)) IN
        SendData(ReqMessages, p.id, MessagesBytes(ms), ms)
  \/ p.type \in {ReqLogin, ReqSignup} /\ SendData(p.type, p.id, Token, <<>>)
  \/ p.type \in {ReqKey, ReqPubKey} /\ SendData(p.type, p.id, Block(400, KeyLen), <<>>)
  \/ p.type = SendMessage /\ SendData(p.type, p.id, Block(950, 9), <<>>)
  \/ p.type = ReqLogout /\ SendData(p.type, p.id, <<0>>, <<>>)
  \/ SendData(Error, p.id, <<960, 960, 960>>, <<>>)

(* handle_data, of one frame.  The upper half of the client's length is a  *)
(* frame of its own, an empty one, which is an invalid packet.             *)
ServerReads ==
  /\ toServer # <<>> /\ Len(toServer) > toServer[1]
  /\ LET packet == SubSeq(toServer, 2, 1 + toServer[1]) IN
     /\ toServer' = After(toServer, 1 + toServer[1])
     /\ IF Len(packet) < HeaderLen + 2
        THEN UNCHANGED <<understood, toClient, sent>>
        ELSE understood' = Append(understood, Parsed(packet)) /\ Answer(Parsed(packet))
  /\ UNCHANGED <<auth, asked, letters, waiting, got, read, cuts, whole, crashed>>

(* A message of the peer's is stored and pushed.                           *)
ServerPushes ==
  /\ Len(asked) + letters < MaxPackets
  /\ letters' = letters + 1
  /\ LET m == Letter(letters') IN
     SendData(RecvMessage, MessageID(50 + letters'), m.sender \o MessagePayload(m), <<m>>)
  /\ UNCHANGED <<auth, toServer, asked, understood, waiting, got, read, cuts, whole, crashed>>

-----------------------------------------------------------------------------
(* The client's listener.                                                  *)

(* Mutant: a packet without data is not one.                               *)
ParsePacket_NotEmpty(chunk) ==
  IF Len(chunk) <= 1 + HeaderLen THEN [type |-> -1, id |-> <<>>, data |-> <<>>]
  ELSE [type |-> chunk[2], id |-> SubSeq(chunk, 3, 1 + HeaderLen), data |-> After(chunk, 1 + HeaderLen)]

(* parsePacket; type -1 for its error.                                     *)
ParsePacket(chunk) ==
  IF Len(chunk) < 1 + HeaderLen THEN [type |-> -1, id |-> <<>>, data |-> <<>>]
  ELSE [type |-> chunk[2], id |-> SubSeq(chunk, 3, 1 + HeaderLen), data |-> After(chunk, 1 + HeaderLen)]

(* What the caller of SendReceive, or the handler, does with a packet.     *)
Via(how, ms) == [i \in 1..Len(ms) |-> [via |-> how, letter |-> ms[i]]]

Use(p) ==
  \/ /\ p.type = ReqMessages
     /\ LET parsed == ParseMessagesData(p.data) IN
        read' = IF parsed.ok THEN read \o Via("fetch", parsed.messages) ELSE read
     /\ UNCHANGED <<auth, crashed>>
  \/ /\ p.type = RecvMessage /\ Len(p.data) >= MinMessage
     /\ read' = read \o Via("push", <<ParseMessageData(p.data)>>)
     /\ UNCHANGED <<auth, crashed>>
  \/ /\ p.type = RecvMessage /\ Len(p.data) < MinMessage
     /\ crashed' = TRUE /\ UNCHANGED <<auth, read>>
  \/ /\ p.type \in {ReqLogin, ReqSignup}
     /\ auth' = (auth \/ Len(p.data) = TokenLen)
     /\ UNCHANGED <<read, crashed>>
  \/ /\ p.type \notin {ReqMessages, RecvMessage, ReqLogin, ReqSignup}
     /\ UNCHANGED <<auth, read, crashed>>

(* startListener: a Read of n words, a frame, all that has arrived or part *)
(* of it.  What is not for a pending request and has no handler is         *)
(* dropped.                                                                *)
ClientReads(n) ==
  /\ ~crashed
  /\ \/ n \in {1 + toClient[1], Len(toClient)} /\ UNCHANGED cuts
     \/ cuts < MaxCuts /\ cuts' = cuts + 1
  /\ toClient' = After(toClient, n)
  /\ whole' = (whole /\ n = 1 + toClient[1])
  /\ LET p == ParsePacket(Before(toClient, n)) IN
     IF p.id \in waiting \/ p.type = RecvMessage
     THEN got' = Append(got, p) /\ waiting' = waiting \ {p.id} /\ Use(p)
     ELSE UNCHANGED <<auth, waiting, got, read, crashed>>
  /\ UNCHANGED <<toServer, asked, understood, letters, sent>>

Next ==
  \/ \E r \in Requests : ClientSends(r)
  \/ ServerReads \/ ServerPushes
  \/ \E n \in 1..Len(toClient) : ClientReads(n)

Spec == Init /\ [][Next]_vars

-----------------------------------------------------------------------------
(* Properties.                                                             *)

(* The server takes the client's requests for what they are, in the order  *)
(* they were sent: with the two layouts of the length, with the kinds that *)
(* carry credentials and those that do not, and with the forms of a fetch. *)
RequestsAreUnderstood ==
  /\ understood = Before(asked, Len(understood))
  /\ toServer = <<>> => Len(understood) = Len(asked)
  /\ \A i \in 1..Len(understood) :
       LET d == understood[i].data IN
       understood[i].type = ReqMessages => d = FetchPayload(FetchContact(d), FetchSince(d))

(* While every Read gives one frame, each packet of the server's is taken  *)
(* as it was sent, by the request it answers or by the handler, the empty  *)
(* answer to a fetch included; and the messages the client reads, fetched  *)
(* or pushed, are those the server sent, word for word and in order.       *)
PacketsArrive ==
  LET packets == [i \in 1..Len(sent) |-> [type |-> sent[i].type, id |-> sent[i].id, data |-> sent[i].data]]
      letter == FlattenSeq([i \in 1..Len(sent) |-> sent[i].letters])
      taken == [i \in 1..Len(read) |-> read[i].letter] IN
  whole =>
    /\ got = Before(packets, Len(got)) /\ taken = Before(letter, Len(taken))
    /\ toClient = <<>> => Len(got) = Len(sent) /\ Len(taken) = Len(letter)

(* However the bytes come, a fetched message that is read is one of the    *)
(* peer's: an answer that is cut off or has the next packet at its end     *)
(* gives fewer messages and never a wrong one.                             *)
FetchedAreGenuine ==
  \A i \in 1..Len(read) : read[i].via = "fetch" => \E k \in 1..letters : read[i].letter = Letter(k)
=============================================================================
