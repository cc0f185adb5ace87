----------------------------- MODULE SharedRatchet -----------------------------
(***************************************************************************)
(* One client's ratchet for a contact as its goroutines really use it:     *)
(* without a lock.  The main goroutine (the loading page's, then the       *)
(* user interface's) logs in, handles the fetched messages and sends; the  *)
(* listener's handles the messages pushed meanwhile.  Encrypt and Decrypt  *)
(* are split where they touch the shared DHRatchet and MessageRatchet      *)
(* between two computations, the saving at its statements.  The contact's  *)
(* own side and the server are the atomic ones of modules Ratchet and      *)
(* Conversation.                                                           *)
(*                                                                         *)
(* The users take turns, as in Conversation; nothing else is asked of the  *)
(* surroundings.  The goroutines interleave as they like, the client is    *)
(* stopped and started again at any statement, answers and writes of the   *)
(* database fail.  What may do harm is noted in `mishaps', and a property  *)
(* names the mishaps it does not outlive.                                  *)
(***************************************************************************)
EXTENDS Ratchet, Integers, SequencesExt

CONSTANTS MaxSends,     \* bound: messages the client sends
          MaxPeerSends, \* bound: messages the contact sends
          MaxRestarts   \* bound: times the client is started again

ASSUME SendsAssumption == {MaxSends, MaxPeerSends, MaxRestarts} \subseteq Nat

Threads == {"main", "listener"}

VARIABLES
  dh,        \* the client's DHRatchet; cur points into obj
  obj,       \* the MessageRatchets it has had: the heap
  pc,        \* where each goroutine is
  local,     \* its local variables
  phase,     \* "offline", "online" (logged in), "asked" (the server has answered), "fetched", "chat"
  todo,      \* fetched messages the main goroutine has not handled
  pushed,    \* pushed messages on the way to the listener
  history,   \* rows of the messages table
  saved,     \* the row of the contacts table
  box,       \* messages the server has stored for the client
  read,      \* those the client has decrypted
  acked,     \* messages the client sent and got acknowledged
  sends,     \* messages it has encrypted
  outbox,    \* messages the server has stored for the contact
  peer,      \* the contact's ratchet, sends, messages read, and keys made
  stuck,     \* whose latest message did not reach the server
  restarts,
  mishaps    \* auxiliary: what has happened of the kinds below

(* What may do harm.  "met": both goroutines are amid their work with the  *)
(* ratchet.  Of a start, "torn": its row was written amid the other        *)
(* goroutine's work; "behind": the server got a message after the row was  *)
(* made; "unrecorded": the row's ratchet is past a message the history     *)
(* lacks, or an acknowledged one is not there.  "unfetched": a login that  *)
(* goes on without its messages.  "unwritten": a message the history did   *)
(* not take.                                                               *)
Kinds == {"met", "torn", "behind", "unrecorded", "unfetched", "unwritten"}

memory == <<dh, obj>>
netVars == <<phase, todo, pushed, box, outbox, peer, stuck, restarts>>
dbVars == <<history, saved>>
vars == <<memory, pc, local, netVars, dbVars, read, acked, sends, mishaps>>

Busy(g) == pc[g] # "idle"
Idle == \A g \in Threads : ~Busy(g)

(* Where a goroutine is between two statements that read or write the      *)
(* ratchet and belong together.                                            *)
Touching == {"turn", "check", "skip", "skipping", "next", "advance", "encrypt", "cycle", "seal"}

Key(who, n) == <<who, n>>
NoMessage == [name |-> Key("none", 0), pub |-> Key("none", 0), index |-> 0, key |-> <<>>]
NoWork == [msg |-> NoMessage, mr |-> 0, pos |-> 0, i |-> 0, root |-> <<>>, foreign |-> NoMessage.pub,
           row |-> <<>>]

NewObject(root, foreign) ==
  [foreign |-> foreign, root |-> root, chain |-> 0, last |-> -1, skipped |-> <<>>]

(* What Marshal writes: the ratchet with everything it points to.          *)
Snapshot == [dh EXCEPT !.cur = obj[dh.cur],
                       !.prev = [i \in 1..Len(dh.prev) |-> [copy |-> dh.prev[i].copy,
                                                            skipped |-> obj[dh.prev[i].id].skipped]]]

(* A row of the contacts table.  Besides what is written there: whether no *)
(* other goroutine was amid a change of the ratchet, how many messages of  *)
(* the client's the server had by then, and which messages were decrypted. *)
RowFor(g) == [ratchet |-> Snapshot, whole |-> \A h \in Threads \ {g} : pc[h] \notin Touching,
              posted |-> Len(outbox), read |-> read]

Init ==
  LET first == <<Secret(Key("us", 0), Key("peer", 0))>> IN
  /\ dh = [keyPair |-> Key("us", 0), root |-> first, cur |-> 1, prev |-> <<>>, index |-> 0,
           state |-> "Receiving"]
  /\ obj = <<NewObject(first, Key("peer", 0))>>
  /\ pc = [g \in Threads |-> "idle"]
  /\ local = [g \in Threads |-> NoWork]
  /\ phase = "offline" /\ todo = <<>> /\ pushed = <<>>
  /\ box = <<>> /\ read = {} /\ acked = {} /\ sends = 0
  /\ outbox = <<>>
  /\ history = {} /\ saved = RowFor("main")
  /\ peer = [ratchet |-> NewDHRatchet(Key("peer", 0), Key("us", 0), "Sending"),
             sends |-> 0, made |-> 0, seen |-> 0, read |-> {}]
  /\ stuck = {} /\ restarts = 0 /\ mishaps = {}

Go(g, place, l) == pc' = [pc EXCEPT ![g] = place] /\ local' = [local EXCEPT ![g] = l]
Note(kinds) == mishaps' = mishaps \cup kinds

Set(g, place, l) ==
  /\ Go(g, place, l)
  /\ Note({k \in {"met"} : place \in Touching /\ \E h \in Threads \ {g} : pc[h] \in Touching})
Finish(g) == Set(g, "idle", NoWork)

-----------------------------------------------------------------------------
(* handleIncomingMessage: Decrypt.                                         *)

Accept(g, m) == Set(g, "match", [NoWork EXCEPT !.msg = m])

(* The listener reads the next pushed packet.                              *)
ReadPush ==
  /\ ~Busy("listener") /\ pushed # <<>>
  /\ Accept("listener", Head(pushed))
  /\ pushed' = Tail(pushed)
  /\ UNCHANGED <<memory, phase, todo, box, outbox, peer, stuck, restarts, dbVars, read, acked, sends>>

(* RequestMessages takes the next of the fetched messages.                 *)
TakeFetched ==
  /\ phase = "fetched" /\ ~Busy("main") /\ todo # <<>>
  /\ Accept("main", Head(todo))
  /\ todo' = Tail(todo)
  /\ UNCHANGED <<memory, phase, pushed, box, outbox, peer, stuck, restarts, dbVars, read, acked, sends>>

Kept(pub) == {i \in 1..Len(dh.prev) : dh.prev[i].copy.foreign = pub}

(* RKCycle up to the derivation: the current ratchet is put aside as a     *)
(* copy that shares its map of skipped keys, the new root key computed.    *)
StartTurn(g, d, foreign) ==
  /\ dh' = [d EXCEPT !.prev = Remember(@, [id |-> d.cur, copy |-> [obj[d.cur] EXCEPT !.skipped = <<>>]])]
  /\ Set(g, "turn", [local[g] EXCEPT !.root = Append(d.root, Secret(d.keyPair, foreign)), !.foreign = foreign])

(* The current ratchet, or none that is kept: then a turn.                 *)
Match(g) ==
  LET m == local[g].msg IN
  /\ pc[g] = "match"
  /\ \/ /\ obj[dh.cur].foreign = m.pub
        /\ Set(g, "check", [local[g] EXCEPT !.mr = dh.cur])
        /\ UNCHANGED dh
     \/ /\ obj[dh.cur].foreign # m.pub /\ Kept(m.pub) = {}
        /\ StartTurn(g, dh, m.pub)
  /\ UNCHANGED <<obj, netVars, dbVars, read, acked, sends>>

(* A previous ratchet is worked on as a local copy; only its map of        *)
(* skipped keys is shared.                                                 *)
MatchPrevious(g) ==
  LET m == local[g].msg
      p == dh.prev[Oldest(Kept(m.pub))]
      mr == [foreign |-> p.copy.foreign, root |-> p.copy.root, next |-> p.copy.last + 1,
             skipped |-> DOMAIN obj[p.id].skipped]
      d == DecryptChain(mr, m.index, m.key)
      old == obj[p.id].skipped IN
  /\ pc[g] = "match" /\ obj[dh.cur].foreign # m.pub /\ Kept(m.pub) # {}
  /\ obj' = [obj EXCEPT ![p.id].skipped =
               [i \in d.mr.skipped |-> IF i \in DOMAIN old THEN old[i] ELSE p.copy.chain + i - (p.copy.last + 1)]]
  /\ \/ d.result = "ok" /\ read' = read \cup {m.name} /\ Set(g, "record", local[g])
     \/ d.result # "ok" /\ Finish(g) /\ UNCHANGED read
  /\ UNCHANGED <<dh, netVars, dbVars, acked, sends>>

(* RKCycle after the derivation.                                           *)
Turn2(g) ==
  LET l == local[g]
      handling == l.msg # NoMessage IN
  /\ pc[g] = "turn"
  /\ obj' = Append(obj, NewObject(l.root, l.foreign))
  /\ dh' = [dh EXCEPT !.root = l.root, !.cur = Len(obj) + 1, !.index = @ + 1,
                      !.state = IF handling THEN "Receiving" ELSE @]
  /\ Set(g, IF handling THEN "check" ELSE "encrypt", [l EXCEPT !.mr = Len(obj) + 1])
  /\ UNCHANGED <<netVars, dbVars, read, acked, sends>>

Opened(g, mr, pos) ==
  LET m == local[g].msg IN
  IF m.key = <<mr.root, pos>>
  THEN read' = read \cup {m.name} /\ Set(g, "record", local[g])
  ELSE Finish(g) /\ UNCHANGED read

(* MessageRatchet.Decrypt: a skipped key is used and removed.              *)
UseSkipped(g) ==
  LET l == local[g]
      mr == obj[l.mr] IN
  /\ pc[g] = "check" /\ l.msg.index \in DOMAIN mr.skipped
  /\ obj' = [obj EXCEPT ![l.mr].skipped = [i \in DOMAIN @ \ {l.msg.index} |-> @[i]]]
  /\ Opened(g, mr, mr.skipped[l.msg.index])
  /\ UNCHANGED <<dh, netVars, dbVars, acked, sends>>

(* Mutant: the chain does not move over the skipped messages.              *)
Check_NoSkip(g) ==
  /\ pc[g] = "check" /\ local[g].msg.index \notin DOMAIN obj[local[g].mr].skipped
  /\ Set(g, "next", local[g])
  /\ UNCHANGED <<memory, netVars, dbVars, read, acked, sends>>

(* Otherwise keys in between are put aside first, unless there are too     *)
(* many.                                                                   *)
Check(g) ==
  LET l == local[g]
      mr == obj[l.mr] IN
  /\ pc[g] = "check" /\ l.msg.index \notin DOMAIN mr.skipped
  /\ \/ l.msg.index <= mr.last + 1 /\ Set(g, "next", l)
     \/ /\ l.msg.index > mr.last + 1 /\ l.msg.index - (mr.last + 1) <= MaxSkip
        /\ Set(g, "skip", [l EXCEPT !.i = mr.last + 1])
     \/ l.msg.index - (mr.last + 1) > MaxSkip /\ Finish(g)
  /\ UNCHANGED <<memory, netVars, dbVars, read, acked, sends>>

(* CKCycle for a skipped message: the chain key is read, then replaced.    *)
SkipRead(g) ==
  /\ pc[g] = "skip"
  /\ Set(g, "skipping", [local[g] EXCEPT !.pos = obj[local[g].mr].chain])
  /\ UNCHANGED <<memory, netVars, dbVars, read, acked, sends>>

SkipWrite(g) ==
  LET l == local[g]
      old == obj[l.mr].skipped IN
  /\ pc[g] = "skipping"
  /\ obj' = [obj EXCEPT ![l.mr].chain = l.pos + 1,
                        ![l.mr].skipped = [i \in DOMAIN old \cup {l.i} |-> IF i = l.i THEN l.pos ELSE old[i]]]
  /\ Set(g, IF l.i + 1 < l.msg.index THEN "skip" ELSE "next", [l EXCEPT !.i = @ + 1])
  /\ UNCHANGED <<dh, netVars, dbVars, read, acked, sends>>

(* The index is compared with PreviousIndex once more, then CKCycle.       *)
NextKey(g) ==
  LET l == local[g] IN
  /\ pc[g] = "next"
  /\ \/ l.msg.index <= obj[l.mr].last /\ Finish(g)
     \/ l.msg.index > obj[l.mr].last /\ Set(g, "advance", [l EXCEPT !.pos = obj[l.mr].chain])
  /\ UNCHANGED <<memory, netVars, dbVars, read, acked, sends>>

Advance(g) ==
  LET l == local[g] IN
  /\ pc[g] = "advance"
  /\ obj' = [obj EXCEPT ![l.mr].chain = l.pos + 1, ![l.mr].last = l.msg.index]
  /\ Opened(g, obj[l.mr], l.pos)
  /\ UNCHANGED <<dh, netVars, dbVars, acked, sends>>

-----------------------------------------------------------------------------
(* SendMessage: Encrypt, SendReceive.                                      *)

Quiet == Idle /\ todo = <<>> /\ pushed = <<>> /\ phase = "chat"
Names(s) == {s[i].name : i \in 1..Len(s)}
InHistory == {row.name : row \in history}

(* Mutant: the ratchet turns with the key pair it has.                     *)
BeginSend_SameKey ==
  /\ phase = "chat" /\ ~Busy("main") /\ sends < MaxSends
  /\ Names(box) \subseteq read /\ "peer" \notin stuck
  /\ sends' = sends + 1
  /\ \/ /\ dh.state = "Receiving"
        /\ StartTurn("main", [dh EXCEPT !.state = "Sending"], obj[dh.cur].foreign)
     \/ /\ dh.state = "Sending"
        /\ Set("main", "encrypt", [NoWork EXCEPT !.mr = dh.cur])
        /\ UNCHANGED dh
  /\ UNCHANGED <<obj, netVars, dbVars, read, acked>>

(* The user writes when all there is has been decrypted and the contact is *)
(* not about to write again, as in Conversation.  After receiving, the     *)
(* ratchet turns with a fresh key pair.                                    *)
BeginSend ==
  LET fresh == Key("us", sends + 1) IN
  /\ phase = "chat" /\ ~Busy("main") /\ sends < MaxSends
  /\ Names(box) \subseteq read /\ "peer" \notin stuck
  /\ sends' = sends + 1
  /\ \/ /\ dh.state = "Receiving"
        /\ StartTurn("main", [dh EXCEPT !.state = "Sending", !.keyPair = fresh], obj[dh.cur].foreign)
     \/ /\ dh.state = "Sending"
        /\ Set("main", "encrypt", [NoWork EXCEPT !.mr = dh.cur])
        /\ UNCHANGED dh
  /\ UNCHANGED <<obj, netVars, dbVars, read, acked>>

(* MessageRatchet.Encrypt: CKCycle, then the index, set at the end.        *)
EncryptRead ==
  /\ pc["main"] = "encrypt"
  /\ Set("main", "cycle", [local["main"] EXCEPT !.mr = dh.cur, !.pos = obj[dh.cur].chain])
  /\ UNCHANGED <<memory, netVars, dbVars, read, acked, sends>>

(* Mutant: the chain key is not replaced.                                  *)
EncryptCycle_Still ==
  LET l == local["main"] IN
  /\ pc["main"] = "cycle"
  /\ Set("main", "seal", [l EXCEPT !.i = obj[l.mr].last + 1])
  /\ UNCHANGED <<memory, netVars, dbVars, read, acked, sends>>

EncryptCycle ==
  LET l == local["main"] IN
  /\ pc["main"] = "cycle"
  /\ obj' = [obj EXCEPT ![l.mr].chain = l.pos + 1]
  /\ Set("main", "seal", [l EXCEPT !.i = obj[l.mr].last + 1])
  /\ UNCHANGED <<dh, netVars, dbVars, read, acked, sends>>

(* Mutant: the index of the last message is not moved on.                  *)
EncryptSeal_NoIndex ==
  LET l == local["main"] IN
  /\ pc["main"] = "seal"
  /\ Set("main", "post", [l EXCEPT !.msg = [name |-> <<"us", sends>>, pub |-> dh.keyPair, index |-> l.i,
                                            key |-> <<obj[l.mr].root, l.pos>>]])
  /\ UNCHANGED <<memory, netVars, dbVars, read, acked, sends>>

EncryptSeal ==
  LET l == local["main"] IN
  /\ pc["main"] = "seal"
  /\ obj' = [obj EXCEPT ![l.mr].last = l.i]
  /\ Set("main", "post", [l EXCEPT !.msg = [name |-> <<"us", sends>>, pub |-> dh.keyPair, index |-> l.i,
                                            key |-> <<obj[l.mr].root, l.pos>>]])
  /\ UNCHANGED <<dh, netVars, dbVars, read, acked, sends>>

(* The server stores the message and its answer arrives later, or the      *)
(* request is lost.                                                        *)
Post ==
  LET l == local["main"] IN
  /\ pc["main"] = "post"
  /\ \/ /\ outbox' = Append(outbox, l.msg) /\ Set("main", "await", l) /\ stuck' = stuck \ {"us"}
     \/ /\ Finish("main") /\ stuck' = stuck \cup {"us"} /\ UNCHANGED outbox
  /\ UNCHANGED <<memory, phase, todo, pushed, box, peer, restarts, dbVars, read, acked, sends>>

(* The listener hands the answer over, when no handler keeps it.           *)
Answered ==
  /\ pc["main"] = "await" /\ ~Busy("listener")
  /\ acked' = acked \cup {local["main"].msg.name}
  /\ Set("main", "record", local["main"])
  /\ UNCHANGED <<memory, netVars, dbVars, read, sends>>

(* The answer is lost or comes too late: SendMessage returns the error.    *)
NotAnswered ==
  /\ pc["main"] = "await" /\ Finish("main")
  /\ UNCHANGED <<memory, netVars, dbVars, read, acked, sends>>

-----------------------------------------------------------------------------
(* The end of both: SaveMessage with the index the ratchet has by now,     *)
(* where a row with the same key is replaced, then UpdateContact.          *)

Row(g) == [key |-> <<local[g].msg.name[1], dh.index, local[g].msg.index>>, name |-> local[g].msg.name]


Record(g) ==
  /\ pc[g] = "record"
  /\ history' = {r \in history : r.key # Row(g).key} \cup {Row(g)}
  /\ Set(g, "marshal", local[g])
  /\ UNCHANGED <<memory, netVars, saved, read, acked, sends>>

(* The write fails: handleIncomingMessage returns the error, SendMessage   *)
(* does not look at it.                                                    *)
RecordFails(g) ==
  /\ pc[g] = "record"
  /\ IF local[g].msg.name[1] = "us" THEN Go(g, "marshal", local[g]) ELSE Go(g, "idle", NoWork)
  /\ Note({"unwritten"})
  /\ UNCHANGED <<memory, netVars, dbVars, read, acked, sends>>

Marshal(g) ==
  /\ pc[g] = "marshal"
  /\ Set(g, "exec", [local[g] EXCEPT !.row = RowFor(g)])
  /\ UNCHANGED <<memory, netVars, dbVars, read, acked, sends>>

(* The statement is carried out or fails.                                  *)
Exec(g) ==
  /\ pc[g] = "exec"
  /\ saved' \in {local[g].row, saved}
  /\ Finish(g)
  /\ UNCHANGED <<memory, netVars, history, read, acked, sends>>

-----------------------------------------------------------------------------
(* Login, and the contact.                                                 *)

(* The server counts the client as connected.                              *)
LoginAnswered ==
  /\ phase = "offline" /\ phase' = "online"
  /\ UNCHANGED <<memory, pc, local, todo, pushed, box, outbox, peer, stuck, restarts, dbVars, read, acked, sends, mishaps>>

(* It answers the request for messages with all it has stored.             *)
Fetch ==
  /\ phase = "online" /\ phase' = "asked" /\ todo' = box
  /\ UNCHANGED <<memory, pc, local, pushed, box, outbox, peer, stuck, restarts, dbVars, read, acked, sends, mishaps>>

(* The listener hands the answer over, or it is lost or late and Login goes *)
(* on without.                                                             *)
Fetched ==
  /\ phase = "asked" /\ phase' = "fetched"
  /\ \/ ~Busy("listener") /\ UNCHANGED <<todo, mishaps>>
     \/ todo' = <<>> /\ Note({k \in {"unfetched"} : todo # <<>>})
  /\ UNCHANGED <<memory, pc, local, pushed, box, outbox, peer, stuck, restarts, dbVars, read, acked, sends>>

EnterChats ==
  /\ phase = "fetched" /\ todo = <<>> /\ ~Busy("main") /\ phase' = "chat"
  /\ UNCHANGED <<memory, pc, local, todo, pushed, box, outbox, peer, stuck, restarts, dbVars, read, acked, sends, mishaps>>

(* The client is stopped wherever it is and started again: it has the      *)
(* ratchet of its database, whose copies share nothing.  The contact waits *)
(* for a message if that ratchet has turned for one the server never got.  *)
Restart ==
  LET row == saved.ratchet
      kept == row.prev IN
  /\ restarts < MaxRestarts /\ phase # "offline"
  /\ restarts' = restarts + 1
  /\ phase' = "offline" /\ pushed' = <<>> /\ todo' = <<>>
  /\ pc' = [g \in Threads |-> "idle"] /\ local' = [g \in Threads |-> NoWork]
  /\ stuck' = (stuck \ {"us"}) \cup
       {w \in {"us"} : row.state = "Sending" /\ \A i \in 1..Len(outbox) : outbox[i].pub # row.keyPair}
  /\ obj' = Append([i \in 1..Len(kept) |-> [kept[i].copy EXCEPT !.skipped = kept[i].skipped]], row.cur)
  /\ dh' = [row EXCEPT !.cur = Len(kept) + 1,
                       !.prev = [i \in 1..Len(kept) |-> [id |-> i, copy |-> kept[i].copy]]]
  /\ Note({k \in Kinds : \/ k = "torn" /\ ~saved.whole
                         \/ k = "behind" /\ saved.posted < Len(outbox)
                         \/ k = "unrecorded" /\ ~(saved.read \cup acked \subseteq InHistory)})
  /\ UNCHANGED <<box, outbox, peer, dbVars, read, acked, sends>>

Composing == \/ pc["main"] \in {"encrypt", "cycle", "seal", "post"}
             \/ pc["main"] = "turn" /\ local["main"].msg = NoMessage

(* The contact writes when it has read everything and nothing of the       *)
(* client's is on the way to the server.  A connected client is pushed the *)
(* message.                                                                *)
PeerSends ==
  LET e == Encrypt(peer.ratchet, Key("peer", peer.made + 1))
      m == [name |-> <<"peer", peer.sends + 1>>, pub |-> e.pub, index |-> e.index, key |-> e.key] IN
  /\ peer.sends < MaxPeerSends /\ peer.seen = Len(outbox)
  /\ ~Composing /\ "us" \notin stuck
  /\ peer' = [peer EXCEPT !.ratchet = e.ratchet, !.sends = @ + 1,
                          !.made = IF peer.ratchet.state = "Receiving" THEN @ + 1 ELSE @]
  /\ \/ /\ box' = Append(box, m) /\ stuck' = stuck \ {"peer"}
        /\ pushed' = IF phase = "offline" THEN pushed ELSE Append(pushed, m)
     \/ /\ stuck' = stuck \cup {"peer"} /\ UNCHANGED <<box, pushed>>
  /\ UNCHANGED <<memory, pc, local, phase, todo, outbox, restarts, dbVars, read, acked, sends, mishaps>>

PeerReads ==
  /\ peer.seen < Len(outbox)
  /\ LET m == outbox[peer.seen + 1]
         d == Decrypt(peer.ratchet, m) IN
     peer' = [peer EXCEPT !.ratchet = d.ratchet, !.seen = @ + 1,
                          !.read = IF d.result = "ok" THEN @ \cup {m.name} ELSE @]
  /\ UNCHANGED <<memory, pc, local, phase, todo, pushed, box, outbox, stuck, restarts, dbVars, read, acked, sends, mishaps>>

Next ==
  \/ ReadPush \/ TakeFetched \/ BeginSend \/ EncryptRead \/ EncryptCycle \/ EncryptSeal \/ Post \/ Answered
  \/ NotAnswered \/ LoginAnswered \/ Fetch \/ Fetched \/ EnterChats \/ Restart \/ PeerSends \/ PeerReads
  \/ \E g \in Threads :
       \/ Match(g) \/ MatchPrevious(g) \/ Turn2(g) \/ UseSkipped(g) \/ Check(g) \/ SkipRead(g) \/ SkipWrite(g)
       \/ NextKey(g) \/ Advance(g) \/ Record(g) \/ RecordFails(g) \/ Marshal(g) \/ Exec(g)

Spec == Init /\ [][Next]_vars

-----------------------------------------------------------------------------
(* Properties.                                                             *)

Spared(kinds) == kinds \cap mishaps = {}

(* Every property but StoredIsRead says nothing of what follows once the   *)
(* two goroutines have met: TLC need not look there.                       *)
Followed == Spared({"met"})

(* mratchet.go keeps the chain key and the index of the last message as    *)
(* two fields: whenever no goroutine is at work they name the same         *)
(* position of each chain, however the two worked one after the other and  *)
(* wherever the client was stopped.  They come apart only when both worked *)
(* at a time, or after a start from a row written amid the other's work.   *)
ChainFollowsIndex ==
  Spared({"met", "torn"}) /\ Idle => \A i \in 1..Len(obj) : obj[i].chain = obj[i].last + 1

(* Once the client is at rest it has decrypted every message the server    *)
(* has for it, whichever goroutine got it, in whatever order and how often *)
(* it came, and after a stop at any statement; unless the goroutines met,  *)
(* the client went on from a row that was torn or older than a message of  *)
(* its own, or a login went on without its messages.                       *)
EveryMessageIsRead ==
  Spared({"met", "torn", "behind", "unfetched"}) /\ Quiet => Names(box) \subseteq read

(* Under the same conditions every message of the client's is readable by  *)
(* the contact, also one encrypted while the listener still records or     *)
(* saves another, or after a stop between Encrypt and UpdateContact.       *)
PeerCanRead ==
  Spared({"met", "torn", "behind", "unfetched"}) => \A i \in 1..peer.seen : outbox[i].name \in peer.read


(* No two of the messages the server has were encrypted with the same key, *)
(* of one side or of both, whatever the client lost and wherever it was    *)
(* stopped; unless the goroutines met, or it was started from a row older  *)
(* than a message the server had.                                          *)
KeysAreFresh ==
  Spared({"met", "behind"}) =>
    LET all == box \o outbox IN
    \A i, j \in 1..Len(all) : all[i].key = all[j].key => i = j

(* encryption_flow.md has the receiver decrypt every message it gets from  *)
(* the server and move the chain on for the next ones, "[B] Decrypt [m]    *)
(* with [M11]" and "[B] Use [K1(n)] to generate new [K1(n+1)] and          *)
(* [M1(n+1)] keys for next messages": so every message fetched or pushed   *)
(* is read in the end.                                                     *)
StoredIsRead == Spared({"unfetched"}) /\ Quiet => Names(box) \subseteq read
=============================================================================
