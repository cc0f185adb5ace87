----------------------------- MODULE Conversation -----------------------------
(***************************************************************************)
(* Two clients that talk to each other, client/internal/client: each keeps *)
(* one ratchet for the other, sends with SendMessage, gets messages pushed *)
(* by the server while it is connected and everything the server has ever  *)
(* stored for it at each login.  The server is a box of stored messages    *)
(* per client (module Relay), the ratchets are those of module Ratchet.    *)
(*                                                                         *)
(* Two constants restrict the surroundings.  TurnTaking: a client writes   *)
(* only when it has read everything addressed to it and the other is not   *)
(* still trying to get a message out.  AcksArrive: a message the server    *)
(* stored is answered in time, and the client lives to save its ratchet.   *)
(***************************************************************************)
EXTENDS Ratchet, SequencesExt

CONSTANTS Peers,        \* the two clients
          NoContact,    \* a peer that has no ratchet for the other
          TurnTaking,   \* whether the peers wait for each other's messages
          AcksArrive,   \* whether every stored message is acknowledged and its sender saves then
          MaxSends,     \* bound: messages one peer sends
          MaxLogins     \* bound: times one peer is started again and logs in

ASSUME PeersAssumption == IsFiniteSet(Peers) /\ Cardinality(Peers) = 2
ASSUME SurroundingsAssumption == TurnTaking \in BOOLEAN /\ AcksArrive \in BOOLEAN
ASSUME BoundAssumption == MaxSends \in Nat /\ MaxLogins \in Nat

Keys == Peers \X Nat
Identity(p) == <<p, 0>>
ASSUME NoContactAssumption == NoContact \notin Ratchets(Keys)

Other(p) == CHOOSE q \in Peers : q # p

VARIABLES
  ratchet,   \* each peer's ratchet for the other, or NoContact
  saved,     \* the same, as the contacts table of its database has it
  made,      \* key pairs each peer has generated after its first
  sends,     \* messages each peer has encrypted
  stuck,     \* the peers whose latest message did not reach the server
  box,       \* messages the server has stored for each peer
  pushed,    \* how many of them it has tried to push
  read,      \* messages each peer has decrypted
  forgot,    \* those it was given again after it had forgotten their chain
  logins

vars == <<ratchet, saved, made, sends, stuck, box, pushed, read, forgot, logins>>

Fresh(p) == <<p, made[p] + 1>>

TypeOK ==
  /\ \A p \in Peers : ratchet[p] = NoContact \/
       /\ ratchet[p] \in Ratchets(Keys)
       /\ ratchet[p].index = Len(ratchet[p].cur.root) - 1
       /\ Len(ratchet[p].prev) <= PrevLimit
       /\ \A i \in ratchet[p].cur.skipped : i < ratchet[p].cur.next
  /\ \A p \in Peers : saved[p] # NoContact => ratchet[p] # NoContact
  /\ made \in [Peers -> Nat]
  /\ sends \in [Peers -> 0..MaxSends] /\ stuck \subseteq Peers
  /\ logins \in [Peers -> 0..MaxLogins]
  /\ \A p \in Peers :
       /\ pushed[p] \in 0..Len(box[p])
       /\ read[p] \subseteq {Other(p)} \X (1..MaxSends) /\ forgot[p] \subseteq read[p]

Init ==
  /\ ratchet = [p \in Peers |-> NoContact]
  /\ saved = [p \in Peers |-> NoContact]
  /\ made = [p \in Peers |-> 0]
  /\ sends = [p \in Peers |-> 0]
  /\ stuck = {}
  /\ box = [p \in Peers |-> <<>>]
  /\ pushed = [p \in Peers |-> 0]
  /\ read = [p \in Peers |-> {}]
  /\ forgot = [p \in Peers |-> {}]
  /\ logins = [p \in Peers |-> 0]

StoredFor(p) == {box[p][i].name : i \in 1..Len(box[p])}
CaughtUp(p) == StoredFor(p) \subseteq read[p]
MayWrite(p) == ratchet[p] # NoContact /\ (TurnTaking => CaughtUp(p) /\ Other(p) \notin stuck)

(* The message p would write next, and its ratchet after that.             *)
Draft(p) ==
  LET e == Encrypt(ratchet[p], Fresh(p)) IN
  [ratchet |-> e.ratchet,
   message |-> [name |-> <<p, sends[p] + 1>>, pub |-> e.pub, index |-> e.index, key |-> e.key]]

-----------------------------------------------------------------------------
(* AddContact with the public key the server has for the other.            *)
AddContact(p) ==
  /\ ratchet[p] = NoContact
  /\ ratchet' = [ratchet EXCEPT ![p] = NewDHRatchet(Identity(p), Identity(Other(p)), "Sending")]
  /\ saved' = [saved EXCEPT ![p] = ratchet'[p]]
  /\ UNCHANGED <<made, sends, stuck, box, pushed, read, forgot, logins>>

(* Mutant: the ratchet is not saved after a message has been sent.         *)
SendMessage_Unsaved(p) ==
  /\ MayWrite(p) /\ sends[p] < MaxSends
  /\ ratchet' = [ratchet EXCEPT ![p] = Draft(p).ratchet]
  /\ \/ box' = [box EXCEPT ![Other(p)] = Append(@, Draft(p).message)] /\ stuck' = stuck \ {p}
     \/ UNCHANGED box /\ stuck' = stuck \cup {p}
  /\ made' = IF ratchet[p].state = "Receiving" THEN [made EXCEPT ![p] = @ + 1] ELSE made
  /\ sends' = [sends EXCEPT ![p] = @ + 1]
  /\ UNCHANGED <<saved, pushed, read, forgot, logins>>

(* SendMessage moves the ratchet before the server has the message, and    *)
(* saves it only after the server has answered.  The request or its answer *)
(* may be lost, or the client stopped before it has saved.                 *)
SendMessage(p) ==
  /\ MayWrite(p) /\ sends[p] < MaxSends
  /\ ratchet' = [ratchet EXCEPT ![p] = Draft(p).ratchet]
  /\ \/ /\ box' = [box EXCEPT ![Other(p)] = Append(@, Draft(p).message)]
        /\ stuck' = stuck \ {p}
        /\ \/ saved' = [saved EXCEPT ![p] = Draft(p).ratchet]
           \/ ~AcksArrive /\ UNCHANGED saved
     \/ stuck' = stuck \cup {p} /\ UNCHANGED <<saved, box>>
  /\ made' = IF ratchet[p].state = "Receiving" THEN [made EXCEPT ![p] = @ + 1] ELSE made
  /\ sends' = [sends EXCEPT ![p] = @ + 1]
  /\ UNCHANGED <<pushed, read, forgot, logins>>

(* The ratchet still has the chain that the message was encrypted with.    *)
Keeps(r, m) == r.cur.root = m.key[1] \/ \E i \in 1..Len(r.prev) : r.prev[i].root = m.key[1]

(* handleIncomingMessage: a new contact starts as a receiver and is saved; *)
(* what fails to decrypt is dropped, what was processed before is passed   *)
(* over, and only a message that was read saves the ratchet it moved.      *)
Handle(p, at, m) ==
  LET new == NewDHRatchet(Identity(p), Identity(Other(p)), "Receiving")
      met == IF at.ratchet = NoContact THEN [at EXCEPT !.ratchet = new, !.saved = new] ELSE at
      d == Decrypt(met.ratchet, m)
      lost == IF m.name \in at.read /\ ~ Keeps(met.ratchet, m) THEN {m.name} ELSE {} IN
  IF d.result = "ok"
  THEN [ratchet |-> d.ratchet, saved |-> d.ratchet, read |-> met.read \cup {m.name},
        forgot |-> met.forgot \cup lost]
  ELSE [met EXCEPT !.ratchet = d.ratchet, !.forgot = @ \cup lost]

At(p) == [ratchet |-> ratchet[p], saved |-> saved[p], read |-> read[p], forgot |-> forgot[p]]

Becomes(p, at) ==
  /\ ratchet' = [ratchet EXCEPT ![p] = at.ratchet]
  /\ saved' = [saved EXCEPT ![p] = at.saved]
  /\ read' = [read EXCEPT ![p] = at.read]
  /\ forgot' = [forgot EXCEPT ![p] = at.forgot]

(* The server pushes the next message to a client that is connected.       *)
ReceivePush(p) ==
  /\ pushed[p] < Len(box[p]) /\ ratchet[p] # NoContact
  /\ Becomes(p, Handle(p, At(p), box[p][pushed[p] + 1]))
  /\ pushed' = [pushed EXCEPT ![p] = @ + 1]
  /\ UNCHANGED <<made, sends, stuck, box, logins>>

(* The client is not connected, or it is and does not know the sender: the *)
(* public key it asks for from inside the handler never arrives.           *)
MissPush(p) ==
  /\ pushed[p] < Len(box[p])
  /\ pushed' = [pushed EXCEPT ![p] = @ + 1]
  /\ UNCHANGED <<ratchet, saved, made, sends, stuck, box, read, forgot, logins>>

(* Mutant: only the messages not pushed yet are asked for.                 *)
Login_Unpushed(p) ==
  /\ logins[p] < MaxLogins
  /\ Becomes(p, FoldLeft(LAMBDA at, m : Handle(p, at, m), [At(p) EXCEPT !.ratchet = saved[p]],
                         SubSeq(box[p], pushed[p] + 1, Len(box[p]))))
  /\ stuck' = stuck \ {p}
  /\ logins' = [logins EXCEPT ![p] = @ + 1]
  /\ UNCHANGED <<made, sends, box, pushed>>

(* The client is started again, LoadClientData and Login: it takes the     *)
(* ratchet from its database, asks for every message ever stored for it    *)
(* and handles them one by one in the order of the table.                  *)
Login(p) ==
  /\ logins[p] < MaxLogins
  /\ Becomes(p, FoldLeft(LAMBDA at, m : Handle(p, at, m), [At(p) EXCEPT !.ratchet = saved[p]],
                         box[p]))
  /\ stuck' = stuck \ {p}
  /\ logins' = [logins EXCEPT ![p] = @ + 1]
  /\ UNCHANGED <<made, sends, box, pushed>>

Next == \E p \in Peers :
  AddContact(p) \/ SendMessage(p) \/ ReceivePush(p) \/ MissPush(p) \/ Login(p)

Spec == Init /\ [][Next]_vars

-----------------------------------------------------------------------------
(* Properties.                                                             *)

Stored == UNION {{box[p][i] : i \in 1..Len(box[p])} : p \in Peers}

(* How far PREV_RATCHET_LIMIT and MAX_MESSAGE_SKIP carry: no client was     *)
(* given again a message whose chain it had forgotten by then, and no      *)
(* stored message is further along its chain than Decrypt would skip.      *)
WithinLimits == (\A p \in Peers : forgot[p] = {}) /\ \A m \in Stored : m.index <= MaxSkip

(* Every message a client gets to handle is decrypted at the latest then:  *)
(* by the push, or by the login that fetches it, whatever failed to reach  *)
(* the server before, was missed or is fetched again, and whatever the     *)
(* client had not saved when it was started again.  It holds until a limit *)
(* of the ratchet is passed.                                               *)
DeliveredIsRead ==
  [][WithinLimits' => \A p \in Peers :
       /\ logins'[p] > logins[p] => StoredFor(p) \subseteq read'[p]
       /\ pushed'[p] > pushed[p] /\ ratchet'[p] # ratchet[p] => box[p][pushed'[p]].name \in read'[p]]_vars

(* Whoever may write next can be read: when both have read everything, the *)
(* ratchets agree on the next message, over turns, messages that never got *)
(* out, restarts and the old messages a login runs through them once more, *)
(* until a limit of the ratchet is passed.                                 *)
Readable(p) ==
  LET m == Draft(p).message IN m.name \in Handle(Other(p), At(Other(p)), m).read

NextIsReadable ==
  \A p \in Peers :
    MayWrite(p) /\ CaughtUp(p) /\ CaughtUp(Other(p)) /\ WithinLimits
      /\ Draft(p).message.index <= MaxSkip => Readable(p)

(* The same with nothing asked of the number of chains: encryption_flow.md *)
(* lets the receiver decrypt each message with the key it was encrypted    *)
(* with, however many turns the conversation has had before a login.       *)
NextIsAlwaysReadable ==
  \A p \in Peers :
    MayWrite(p) /\ CaughtUp(p) /\ CaughtUp(Other(p)) => Readable(p)

(* No message key serves two of the messages the server has, of one sender *)
(* or of both: SendMessage advances the chain for every message, and what  *)
(* it saves is never behind what it has given away.                        *)
KeysAreFresh == \A m, n \in Stored : m.key = n.key => m.name = n.name

(* mratchet.go calls MAX_MESSAGE_SKIP the "maximum number of message keys to *)
(* store": no chain, the current one or one put aside, keeps more.  Decrypt *)
(* compares it with the gap before one message only.                       *)
SkippedAreBounded ==
  \A p \in Peers : ratchet[p] # NoContact =>
    \A mr \in {ratchet[p].cur} \cup {ratchet[p].prev[i] : i \in 1..Len(ratchet[p].prev)} :
      Cardinality(mr.skipped) <= MaxSkip
=============================================================================
