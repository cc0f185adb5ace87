---------------------------- MODULE ChatsPage_proofs ----------------------------
(***************************************************************************)
(* Proofs about module ChatsPage, for any friends and any number of        *)
(* messages: the buttons and the selection agree however the list grows,   *)
(* a text goes where it was typed and leaves the input only for a reason,  *)
(* and the history keeps every message received.                           *)
(***************************************************************************)
EXTENDS ChatsPage, FiniteSetTheorems, TLAPS

Chain == [index : Nat, next : Nat, state : {"Sending", "Receiving"}]

Typed ==
  /\ contacts \in Seq(Friends)
  /\ chain \in [Friends -> Chain] /\ far \in [Friends -> Chain]
  /\ count \in Nat
  /\ selectedIdx \in Nat
  /\ initialized \in BOOLEAN /\ chatAddOpen \in BOOLEAN
  /\ active \in Seq(BOOLEAN)
  /\ friend \in Chats

(* The buttons are those of the first contacts, at most one of them is     *)
(* active, and a chat is selected as soon as there is a button.            *)
ListInv ==
  /\ IsInjective(contacts)
  /\ Len(active) <= Len(contacts)
  /\ IF active = <<>> THEN selectedIdx = 0 /\ selectedChat = None
     ELSE selectedIdx \in 1..Len(active) /\ selectedChat = contacts[selectedIdx]
  /\ \A i \in 1..Len(active) : i # selectedIdx => active[i] = FALSE
  /\ ~initialized => active = <<>>

(* The draft is of the selected chat, or of none.                          *)
DraftInv ==
  /\ draft \subseteq {selectedChat, None}
  /\ SentWhereTyped

(* A message gets a name no earlier one has.                               *)
NamesInv ==
  /\ IsFiniteSet(WrittenTo)
  /\ \A m \in messages, k \in Nat : m.name = <<None, 0, k>> => k < count

(* The two ratchets of a conversation are at the same place unless what    *)
(* the client wrote last is lost; then the friend's may be a turn behind,  *)
(* but only when it is the client's turn.                                  *)
StepInv ==
  \A f \in Friends :
    /\ f \notin stuck => chain[f].index = far[f].index /\ chain[f].next = far[f].next
    /\ chain[f].state = "Receiving" => chain[f].index = far[f].index
    /\ chain[f].index \in {far[f].index, far[f].index + 1}

(* The ratchet goes on from c to d.                                        *)
Advances(c, d) ==
  /\ d \in Chain
  /\ \/ d.index = c.index + 1 /\ d.next > 0
     \/ d.index = c.index /\ d.next > c.next

(* A row's key is the sender's and a place the ratchet with the peer has   *)
(* passed, and the row stands for a message.                               *)
Peer(r) == IF r.from = Me THEN r.to ELSE r.from
Below(key, c) == key[2] < c.index \/ (key[2] = c.index /\ key[3] < c.next)
RowOf(r) ==
  /\ r.key[1] = r.from /\ r.key[2] \in Nat /\ r.key[3] \in Nat
  /\ Peer(r) \in Friends /\ (r.from # Me => r.to = Me)
  /\ Below(r.key, chain[Peer(r)])
  /\ \E m \in messages : m.from = r.from /\ m.to = r.to

OneWritten == \A m, n \in messages : m.from = Me /\ n.from = Me => m.to = n.to

HistoryInv ==
  /\ \A r \in rows : RowOf(r)
  /\ \A m \in messages :
       m.from # Me \/ OneWritten => \E r \in rows : r.name = m.name /\ r.from = m.from /\ r.to = m.to

-----------------------------------------------------------------------------
(* Types.                                                                  *)

LEMMA InitTyped == Init => Typed
<1> SUFFICES ASSUME Init PROVE Typed OBVIOUS
<1>1. contacts \in Seq(Friends)
  <2>1. CASE contacts = <<>> BY <2>1
  <2>2. ASSUME NEW f \in Friends, contacts = <<f>> PROVE contacts \in Seq(Friends)
    BY <2>2
  <2> QED BY <2>1, <2>2 DEF Init
<1>2. chain \in [Friends -> Chain] /\ far \in [Friends -> Chain]
  <2>1. Ratchets \subseteq Chain BY ChatsAssumption DEF Ratchets, Chain
  <2>2. NewChain \in Chain BY DEF NewChain, Chain
  <2> QED BY <2>1, <2>2 DEF Init, Loaded
<1>3. active \in Seq(BOOLEAN) BY DEF Init
<1> QED BY <1>1, <1>2, <1>3 DEF Init, Typed, Chats

(* Making the buttons anew.                                                *)
LEMMA UpdateChatsTyped ==
  ASSUME Typed, NEW list \in Seq(Friends), UpdateChats(list)
  PROVE  active' \in Seq(BOOLEAN) /\ selectedIdx' \in Nat
<1>1. active' = [i \in 1..Len(list) |-> FALSE] /\ Len(list) \in Nat BY DEF UpdateChats
<1>2. active' \in Seq(BOOLEAN) BY <1>1
<1> QED BY <1>2 DEF UpdateChats, Typed

LEMMA ChainMoves ==
  ASSUME NEW c \in Chain
  PROVE  /\ Encrypts(c) \in Chain /\ Encrypts(c).next > 0
         /\ \A t, i \in Nat : Decrypts(c, t, i) \in Chain /\ Decrypts(c, t, i).next = i + 1
BY DEF Chain, Encrypts, Decrypts

(* A button is given another state.                                        *)
LEMMA ClickTyped ==
  ASSUME NEW s \in Seq(BOOLEAN), NEW i, NEW j
  PROVE  /\ [s EXCEPT ![i] = FALSE, ![j] = TRUE] \in Seq(BOOLEAN)
         /\ Len([s EXCEPT ![i] = FALSE, ![j] = TRUE]) = Len(s)
<1> DEFINE t == [s EXCEPT ![i] = FALSE, ![j] = TRUE]
<1>1. s \in [1..Len(s) -> BOOLEAN] /\ Len(s) \in Nat OBVIOUS
<1>2. t \in [1..Len(s) -> BOOLEAN] BY <1>1
<1> HIDE DEF t
<1>3. t \in Seq(BOOLEAN) /\ Len(t) = Len(s) BY <1>1, <1>2
<1> QED BY <1>3 DEF t

(* What a friend's message does to the two ratchets.                       *)
LEMMA ReceiveMoves ==
  ASSUME Typed, NEW f \in Friends, Receive(f)
  PROVE  \E sent, c \in Chain :
           /\ far' = [far EXCEPT ![f] = sent] /\ chain' = [chain EXCEPT ![f] = c]
           /\ c = Decrypts(chain[f], sent.index, sent.next - 1) /\ c.next = sent.next
           /\ Save(f, Me, c)
           /\ \/ far[f].state = "Receiving" /\ far[f] # Unmet /\ sent.index = far[f].index + 1 /\ sent.next > 0
              \/ sent.index = far[f].index /\ sent.next > far[f].next
<1> DEFINE own == IF far[f] = Unmet THEN NewChain ELSE far[f]
<1>1. PICK skipped \in 0..1 :
        LET sent == [Encrypts(own) EXCEPT !.next = @ + skipped]
            c == Decrypts(chain[f], sent.index, sent.next - 1) IN
        /\ far' = [far EXCEPT ![f] = sent]
        /\ chain' = [chain EXCEPT ![f] = c]
        /\ Save(f, Me, c)
  BY DEF Receive
<1> DEFINE sent == [Encrypts(own) EXCEPT !.next = @ + skipped]
           c == Decrypts(chain[f], sent.index, sent.next - 1)
<1>2. own \in Chain /\ far[f] \in Chain /\ chain[f] \in Chain BY DEF Typed, NewChain, Chain
<1>3. Encrypts(own) \in Chain /\ Encrypts(own).next > 0 BY <1>2, ChainMoves
<1>4. /\ sent \in Chain /\ sent.next - 1 \in Nat /\ sent.index \in Nat
      /\ sent.index = Encrypts(own).index /\ sent.next >= Encrypts(own).next /\ sent.next > 0
  BY <1>3 DEF Chain
<1>5. c \in Chain /\ c.next = (sent.next - 1) + 1
  <2> HIDE DEF sent
  <2> QED BY <1>2, <1>4, ChainMoves
<1>6. \/ far[f].state = "Receiving" /\ far[f] # Unmet /\ sent.index = far[f].index + 1
      \/ sent.index = far[f].index /\ sent.next > far[f].next
  <2>1. CASE far[f] = Unmet
    <3>1. Encrypts(own) = [NewChain EXCEPT !.next = 1] BY <2>1 DEF Encrypts, NewChain
    <3> QED BY <1>4, <2>1, <3>1 DEF NewChain, Unmet
  <2>2. CASE far[f] # Unmet
    <3>1. own = far[f] BY <2>2
    <3>2. CASE far[f].state = "Receiving"
      <4>1. Encrypts(own).index = far[f].index + 1 BY <3>1, <3>2 DEF Encrypts
      <4> QED BY <1>4, <2>2, <3>2, <4>1
    <3>3. CASE far[f].state # "Receiving"
      <4>1. Encrypts(own).index = far[f].index /\ Encrypts(own).next = far[f].next + 1
        BY <1>2, <3>1, <3>3 DEF Encrypts, Chain
      <4> HIDE DEF own, sent
      <4> QED BY <1>2, <1>4, <4>1 DEF Chain
    <3> QED BY <3>2, <3>3
  <2> QED BY <2>1, <2>2
<1>7. /\ far' = [far EXCEPT ![f] = sent] /\ chain' = [chain EXCEPT ![f] = c] /\ Save(f, Me, c)
  BY <1>1
<1>8. c.next = sent.next BY <1>4, <1>5 DEF Chain
<1> HIDE DEF c
<1>9. c = Decrypts(chain[f], sent.index, sent.next - 1) BY DEF c
<1> HIDE DEF sent
<1> QED BY <1>4, <1>5, <1>6, <1>7, <1>8, <1>9

LEMMA NextTyped == Typed /\ [Next]_vars => Typed'
<1> SUFFICES ASSUME Typed, [Next]_vars PROVE Typed' OBVIOUS
<1>1. CASE Initialize
  <2>1. active' = [i \in 1..Len(contacts) |-> i = 1] /\ Len(contacts) \in Nat BY <1>1 DEF Initialize, Typed
  <2>2. active' \in Seq(BOOLEAN) BY <2>1
  <2>3. selectedIdx' \in Nat BY <1>1 DEF Initialize, Typed
  <2> QED BY <1>1, <2>2, <2>3 DEF Initialize, Typed, model
<1>2. CASE TypeDraft BY <1>2 DEF TypeDraft, Typed, model
<1>3. CASE Send
  <2>1. selectedChat \in Friends => Encrypts(chain[selectedChat]) \in Chain BY ChainMoves DEF Typed
  <2>2. chain' \in [Friends -> Chain] BY <1>3, <2>1 DEF Send, Typed
  <2>4. far' \in [Friends -> Chain]
    <3>1. CASE UNCHANGED far BY <3>1 DEF Typed
    <3>2. CASE Reaches(selectedChat, chain'[selectedChat])
      <4> DEFINE c == chain'[selectedChat]
      <4>1. CASE selectedChat \in Friends
        <5>1. c = Encrypts(chain[selectedChat]) BY <1>3, <4>1 DEF Send, Typed
        <5>2. c.index \in Nat /\ c.next - 1 \in Nat
          <6>1. Encrypts(chain[selectedChat]) \in Chain /\ Encrypts(chain[selectedChat]).next > 0
            BY <4>1, ChainMoves DEF Typed
          <6> QED BY <5>1, <6>1 DEF Chain
        <5>3. Decrypts(far[selectedChat], c.index, c.next - 1) \in Chain BY <4>1, <5>2, ChainMoves DEF Typed
        <5> QED BY <3>2, <5>3 DEF Reaches, Typed
      <4>2. CASE selectedChat \notin Friends
        <5>1. far' = far BY <3>2, <4>2 DEF Reaches, Typed
        <5> QED BY <5>1 DEF Typed
      <4> QED BY <4>1, <4>2
    <3> QED BY <1>3, <3>1, <3>2 DEF Send
  <2>3. active' \in Seq(BOOLEAN) /\ selectedIdx' \in Nat
    BY <1>3, UpdateChatsTyped DEF Send, Typed
  <2> QED BY <1>3, <2>2, <2>3, <2>4 DEF Send, Typed
<1>4. CASE ClickPlus BY <1>4 DEF ClickPlus, Typed, model
<1>5. CASE AddFriend
  <2>1. contacts' \in Seq(Friends)
    BY <1>5 DEF AddFriend, Typed, Chats
  <2>2. active' \in Seq(BOOLEAN) /\ selectedIdx' \in Nat
    BY <1>5, <2>1, UpdateChatsTyped DEF AddFriend
  <2> QED BY <1>5, <2>1, <2>2 DEF AddFriend, Typed, Chats
<1>6. CASE AddFriendUnsaved
  <2>1. contacts' \in Seq(Friends)
    BY <1>6 DEF AddFriendUnsaved, Typed, Chats
  <2> QED BY <1>6, <2>1 DEF AddFriendUnsaved, Typed, pageVars
<1>7. ASSUME NEW i \in 1..Len(active), ClickChat(i) PROVE Typed'
  <2>1. active' \in Seq(BOOLEAN) BY <1>7, ClickTyped DEF ClickChat, Typed
  <2> QED BY <1>7, <2>1 DEF ClickChat, Typed, model
<1>8. ASSUME NEW f \in Friends, Receive(f) PROVE Typed'
  <2>1. PICK sent \in Chain, c \in Chain :
          far' = [far EXCEPT ![f] = sent] /\ chain' = [chain EXCEPT ![f] = c]
    BY <1>8, ReceiveMoves
  <2>2. chain' \in [Friends -> Chain] /\ far' \in [Friends -> Chain] BY <2>1 DEF Typed
  <2>3. count' = count + 1 /\ UNCHANGED <<contacts, pageVars>> BY <1>8 DEF Receive
  <2> QED BY <2>2, <2>3 DEF Typed, pageVars
<1>9. ASSUME NEW f \in Friends, TypeFriend(f) PROVE Typed'
  BY <1>9 DEF TypeFriend, Typed, model, Chats
<1>10. CASE UNCHANGED vars BY <1>10 DEF vars, model, pageVars, Typed
<1> QED BY <1>1, <1>2, <1>3, <1>4, <1>5, <1>6, <1>7, <1>8, <1>9, <1>10 DEF Next

(* Every variable the proofs look into keeps to its type.                  *)
THEOREM TypesHold == Spec => []Typed
BY InitTyped, NextTyped, PTL DEF Spec

-----------------------------------------------------------------------------
(* The list of chats and the selection.                                    *)

LEMMA InitList == Init => ListInv
<1> SUFFICES ASSUME Init PROVE ListInv OBVIOUS
<1>1. IsInjective(contacts)
  <2>1. CASE contacts = <<>> BY <2>1 DEF IsInjective
  <2>2. ASSUME NEW f \in Friends, contacts = <<f>> PROVE IsInjective(contacts)
    BY <2>2 DEF IsInjective
  <2> QED BY <2>1, <2>2 DEF Init
<1>2. Len(contacts) \in Nat BY InitTyped DEF Typed
<1>3. active = <<>> /\ Len(active) = 0 BY DEF Init
<1>4. selectedIdx = 0 /\ selectedChat = None BY DEF Init
<1> QED BY <1>1, <1>2, <1>3, <1>4 DEF ListInv

(* Appending a friend that is not there.                                   *)
LEMMA AppendInjective ==
  ASSUME NEW s \in Seq(Friends), IsInjective(s), NEW f \in Friends, \A i \in 1..Len(s) : s[i] # f
  PROVE  /\ IsInjective(Append(s, f)) /\ Len(Append(s, f)) = Len(s) + 1
         /\ \A i \in 1..Len(s) : Append(s, f)[i] = s[i]
BY DEF IsInjective

(* A list that only has grown at its end keeps the selection.              *)
LEMMA GrownList ==
  ASSUME Typed, ListInv, NEW list \in Seq(Friends), IsInjective(list), Len(contacts) <= Len(list),
         \A i \in 1..Len(contacts) : list[i] = contacts[i]
  PROVE  /\ active # <<>> => selectedIdx \in 1..Len(list) /\ selectedChat = list[selectedIdx]
         /\ Len(active) <= Len(list)
<1>1. Len(active) \in Nat /\ Len(contacts) \in Nat /\ Len(list) \in Nat BY DEF Typed
<1>2. ASSUME active # <<>> PROVE selectedIdx \in 1..Len(contacts)
  BY <1>1, <1>2 DEF ListInv
<1> QED BY <1>1, <1>2 DEF ListInv

(* UpdateChats on a list that has grown, or stayed.                        *)
LEMMA UpdatedList ==
  ASSUME Typed, ListInv, initialized, NEW list \in Seq(Friends), list # <<>> \/ active = <<>>,
         IsInjective(list), Len(contacts) <= Len(list),
         \A i \in 1..Len(contacts) : list[i] = contacts[i],
         UpdateChats(list), contacts' = list, initialized'
  PROVE  ListInv'
<1>1. Len(list) \in Nat /\ Len(active) \in Nat BY DEF Typed
<1>2. active' = [i \in 1..Len(list) |-> FALSE] /\ Len(active') = Len(list)
      /\ \A i \in 1..Len(list) : active'[i] = FALSE
  BY <1>1 DEF UpdateChats
<1>3. CASE list = <<>>
  <2>1. active' = <<>> /\ Len(list) = 0 BY <1>2, <1>3
  <2>2. selectedIdx' = selectedIdx /\ selectedChat' = selectedChat BY <1>3 DEF UpdateChats
  <2>3. selectedIdx = 0 /\ selectedChat = None BY <1>3 DEF ListInv
  <2> QED BY <1>2, <2>1, <2>2, <2>3 DEF ListInv
<1>4. CASE list # <<>>
  <2>1. Len(list) > 0 /\ active' # <<>>
    <3>1. Len(list) > 0 BY <1>1, <1>4
    <3>2. Len(active') # 0 BY <1>1, <1>2, <3>1
    <3> QED BY <3>1, <3>2
  <2>2. CASE selectedIdx = 0
    <3>1. selectedIdx' = 1 /\ selectedChat' = list[1] BY <1>4, <2>2 DEF UpdateChats
    <3> QED BY <1>1, <1>2, <2>1, <3>1 DEF ListInv
  <2>3. CASE selectedIdx # 0
    <3>1. selectedIdx' = selectedIdx /\ selectedChat' = selectedChat BY <2>3 DEF UpdateChats
    <3>2. active # <<>> BY <2>3 DEF ListInv
    <3>3. selectedIdx \in 1..Len(list) /\ selectedChat = list[selectedIdx] BY <3>2, GrownList
    <3> QED BY <1>1, <1>2, <2>1, <3>1, <3>3 DEF ListInv
  <2> QED BY <2>2, <2>3
<1> QED BY <1>3, <1>4

(* The click: the button of before is made inactive first.                 *)
LEMMA ClickList ==
  ASSUME Typed, ListInv, NEW i \in 1..Len(active), ClickChat(i)
  PROVE  ListInv'
<1>1. active \in Seq(BOOLEAN) /\ Len(active) \in Nat /\ active # <<>> BY DEF Typed
<1>2. selectedIdx \in 1..Len(active) /\ i # selectedIdx BY <1>1 DEF ListInv, ClickChat
<1>3. active' = [active EXCEPT ![selectedIdx] = FALSE, ![i] = TRUE] /\ Len(active') = Len(active)
  BY <1>1, ClickTyped DEF ClickChat
<1>4. \A j \in 1..Len(active) : j # i => active'[j] = FALSE
  <2> SUFFICES ASSUME NEW j \in 1..Len(active), j # i PROVE active'[j] = FALSE OBVIOUS
  <2>1. DOMAIN active = 1..Len(active) BY <1>1
  <2>2. CASE j = selectedIdx BY <1>3, <2>1, <2>2
  <2>3. CASE j # selectedIdx
    <3>1. active[j] = FALSE BY <2>3 DEF ListInv
    <3> QED BY <1>3, <2>1, <2>3, <3>1
  <2> QED BY <2>2, <2>3
<1>5. active' # <<>> BY <1>1, <1>3
<1>6. selectedIdx' = i /\ selectedChat' = contacts[i] /\ contacts' = contacts BY DEF ClickChat, model
<1>7. initialized' BY DEF ClickChat, ListShown
<1> QED BY <1>3, <1>4, <1>5, <1>6, <1>7 DEF ListInv

LEMMA NextList == Typed /\ ListInv /\ [Next]_vars => ListInv'
<1> SUFFICES ASSUME Typed, ListInv, [Next]_vars PROVE ListInv' OBVIOUS
<1>1. contacts \in Seq(Friends) /\ Len(contacts) \in Nat BY DEF Typed
<1>2. CASE Initialize
  <2>1. active = <<>> /\ selectedIdx = 0 /\ selectedChat = None BY <1>2 DEF Initialize, ListInv
  <2>2. contacts' = contacts /\ initialized' BY <1>2 DEF Initialize, model
  <2>3. active' = [i \in 1..Len(contacts) |-> i = 1] /\ Len(active') = Len(contacts)
        /\ \A i \in 1..Len(contacts) : active'[i] = (i = 1)
    BY <1>1, <1>2 DEF Initialize
  <2>4. CASE contacts = <<>>
    <3>1. active' = <<>> /\ Len(contacts) = 0 BY <2>3, <2>4
    <3>2. selectedIdx' = 0 /\ selectedChat' = None BY <1>2, <2>1, <2>4 DEF Initialize
    <3> QED BY <2>2, <2>3, <3>1, <3>2 DEF ListInv
  <2>5. CASE contacts # <<>>
    <3>1. Len(contacts) > 0 BY <1>1, <2>5
    <3>2. Len(active') # 0 BY <1>1, <2>3, <3>1
    <3>3. active' # <<>> BY <3>2
    <3>4. selectedIdx' = 1 /\ selectedChat' = contacts[1] BY <1>2, <2>1, <2>5 DEF Initialize
    <3>5. \A i \in 1..Len(active') : i # selectedIdx' => active'[i] = FALSE
      <4> SUFFICES ASSUME NEW i \in 1..Len(contacts), i # 1 PROVE active'[i] = FALSE
        BY <2>3, <3>4
      <4>1. active'[i] = (i = 1) BY <2>3
      <4> QED BY <4>1
    <3> QED BY <1>1, <2>2, <2>3, <3>1, <3>3, <3>4, <3>5 DEF ListInv
  <2> QED BY <2>4, <2>5
<1>3. CASE UNCHANGED <<contacts, active, selectedIdx, selectedChat, initialized>>
  BY <1>3 DEF ListInv
<1>4. CASE Send
  <2>1. contacts' = contacts /\ initialized' = initialized /\ initialized BY <1>4 DEF Send, InputShown
  <2>2. selectedChat # None BY <1>4 DEF Send
  <2>3. active # <<>> BY <2>2 DEF ListInv
  <2>4. contacts # <<>> BY <1>1, <2>3 DEF ListInv, Typed
  <2>5. CASE UpdateChats(contacts)
    <3>1. initialized /\ initialized' BY <2>1
    <3>2. \A i \in 1..Len(contacts) : contacts[i] = contacts[i] OBVIOUS
    <3>3. IsInjective(contacts) /\ Len(contacts) <= Len(contacts) BY <1>1 DEF ListInv
    <3> QED BY <1>1, <2>1, <2>4, <2>5, <3>1, <3>2, <3>3, UpdatedList
  <2>6. CASE UNCHANGED <<selectedIdx, selectedChat, active>>
    BY <1>3, <2>1, <2>6
  <2> QED BY <1>4, <2>5, <2>6 DEF Send
<1>5. CASE AddFriend
  <2>1. initialized /\ initialized' /\ UpdateChats(contacts') BY <1>5 DEF AddFriend, FormShown
  <2>2. friend \in Friends BY <1>5 DEF AddFriend, Typed, Chats
  <2>3. contacts' \in Seq(Friends) /\ contacts' # <<>> /\ IsInjective(contacts')
        /\ Len(contacts) <= Len(contacts') /\ \A i \in 1..Len(contacts) : contacts'[i] = contacts[i]
    <3>1. CASE Known(friend) /\ contacts' = contacts
      <4>1. contacts # <<>> BY <1>1, <3>1 DEF Known
      <4> QED BY <1>1, <3>1, <4>1 DEF ListInv
    <3>2. CASE ~Known(friend) /\ contacts' = Append(contacts, friend)
      <4>1. \A i \in 1..Len(contacts) : contacts[i] # friend BY <3>2 DEF Known
      <4>2. IsInjective(contacts') /\ Len(contacts') = Len(contacts) + 1
            /\ \A i \in 1..Len(contacts) : contacts'[i] = contacts[i]
        BY <1>1, <2>2, <3>2, <4>1, AppendInjective DEF ListInv
      <4>3. contacts' \in Seq(Friends) BY <1>1, <2>2, <3>2
      <4>4. Len(contacts') # 0 BY <1>1, <4>2
      <4> QED BY <1>1, <4>2, <4>3, <4>4
    <3> QED BY <1>5, <3>1, <3>2 DEF AddFriend
  <2>4. \E list \in Seq(Friends) : list = contacts' BY <2>3
  <2>5. ASSUME NEW list \in Seq(Friends), list = contacts' PROVE ListInv'
    <3>1. UpdateChats(list) BY <2>1, <2>5 DEF UpdateChats
    <3> QED BY <2>1, <2>3, <2>5, <3>1, UpdatedList
  <2> QED BY <2>4, <2>5
<1>6. CASE AddFriendUnsaved
  <2>1. friend \in Friends /\ ~Known(friend) /\ contacts' = Append(contacts, friend)
        /\ UNCHANGED <<active, selectedIdx, selectedChat, initialized>>
    BY <1>6 DEF AddFriendUnsaved, Typed, Chats, pageVars
  <2>2. IsInjective(contacts') /\ Len(contacts') = Len(contacts) + 1
        /\ \A i \in 1..Len(contacts) : contacts'[i] = contacts[i]
    BY <1>1, <2>1, AppendInjective DEF ListInv, Known
  <2>3. contacts' \in Seq(Friends) BY <1>1, <2>1
  <2>4. \E list \in Seq(Friends) : list = contacts' BY <2>3
  <2>5. /\ active # <<>> => selectedIdx \in 1..Len(contacts') /\ selectedChat = contacts'[selectedIdx]
        /\ Len(active) <= Len(contacts')
    <3>1. ASSUME NEW list \in Seq(Friends), list = contacts'
          PROVE  /\ active # <<>> => selectedIdx \in 1..Len(list) /\ selectedChat = list[selectedIdx]
                 /\ Len(active) <= Len(list)
      <4>1. Len(contacts) <= Len(list) BY <1>1, <2>2, <3>1
      <4> QED BY <2>2, <3>1, <4>1, GrownList
    <3> QED BY <2>4, <3>1
  <2> QED BY <2>1, <2>2, <2>5 DEF ListInv
<1>7. ASSUME NEW i \in 1..Len(active), ClickChat(i) PROVE ListInv'
  BY <1>7, ClickList
<1>8. CASE TypeDraft \/ ClickPlus \/ (\E f \in Friends : Receive(f) \/ TypeFriend(f)) \/ UNCHANGED vars
  BY <1>3, <1>8 DEF TypeDraft, ClickPlus, Receive, TypeFriend, vars, model, pageVars
<1> QED BY <1>2, <1>4, <1>5, <1>6, <1>7, <1>8 DEF Next

(* The buttons follow the list, and the selection the buttons.             *)
THEOREM ListIsKept == Spec => []ListInv
BY InitList, NextList, TypesHold, PTL DEF Spec

(* The selection is a button, the one that is active, and its chat; the    *)
(* list has each friend once.                                              *)
THEOREM SelectionIsRight == Spec => []SelectionIsAChat
<1>1. Typed /\ ListInv => SelectionIsAChat
  <2> SUFFICES ASSUME Typed, ListInv PROVE SelectionIsAChat OBVIOUS
  <2>1. Highlighted \subseteq {selectedIdx}
    <3> SUFFICES ASSUME NEW i \in 1..Len(active), active[i], i # selectedIdx PROVE FALSE
      BY DEF Highlighted
    <3>1. active[i] = FALSE BY DEF ListInv
    <3> QED BY <3>1
  <2> QED BY <2>1 DEF ListInv, SelectionIsAChat
<1> QED BY <1>1, TypesHold, ListIsKept, PTL

-----------------------------------------------------------------------------
(* The draft.                                                              *)

LEMMA InitDraft == Init => DraftInv /\ NamesInv
<1> SUFFICES ASSUME Init PROVE DraftInv /\ NamesInv OBVIOUS
<1>1. PICK c \in Loaded : rows \in SUBSET UNION {OldRows(f, c) : f \in inTable}
  BY DEF Init
<1>2. PICK g : inTable \subseteq {g} /\ inTable \subseteq Friends
  <2>1. CASE contacts = <<>>
    <3>1. inTable = {} BY <2>1 DEF Init
    <3> QED BY <3>1
  <2>2. ASSUME NEW f \in Friends, contacts = <<f>> PROVE inTable \subseteq {f} /\ inTable \subseteq Friends
    BY <2>2 DEF Init
  <2> QED BY <2>1, <2>2 DEF Init
<1>3. ASSUME NEW r \in rows
      PROVE  /\ r.name[1] \in Friends
             /\ r.from = Me => r.to = g
  <2>1. PICK f \in inTable : r \in OldRows(f, c) BY <1>1
  <2>2. PICK j, i : r = OldRow(f, c, j, i) BY <2>1 DEF OldRows
  <2> QED BY <1>2, <2>1, <2>2 DEF OldRow, Row
<1>4. \A m \in messages : m.typed = {} /\ m.name[1] \in Friends /\ (m.from = Me => m.to = g)
  <2> SUFFICES ASSUME NEW m \in messages
               PROVE  m.typed = {} /\ m.name[1] \in Friends /\ (m.from = Me => m.to = g)
    OBVIOUS
  <2>1. PICK r \in rows : m = Message(r.name, r.from, r.to, {}) BY DEF Init
  <2> QED BY <1>3, <2>1 DEF Message
<1>5. IsFiniteSet(WrittenTo)
  <2>1. WrittenTo \subseteq {g} BY <1>4 DEF WrittenTo
  <2> QED BY <2>1, FS_Singleton, FS_Subset
<1>6. \A m \in messages, k \in Nat : m.name # <<None, 0, k>>
  BY <1>4, ChatsAssumption
<1> QED BY <1>4, <1>5, <1>6 DEF Init, DraftInv, SentWhereTyped, NamesInv

(* Making the buttons anew only turns to a chat from none.                 *)
LEMMA UpdateKeepsChat ==
  ASSUME ListInv, NEW list, UpdateChats(list)
  PROVE  selectedChat' = selectedChat \/ selectedChat = None
BY DEF ListInv, UpdateChats

LEMMA NextDraft == ListInv /\ DraftInv /\ [Next]_vars => DraftInv'
<1> SUFFICES ASSUME ListInv, DraftInv, [Next]_vars PROVE DraftInv' OBVIOUS
<1>1. CASE selectedChat' = selectedChat /\ draft' = draft /\ messages' = messages
  BY <1>1 DEF DraftInv, SentWhereTyped
<1>2. CASE Initialize
  <2>1. selectedChat' = selectedChat \/ selectedChat = None
    BY <1>2 DEF Initialize, ListInv
  <2> QED BY <1>2, <2>1 DEF Initialize, model, DraftInv, SentWhereTyped
<1>3. CASE TypeDraft
  BY <1>3 DEF TypeDraft, model, DraftInv, SentWhereTyped
<1>4. CASE Send
  <2>1. CASE /\ messages' = messages \cup {Message(<<None, 0, count>>, Me, selectedChat, draft)}
             /\ draft' = {}
    BY <2>1 DEF DraftInv, SentWhereTyped, Message
  <2>2. CASE UNCHANGED <<messages, selectedChat, draft>> BY <1>1, <2>2
  <2> QED BY <1>4, <2>1, <2>2 DEF Send, Exchanged
<1>5. CASE AddFriend
  <2>1. selectedChat' = selectedChat \/ selectedChat = None BY <1>5, UpdateKeepsChat DEF AddFriend
  <2> QED BY <1>5, <2>1 DEF AddFriend, DraftInv, SentWhereTyped
<1>6. ASSUME NEW i \in 1..Len(active), ClickChat(i) PROVE DraftInv'
  BY <1>6 DEF ClickChat, model, DraftInv, SentWhereTyped
<1>7. ASSUME NEW f \in Friends, Receive(f) PROVE DraftInv'
  <2>1. messages' = messages \cup {Message(<<None, 0, count>>, f, Me, {})}
        /\ UNCHANGED <<draft, selectedChat>>
    BY <1>7 DEF Receive, Exchanged, pageVars
  <2> QED BY <2>1 DEF DraftInv, SentWhereTyped, Message
<1>8. CASE ClickPlus \/ AddFriendUnsaved \/ (\E f \in Friends : TypeFriend(f)) \/ UNCHANGED vars
  BY <1>1, <1>8 DEF ClickPlus, AddFriendUnsaved, TypeFriend, vars, model, pageVars
<1> QED BY <1>2, <1>3, <1>4, <1>5, <1>6, <1>7, <1>8 DEF Next

(* What is in the input was typed in the selected chat, or in none.        *)
THEOREM DraftStaysHere == Spec => []DraftInv
BY InitDraft, NextDraft, ListIsKept, PTL DEF Spec

(* What was typed in one chat is not sent to another.                      *)
THEOREM TextsGoWhereTyped == Spec => []SentWhereTyped
BY DraftStaysHere, PTL DEF DraftInv

(* A message between the client and a friend is exchanged and recorded.    *)
Recorded(f, from, to) ==
  /\ count' = count + 1
  /\ \E t : messages' = messages \cup {Message(<<None, 0, count>>, from, to, t)}
  /\ \E c : Advances(chain[f], c) /\ chain' = [chain EXCEPT ![f] = c] /\ Save(from, to, c)

LEMMA SelectedIsFriend ==
  ASSUME Typed, ListInv, selectedChat # None
  PROVE  selectedChat \in Friends
<1>1. active # <<>> BY DEF ListInv
<1>2. selectedIdx \in 1..Len(active) /\ selectedChat = contacts[selectedIdx] BY <1>1 DEF ListInv
<1>3. selectedIdx \in 1..Len(contacts) BY <1>2 DEF ListInv, Typed
<1> QED BY <1>2, <1>3 DEF Typed

LEMMA EncryptAdvances == ASSUME NEW c \in Chain PROVE Advances(c, Encrypts(c))
BY ChainMoves DEF Chain, Encrypts, Advances

(* What a step does to a ratchet, and the friend's.                        *)
LEMMA NextStep == Typed /\ ListInv /\ StepInv /\ [Next]_vars => StepInv'
<1> SUFFICES ASSUME Typed, ListInv, StepInv, [Next]_vars PROVE StepInv' OBVIOUS
<1>1. CASE Send
  <2> DEFINE f == selectedChat
             c == Encrypts(chain[f])
  <2>1. f \in Friends BY <1>1, SelectedIsFriend DEF Send
  <2>2. chain' = [chain EXCEPT ![f] = c] /\ chain'[f] = c /\ \A g \in Friends \ {f} : chain'[g] = chain[g]
    BY <1>1, <2>1 DEF Send, Typed
  <2>3. chain[f] \in Chain /\ far[f] \in Chain /\ c \in Chain BY <2>1, ChainMoves DEF Typed
  <2>4. /\ c.state = "Sending" /\ c.index \in {far[f].index, far[f].index + 1}
    BY <2>1, <2>3 DEF StepInv, Encrypts, Chain
  <2> HIDE DEF c
  <2>5. CASE Reaches(f, c)
    <3> DEFINE d == Decrypts(far[f], c.index, c.next - 1)
    <3>1. /\ far'[f] = d /\ \A g \in Friends \ {f} : far'[g] = far[g]
          /\ \A g \in Friends \ {f} : g \in stuck' <=> g \in stuck
      BY <2>1, <2>5 DEF Reaches, Typed
    <3>2. d.index = c.index /\ d.next = c.next
      BY <2>3, <2>4 DEF Decrypts, Chain
    <3> QED BY <2>1, <2>2, <2>4, <3>1, <3>2 DEF StepInv
  <2>6. CASE stuck' = stuck \cup {f} /\ UNCHANGED far
    BY <2>1, <2>2, <2>4, <2>6 DEF StepInv
  <2>7. Reaches(f, c) \/ (stuck' = stuck \cup {f} /\ UNCHANGED far) BY <1>1, <2>2 DEF Send
  <2> QED BY <2>5, <2>6, <2>7
<1>2. ASSUME NEW f \in Friends, Receive(f) PROVE StepInv'
  <2>1. PICK sent \in Chain, c \in Chain :
          /\ far' = [far EXCEPT ![f] = sent] /\ chain' = [chain EXCEPT ![f] = c]
          /\ c = Decrypts(chain[f], sent.index, sent.next - 1) /\ c.next = sent.next
          /\ sent.index \in {far[f].index, far[f].index + 1}
    BY <1>2, ReceiveMoves
  <2>2. f \notin stuck /\ stuck' = stuck BY <1>2 DEF Receive
  <2>3. chain[f].index = far[f].index BY <2>2 DEF StepInv
  <2>4. c.index = sent.index BY <2>1, <2>3 DEF Decrypts, Typed, Chain
  <2>5. /\ chain'[f] = c /\ far'[f] = sent
        /\ \A g \in Friends \ {f} : chain'[g] = chain[g] /\ far'[g] = far[g]
    BY <2>1 DEF Typed
  <2> QED BY <2>1, <2>2, <2>4, <2>5 DEF StepInv
<1>3. ASSUME ~Send, \A f \in Friends : ~Receive(f) PROVE UNCHANGED <<chain, far, stuck>>
  BY <1>3 DEF Next, Initialize, TypeDraft, ClickPlus, AddFriend, AddFriendUnsaved, ClickChat, TypeFriend,
              vars, model
<1>4. CASE UNCHANGED <<chain, far, stuck>> BY <1>4 DEF StepInv
<1> QED BY <1>1, <1>2, <1>3, <1>4

LEMMA InitStep == Init => StepInv
<1> SUFFICES ASSUME Init, NEW f \in Friends
             PROVE  chain[f].index = far[f].index /\ chain[f].next = far[f].next /\ chain[f].index \in Nat
  BY DEF StepInv
<1>1. InStep(chain[f], far[f]) BY DEF Init
<1> QED BY <1>1, InitTyped DEF InStep, Typed, Chain

(* The two sides of a conversation stay in step.                           *)
THEOREM StepIsKept == Spec => []StepInv
BY InitStep, NextStep, TypesHold, ListIsKept, PTL DEF Spec

(* What a step does to messages, rows and ratchets.                        *)
LEMMA WhatIsRecorded ==
  ASSUME Typed, ListInv, StepInv, [Next]_vars
  PROVE  \/ \E f \in Friends : Recorded(f, Me, f) \/ Recorded(f, f, Me)
         \/ \E f \in Friends : /\ UNCHANGED <<messages, rows>> /\ count' = count + 1
                               /\ \E c : Advances(chain[f], c) /\ chain' = [chain EXCEPT ![f] = c]
         \/ UNCHANGED <<messages, rows, count, chain>>
<1>1. CASE Send
  <2> DEFINE f == selectedChat
             c == Encrypts(chain[f])
  <2>1. f \in Friends BY <1>1, SelectedIsFriend DEF Send
  <2>2. count' = count + 1 /\ chain' = [chain EXCEPT ![f] = c] /\ chain'[f] = c
    BY <1>1, <2>1 DEF Send, Typed
  <2>3. Advances(chain[f], c) BY <2>1, EncryptAdvances DEF Typed
  <2> HIDE DEF c
  <2>4. CASE Exchanged(Me, f, draft) /\ Save(Me, f, c)
    <3>1. Recorded(f, Me, f) BY <2>2, <2>3, <2>4 DEF Recorded, Exchanged
    <3> QED BY <2>1, <3>1
  <2>5. CASE UNCHANGED <<messages, rows>> BY <2>1, <2>2, <2>3, <2>5
  <2>6. (Exchanged(Me, f, draft) /\ Save(Me, f, c)) \/ UNCHANGED <<messages, rows>>
    BY <1>1, <2>2 DEF Send
  <2> QED BY <2>4, <2>5, <2>6
<1>2. ASSUME NEW f \in Friends, Receive(f) PROVE Recorded(f, f, Me)
  <2>1. PICK sent \in Chain, c \in Chain :
          /\ chain' = [chain EXCEPT ![f] = c] /\ Save(f, Me, c)
          /\ c = Decrypts(chain[f], sent.index, sent.next - 1) /\ c.next = sent.next
          /\ \/ sent.index = far[f].index + 1 /\ sent.next > 0
             \/ sent.index = far[f].index /\ sent.next > far[f].next
    BY <1>2, ReceiveMoves
  <2>2. chain[f].index = far[f].index /\ chain[f].next = far[f].next
    BY <1>2 DEF Receive, StepInv
  <2>3. Advances(chain[f], c) BY <2>1, <2>2 DEF Advances, Decrypts, Typed, Chain
  <2>4. count' = count + 1 /\ Exchanged(f, Me, {}) BY <1>2 DEF Receive
  <2> QED BY <2>1, <2>3, <2>4 DEF Recorded, Exchanged
<1>3. ASSUME ~Send, \A f \in Friends : ~Receive(f) PROVE UNCHANGED <<messages, rows, count, chain>>
  BY <1>3 DEF Next, Initialize, TypeDraft, ClickPlus, AddFriend, AddFriendUnsaved, ClickChat, TypeFriend,
              vars, model
<1> QED BY <1>1, <1>2, <1>3

LEMMA NextNames == Typed /\ ListInv /\ StepInv /\ NamesInv /\ [Next]_vars => NamesInv'
<1> SUFFICES ASSUME Typed, ListInv, StepInv, NamesInv, [Next]_vars PROVE NamesInv' OBVIOUS
<1>1. count \in Nat BY DEF Typed
<1>2. ASSUME NEW f \in Friends, NEW from, NEW to, Recorded(f, from, to) PROVE NamesInv'
  <2>1. PICK t : messages' = messages \cup {Message(<<None, 0, count>>, from, to, t)}
    BY <1>2 DEF Recorded
  <2>2. count' = count + 1 BY <1>2 DEF Recorded
  <2> DEFINE m == Message(<<None, 0, count>>, from, to, t)
  <2>3. messages' = messages \cup {m} /\ m.from = from /\ m.to = to /\ m.name = <<None, 0, count>>
    BY <2>1 DEF Message
  <2> HIDE DEF m
  <2>4. IsFiniteSet(WrittenTo')
    <3>1. CASE from = Me
      <4>1. WrittenTo' = WrittenTo \cup {to}
        <5>1. \A x : x \in {n \in messages' : n.from = Me} <=> x \in {n \in messages : n.from = Me} \/ x = m
          BY <2>3, <3>1
        <5> QED BY <2>3, <5>1 DEF WrittenTo
      <4> QED BY <4>1, FS_AddElement DEF NamesInv
    <3>2. CASE from # Me
      <4>1. WrittenTo' = WrittenTo BY <2>3, <3>2 DEF WrittenTo
      <4> QED BY <4>1 DEF NamesInv
    <3> QED BY <3>1, <3>2
  <2>5. ASSUME NEW n \in messages', NEW k \in Nat, n.name = <<None, 0, k>> PROVE k < count'
    <3>1. CASE n = m BY <1>1, <2>2, <2>3, <2>5, <3>1
    <3>2. CASE n \in messages
      <4>1. k < count BY <2>5, <3>2 DEF NamesInv
      <4> QED BY <1>1, <2>2, <4>1
    <3> QED BY <2>3, <3>1, <3>2
  <2> QED BY <2>4, <2>5 DEF NamesInv
<1>3. ASSUME messages' = messages, count' \in {count, count + 1} PROVE NamesInv'
  <2>1. WrittenTo' = WrittenTo BY <1>3 DEF WrittenTo
  <2> QED BY <1>1, <1>3, <2>1 DEF NamesInv
<1> QED BY <1>2, <1>3, WhatIsRecorded

(* The names of messages differ, for a counter goes on.                    *)
THEOREM NamesAreKept == Spec => []NamesInv
BY InitDraft, NextNames, TypesHold, ListIsKept, StepIsKept, PTL DEF Spec

(* A text leaves the input when it is acknowledged, or when the user turns *)
(* to another chat.                                                        *)
THEOREM DraftsAreKept == Spec => DraftIsKept
<1>1. Typed /\ NamesInv /\ [Next]_vars
        => [draft # {} /\ draft' = {} => messages' # messages \/ selectedIdx' # selectedIdx]_vars
  <2> SUFFICES ASSUME Typed, NamesInv, Next, draft # {}, draft' = {}
               PROVE  messages' # messages \/ selectedIdx' # selectedIdx
    BY DEF vars, pageVars
  <2>1. CASE Send
    <3>1. messages' = messages \cup {Message(<<None, 0, count>>, Me, selectedChat, draft)}
      BY <2>1 DEF Send, Exchanged
    <3>2. Message(<<None, 0, count>>, Me, selectedChat, draft) \notin messages
      BY DEF NamesInv, Typed, Message
    <3> QED BY <3>1, <3>2
  <2>2. ASSUME NEW i \in 1..Len(active), ClickChat(i) PROVE selectedIdx' # selectedIdx
    BY <2>2 DEF ClickChat
  <2>3. TypeDraft => draft' # {} BY DEF TypeDraft
  <2>4. ASSUME ~Send, ~TypeDraft, \A i \in 1..Len(active) : ~ClickChat(i) PROVE draft' = draft
    BY <2>4 DEF Next, Initialize, ClickPlus, AddFriend, AddFriendUnsaved, Receive, TypeFriend, pageVars
  <2> QED BY <2>1, <2>2, <2>3, <2>4
<1> QED BY <1>1, TypesHold, NamesAreKept, PTL DEF Spec, DraftIsKept

-----------------------------------------------------------------------------
(* The history.                                                            *)

LEMMA InitHistory == Init => HistoryInv
<1> SUFFICES ASSUME Init PROVE HistoryInv OBVIOUS
<1>1. PICK c \in Loaded : /\ chain = [f \in Friends |-> IF Known(f) THEN c ELSE NewChain]
                          /\ rows \in SUBSET UNION {OldRows(f, c) : f \in inTable}
  BY DEF Init
<1>2. \A f \in inTable : f \in Friends /\ Known(f)
  <2>1. contacts \in Seq(Friends) BY InitTyped DEF Typed
  <2> QED BY <2>1 DEF Init, Known
<1>3. c.index \in Nat /\ c.next \in Nat /\ MaxNext \in Nat
  BY ChatsAssumption DEF Loaded, Ratchets
<1>4. ASSUME NEW r \in rows PROVE RowOf(r)
  <2>1. PICK f \in inTable : r \in OldRows(f, c) BY <1>1
  <2>2. PICK j \in 0..c.index, i \in 0..MaxNext - 1 :
          r = OldRow(f, c, j, i) /\ (j < c.index \/ i < c.next)
    BY <2>1 DEF OldRows
  <2> DEFINE from == Writer(f, c, j)
             to == IF from = Me THEN f ELSE Me
  <2>3. from \in {f, Me} BY DEF Writer
  <2> HIDE DEF from
  <2>4. r = [key |-> <<from, j, i>>, name |-> <<f, j, i>>, from |-> from, to |-> to]
    BY <2>2 DEF OldRow, Row, from
  <2>5. f \in Friends /\ f # Me /\ chain[f] = c BY <1>1, <1>2, ChatsAssumption
  <2>6. Peer(r) = f BY <2>3, <2>4, <2>5 DEF Peer
  <2>7. j \in Nat /\ i \in Nat /\ (j < c.index \/ (j = c.index /\ i < c.next)) BY <1>3, <2>2
  <2>8. Below(r.key, chain[Peer(r)]) BY <2>4, <2>5, <2>6, <2>7 DEF Below
  <2>9. \E m \in messages : m.from = r.from /\ m.to = r.to
    <3>1. Message(r.name, r.from, r.to, {}) \in messages BY DEF Init
    <3> QED BY <3>1 DEF Message
  <2> QED BY <2>3, <2>4, <2>5, <2>6, <2>7, <2>8, <2>9 DEF RowOf
<1>5. ASSUME NEW m \in messages PROVE \E r \in rows : r.name = m.name /\ r.from = m.from /\ r.to = m.to
  BY DEF Init, Message
<1> QED BY <1>4, <1>5 DEF HistoryInv

(* The place the ratchet comes to is a new one, and what it had passed it  *)
(* still has.                                                              *)
LEMMA RatchetAdvances ==
  ASSUME NEW c \in Chain, NEW d, Advances(c, d), NEW x
  PROVE  /\ d.index \in Nat /\ d.next - 1 \in Nat
         /\ LET key == <<x, d.index, d.next - 1>> IN
              ~Below(key, c) /\ Below(key, d)
         /\ \A k : k[2] \in Nat /\ k[3] \in Nat /\ Below(k, c) => Below(k, d)
<1>1. c.index \in Nat /\ c.next \in Nat /\ d.index \in Nat /\ d.next \in Nat BY DEF Chain, Advances
<1>2. d.next - 1 \in Nat BY <1>1 DEF Advances
<1>3. ~Below(<<x, d.index, d.next - 1>>, c) /\ Below(<<x, d.index, d.next - 1>>, d)
  BY <1>1 DEF Below, Advances
<1>4. ASSUME NEW k, k[2] \in Nat, k[3] \in Nat, Below(k, c) PROVE Below(k, d)
  BY <1>1, <1>4 DEF Below, Advances
<1> QED BY <1>1, <1>2, <1>3, <1>4

(* The rows that stay are still good ones.                                 *)
LEMMA RowsStay ==
  ASSUME Typed, NEW r, RowOf(r), NEW f \in Friends, NEW d, Advances(chain[f], d),
         chain' = [chain EXCEPT ![f] = d], messages \subseteq messages'
  PROVE  RowOf(r)'
<1>1. Below(r.key, chain'[Peer(r)])
  <2>1. chain[f] \in Chain BY DEF Typed
  <2>2. \A k : k[2] \in Nat /\ k[3] \in Nat /\ Below(k, chain[f]) => Below(k, d)
    BY <2>1, RatchetAdvances
  <2>3. CASE Peer(r) = f
    <3>1. chain'[Peer(r)] = d BY <2>3 DEF Typed
    <3> QED BY <2>2, <2>3, <3>1 DEF RowOf
  <2>4. CASE Peer(r) # f
    <3>1. chain'[Peer(r)] = chain[Peer(r)] BY <2>4 DEF Typed, RowOf
    <3> QED BY <3>1 DEF RowOf
  <2> QED BY <2>3, <2>4
<1>2. \E m \in messages' : m.from = r.from /\ m.to = r.to BY DEF RowOf
<1> QED BY <1>1, <1>2 DEF RowOf, Peer, Below

(* A message is recorded: its row takes no other message's place unless    *)
(* the client has written to two friends.                                  *)
LEMMA RecordedHistory ==
  ASSUME Typed, HistoryInv, NEW f \in Friends, NEW from, NEW to,
         (from = Me /\ to = f) \/ (from = f /\ to = Me), Recorded(f, from, to)
  PROVE  HistoryInv'
<1>1. PICK d : Advances(chain[f], d) /\ chain' = [chain EXCEPT ![f] = d] /\ Save(from, to, d)
  BY DEF Recorded
<1>2. chain[f] \in Chain /\ f # Me BY ChatsAssumption DEF Typed
<1>3. PICK key, row, m :
        /\ key[1] = from /\ key[2] = d.index /\ key[3] = d.next - 1
        /\ d.next - 1 \in Nat /\ d.index \in Nat
        /\ ~Below(key, chain[f]) /\ Below(key, d)
        /\ row.key = key /\ row.name = <<None, 0, count>> /\ row.from = from /\ row.to = to
        /\ m.name = <<None, 0, count>> /\ m.from = from /\ m.to = to
        /\ messages' = messages \cup {m} /\ rows' = {r \in rows : r.key # key} \cup {row}
  <2>1. PICK t : messages' = messages \cup {Message(<<None, 0, count>>, from, to, t)}
    BY DEF Recorded
  <2> DEFINE key == <<from, d.index, d.next - 1>>
             row == Row(<<None, 0, count>>, from, to, d.index, d.next - 1)
             m == Message(<<None, 0, count>>, from, to, t)
  <2>2. /\ d.next - 1 \in Nat /\ d.index \in Nat
        /\ ~Below(key, chain[f]) /\ Below(key, d)
    BY <1>1, <1>2, RatchetAdvances
  <2>3. rows' = {r \in rows : r.key # key} \cup {row} BY <1>1 DEF Save, Row
  <2>4. key[1] = from /\ key[2] = d.index /\ key[3] = d.next - 1 OBVIOUS
  <2>5. row.key = key /\ row.name = <<None, 0, count>> /\ row.from = from /\ row.to = to BY DEF Row
  <2>6. m.name = <<None, 0, count>> /\ m.from = from /\ m.to = to /\ messages' = messages \cup {m}
    BY <2>1 DEF Message
  <2> HIDE DEF key, row, m
  <2> QED BY <2>2, <2>3, <2>4, <2>5, <2>6
<1>4. chain'[f] = d BY <1>1 DEF Typed
<1>5. RowOf(row)'
  <2>1. Peer(row) = f BY <1>2, <1>3 DEF Peer
  <2>2. m \in messages' /\ m.from = row.from /\ m.to = row.to BY <1>3
  <2>3. Below(row.key, chain'[f]) BY <1>3, <1>4
  <2> QED BY <1>2, <1>3, <2>1, <2>2, <2>3 DEF RowOf, Peer, Below
<1>6. ASSUME NEW r \in rows PROVE RowOf(r)'
  <2>1. RowOf(r) BY DEF HistoryInv
  <2>2. messages \subseteq messages' BY <1>3
  <2> QED BY <1>1, <2>1, <2>2, RowsStay
<1>7. ASSUME from # Me \/ OneWritten', NEW r \in rows PROVE r.key # key
  <2> SUFFICES ASSUME r.key = key PROVE FALSE OBVIOUS
  <2>1. RowOf(r) BY DEF HistoryInv
  <2>2. r.from = from BY <1>3, <2>1 DEF RowOf
  <2>3. Peer(r) = f
    <3>1. CASE from = f BY <1>2, <2>2, <3>1 DEF Peer
    <3>2. CASE from = Me
      <4>1. PICK n \in messages : n.from = r.from /\ n.to = r.to BY <2>1 DEF RowOf
      <4>2. n \in messages' /\ m \in messages' BY <1>3
      <4>3. n.to = m.to BY <1>3, <1>7, <2>2, <3>2, <4>1, <4>2 DEF OneWritten
      <4> QED BY <1>2, <1>3, <2>2, <3>2, <4>1, <4>3 DEF Peer
    <3> QED BY <3>1, <3>2
  <2> QED BY <1>3, <2>1, <2>3 DEF RowOf
<1>8. ASSUME NEW n \in messages', n.from # Me \/ OneWritten'
      PROVE  \E r \in rows' : r.name = n.name /\ r.from = n.from /\ r.to = n.to
  <2>1. CASE n = m BY <1>3, <2>1
  <2>2. CASE n \in messages
    <3>1. n.from # Me \/ OneWritten BY <1>3, <1>8 DEF OneWritten
    <3>2. PICK r \in rows : r.name = n.name /\ r.from = n.from /\ r.to = n.to
      BY <2>2, <3>1 DEF HistoryInv
    <3>3. r.key # key
      <4>1. CASE from # Me \/ OneWritten' BY <1>7, <4>1
      <4>2. CASE from = Me /\ n.from # Me
        <5>1. r.key[1] = n.from BY <3>2 DEF HistoryInv, RowOf
        <5> QED BY <1>3, <4>2, <5>1
      <4> QED BY <1>8, <4>1, <4>2
    <3>4. r \in rows' BY <1>3, <3>3
    <3> QED BY <3>2, <3>4
  <2> QED BY <1>3, <2>1, <2>2
<1>9. \A r \in rows' : RowOf(r)' BY <1>3, <1>5, <1>6
<1> QED BY <1>8, <1>9 DEF HistoryInv

LEMMA NextHistory == Typed /\ ListInv /\ StepInv /\ HistoryInv /\ [Next]_vars => HistoryInv'
<1> SUFFICES ASSUME Typed, ListInv, StepInv, HistoryInv, [Next]_vars PROVE HistoryInv' OBVIOUS
<1>1. ASSUME NEW f \in Friends, Recorded(f, Me, f) \/ Recorded(f, f, Me) PROVE HistoryInv'
  BY <1>1, RecordedHistory
<1>2. ASSUME NEW f \in Friends, UNCHANGED <<messages, rows>>,
             NEW c, Advances(chain[f], c), chain' = [chain EXCEPT ![f] = c]
      PROVE  HistoryInv'
  <2>1. ASSUME NEW r \in rows PROVE RowOf(r)'
    <3>1. RowOf(r) BY DEF HistoryInv
    <3> QED BY <1>2, <3>1, RowsStay
  <2> QED BY <1>2, <2>1 DEF HistoryInv, OneWritten
<1>3. CASE UNCHANGED <<messages, rows, count, chain>>
  BY <1>3 DEF HistoryInv, OneWritten, RowOf, Peer
<1> QED BY <1>1, <1>2, <1>3, WhatIsRecorded

(* Each row is at a place its ratchet has passed, and each received        *)
(* message has one; so have the client's own as long as it has written to  *)
(* one friend only.                                                        *)
THEOREM RowsAreKept == Spec => []HistoryInv
BY InitHistory, NextHistory, TypesHold, ListIsKept, StepIsKept, PTL DEF Spec

(* The open chat shows every message received from the contact, and the    *)
(* acknowledged ones to it as long as the client has written to one friend *)
(* only, whatever turns the conversation took.                             *)
THEOREM HistoryIsComplete == Spec => []HistoryKeepsMessages
<1>1. NamesInv /\ HistoryInv => HistoryKeepsMessages
  <2> SUFFICES ASSUME NamesInv, HistoryInv, NEW m \in messages, selectedChat \in {m.from, m.to},
                      m.from = Me => Cardinality(WrittenTo) <= 1
               PROVE  [name |-> m.name, right |-> m.from = Me] \in Shown
    BY DEF HistoryKeepsMessages
  <2>1. m.from # Me \/ OneWritten
    <3> SUFFICES ASSUME Cardinality(WrittenTo) <= 1, NEW a \in messages, NEW b \in messages, a.from = Me, b.from = Me, a.to # b.to
                 PROVE  FALSE
      BY DEF OneWritten
    <3>1. {a.to} \cup {b.to} \in SUBSET WrittenTo BY DEF WrittenTo
    <3>2. IsFiniteSet({a.to}) /\ Cardinality({a.to}) = 1 BY FS_Singleton
    <3>7. b.to \notin {a.to} OBVIOUS
    <3>3. Cardinality({a.to} \cup {b.to}) = 2
      <4>1. Cardinality({a.to} \cup {b.to}) = Cardinality({a.to}) + 1 BY <3>2, <3>7, FS_AddElement
      <4> QED BY <3>2, <4>1
    <3>4. IsFiniteSet(WrittenTo) BY DEF NamesInv
    <3>5. Cardinality({a.to} \cup {b.to}) <= Cardinality(WrittenTo) BY <3>1, <3>4, FS_Subset
    <3>6. Cardinality(WrittenTo) \in Nat BY <3>4, FS_CardinalityType
    <3> QED BY <3>3, <3>5, <3>6
  <2>2. PICK r \in rows : r.name = m.name /\ r.from = m.from /\ r.to = m.to
    BY <2>1 DEF HistoryInv
  <2>3. r \in ChatHistory(selectedChat) BY <2>2 DEF ChatHistory
  <2>4. [name |-> r.name, right |-> r.from = Me] \in Shown BY <2>3 DEF Shown
  <2> QED BY <2>2, <2>4
<1> QED BY <1>1, NamesAreKept, RowsAreKept, PTL

=============================================================================
