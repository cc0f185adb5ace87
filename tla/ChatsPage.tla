------------------------------- MODULE ChatsPage -------------------------------
(***************************************************************************)
(* The chats page, gioui/pages/chats: the list of contacts as buttons, the *)
(* selected chat, the draft, adding a friend and sending, with what these  *)
(* do in client/internal/client and in the tables of contacts and          *)
(* messages.  The clicks run one at a time in the user interface's         *)
(* goroutine; messages are received in between.                            *)
(*                                                                         *)
(* Of a contact's ratchet only what names a row of the history is kept:    *)
(* the ratchet's index, the next position of the chain and the state, on   *)
(* both sides.  The peers take turns (module Conversation looks at what    *)
(* happens otherwise): a friend reads what reaches it before it writes,    *)
(* and does not write while the client's latest message is lost.           *)
(***************************************************************************)
EXTENDS Naturals, Sequences, FiniteSets, Functions

CONSTANTS Friends,
          Me,            \* the client's own account
          None,          \* no chat is selected; the input is empty
          MaxMessages,   \* bound: messages sent and received
          MaxIndex,      \* bound: turns of a conversation that was loaded
          MaxNext        \* bound: messages of each of these turns

ASSUME ChatsAssumption ==
  /\ Me \notin Friends /\ None \notin Friends
  /\ {MaxMessages, MaxIndex, MaxNext} \subseteq Nat

VARIABLES
  contacts,      \* the client's contacts, in the order they were added
  inTable,       \* those that are in the contacts table
  chain,         \* each contact's ratchet
  far,           \* the ratchet each friend has with the client
  stuck,         \* contacts the latest message to which did not reach the server
  rows,          \* the messages table
  messages,      \* auxiliary: messages sent and acknowledged, or received
  count,         \* auxiliary: names for messages
  selectedIdx,   \* 0 for the code's -1
  selectedChat,
  chatAddOpen, initialized,
  active,        \* the chat buttons: whether each is shown as active
  draft,         \* the chats the text of the message input was typed in, {} if there is no text
  friend         \* the text of the friend input

model == <<contacts, inTable, chain, far, stuck, rows, messages, count>>
pageVars == <<selectedIdx, selectedChat, chatAddOpen, initialized, active, draft, friend>>
vars == <<model, pageVars>>

Chats == Friends \cup {None}
Known(f) == \E i \in 1..Len(contacts) : contacts[i] = f

(* A contact of AddContact's.  A friend that does not know the client yet  *)
(* gets Unmet's ratchet with the client's first message, and a new one of  *)
(* its own when it writes first.                                           *)
NewChain == [index |-> 0, next |-> 0, state |-> "Sending"]
Unmet == [NewChain EXCEPT !.state = "Receiving"]

(* Two ratchets in step: one of the two wrote last.  On the first chain    *)
(* both are Sending if each side has added the other.                      *)
InStep(c, d) ==
  /\ d.index = c.index /\ d.next = c.next
  /\ d.state # c.state \/ (c.index = 0 /\ c.state = "Sending")

(* Ratchets as the database may hold them, and the rows there may be for   *)
(* one: at places it has passed, each chain written by one side.           *)
Ratchets == [index : 0..MaxIndex, next : 0..MaxNext, state : {"Sending", "Receiving"}]
Loaded == {c \in Ratchets : c.next = 0 => c = NewChain}
Writer(f, c, j) == IF ((c.index - j) % 2 = 0) = (c.state = "Sending") THEN Me ELSE f
Row(name, from, to, index, i) == [key |-> <<from, index, i>>, name |-> name, from |-> from, to |-> to]
Message(name, from, to, typed) == [name |-> name, from |-> from, to |-> to, typed |-> typed]
OldRow(f, c, j, i) ==
  LET from == Writer(f, c, j) IN Row(<<f, j, i>>, from, IF from = Me THEN f ELSE Me, j, i)
OldRows(f, c) ==
  {OldRow(f, c, p[1], p[2]) : p \in {q \in (0..c.index) \X (0..MaxNext - 1) : q[1] < c.index \/ q[2] < c.next}}

(* New, after Login or Signup; the contacts are those of the database,     *)
(* with their ratchets and the history, in step with the friends'.         *)
Init ==
  /\ contacts \in {<<>>} \cup {<<f>> : f \in Friends}
  /\ inTable = {contacts[i] : i \in 1..Len(contacts)}
  /\ \E c \in Loaded :
       /\ chain = [f \in Friends |-> IF Known(f) THEN c ELSE NewChain]
       /\ rows \in SUBSET UNION {OldRows(f, c) : f \in inTable}
  /\ far \in [Friends -> Ratchets] /\ \A f \in Friends : InStep(chain[f], far[f])
  /\ messages = {Message(r.name, r.from, r.to, {}) : r \in rows}
  /\ stuck = {} /\ count = 0
  /\ selectedIdx = 0 /\ selectedChat = None
  /\ chatAddOpen = FALSE /\ initialized = FALSE
  /\ active = <<>> /\ draft = {} /\ friend = None

(* The buttons in the colour of the active one.                            *)
Highlighted == {i \in 1..Len(active) : active[i]}

(* Mutant: no chat is selected when the first contact is there.            *)
UpdateChats_NoSelect(list) ==
  /\ active' = [i \in 1..Len(list) |-> FALSE]
  /\ UNCHANGED <<selectedIdx, selectedChat>>

(* What Layout lays out, and so can be clicked or typed in: the header     *)
(* with the plus and the message input with its button always, of the list *)
(* of chats and the form for a friend one.                                 *)
HeaderShown == initialized
InputShown == initialized
ListShown == initialized /\ ~chatAddOpen
FormShown == initialized /\ chatAddOpen

(* UpdateChats: all the buttons are made anew, none of them active.        *)
UpdateChats(list) ==
  /\ active' = [i \in 1..Len(list) |-> FALSE]
  /\ IF list # <<>> /\ selectedIdx = 0
     THEN selectedIdx' = 1 /\ selectedChat' = list[1]
     ELSE UNCHANGED <<selectedIdx, selectedChat>>

(* The first Layout.                                                       *)
Initialize ==
  /\ ~initialized /\ initialized' = TRUE
  /\ IF contacts # <<>> /\ selectedIdx = 0
     THEN selectedIdx' = 1 /\ selectedChat' = contacts[1]
     ELSE UNCHANGED <<selectedIdx, selectedChat>>
  /\ active' = [i \in 1..Len(contacts) |-> i = 1]
  /\ UNCHANGED <<model, chatAddOpen, draft, friend>>

-----------------------------------------------------------------------------
(* Choosing a chat, writing and sending.                                   *)

(* Mutant: the draft is taken along to the next chat.                      *)
ClickChat_KeepDraft(i) ==
  /\ ListShown /\ i # selectedIdx
  /\ active' = [active EXCEPT ![selectedIdx] = FALSE, ![i] = TRUE]
  /\ selectedIdx' = i /\ selectedChat' = contacts[i]
  /\ UNCHANGED <<model, draft, chatAddOpen, initialized, friend>>

(* The click on a button of the list.                                      *)
ClickChat(i) ==
  /\ ListShown /\ i # selectedIdx
  /\ active' = [active EXCEPT ![selectedIdx] = FALSE, ![i] = TRUE]
  /\ draft' = {} /\ selectedIdx' = i /\ selectedChat' = contacts[i]
  /\ UNCHANGED <<model, chatAddOpen, initialized, friend>>

TypeDraft ==
  /\ InputShown
  /\ draft' = draft \cup {selectedChat}
  /\ UNCHANGED <<model, selectedIdx, selectedChat, chatAddOpen, initialized, active, friend>>

(* Encrypt and Decrypt, as far as the names of rows go.  A message carries *)
(* the sender's public key, which stands for the turn, and its place in    *)
(* the chain.  When the peers take turns, IsCurrentRatchet holds exactly   *)
(* of a message of the turn the ratchet is at, and no message is of a      *)
(* previous chain; reading on the current chain keeps index and state.     *)
Encrypts(c) == IF c.state = "Receiving" THEN [index |-> c.index + 1, next |-> 1, state |-> "Sending"]
               ELSE [c EXCEPT !.next = @ + 1]
Decrypts(c, turn, i) == IF turn = c.index THEN [c EXCEPT !.next = i + 1]
                        ELSE [index |-> c.index + 1, next |-> i + 1, state |-> "Receiving"]

(* Mutant: the position of the message is not part of the key of its row.  *)
Save_NoThread(from, to, c) ==
  LET key == <<from, c.index>> IN
  rows' = {r \in rows : r.key # key}
            \cup {[key |-> key, name |-> <<None, 0, count>>, from |-> from, to |-> to]}

(* SaveMessage: the row's key is the sender and the place in the ratchet   *)
(* with the contact, and a row with the same key is replaced.              *)
Save(from, to, c) ==
  LET row == Row(<<None, 0, count>>, from, to, c.index, c.next - 1) IN
  rows' = {r \in rows : r.key # row.key} \cup {row}

Exchanged(from, to, typed) == messages' = messages \cup {Message(<<None, 0, count>>, from, to, typed)}

(* What the client last wrote has reached the server: the friend reads it. *)
Reaches(f, c) ==
  /\ far' = [far EXCEPT ![f] = Decrypts(@, c.index, c.next - 1)]
  /\ stuck' = stuck \ {f}

(* Mutant: the message input is cleared before the server has answered.    *)
Send_ClearFirst ==
  /\ InputShown /\ draft # {} /\ selectedChat # None /\ count < MaxMessages
  /\ count' = count + 1
  /\ draft' = {}
  /\ chain' = [chain EXCEPT ![selectedChat] = Encrypts(@)]
  /\ \/ /\ Exchanged(Me, selectedChat, draft)
        /\ Reaches(selectedChat, chain'[selectedChat])
        /\ Save(Me, selectedChat, chain'[selectedChat])
        /\ UpdateChats(contacts)
     \/ /\ \/ Reaches(selectedChat, chain'[selectedChat])
           \/ stuck' = stuck \cup {selectedChat} /\ UNCHANGED far
        /\ UNCHANGED <<messages, rows, selectedIdx, selectedChat, active>>
  /\ UNCHANGED <<contacts, inTable, chatAddOpen, initialized, friend>>

(* sendMessage, SendMessage.  With no chat selected it does nothing.  The  *)
(* server stores the message and its answer comes in time or not, or it    *)
(* never gets the message; without the answer nothing is saved and the     *)
(* draft stays.  SaveMessage and UpdateContact succeed.                    *)
Send ==
  /\ InputShown /\ draft # {} /\ selectedChat # None /\ count < MaxMessages
  /\ count' = count + 1
  /\ chain' = [chain EXCEPT ![selectedChat] = Encrypts(@)]
  /\ \/ /\ Exchanged(Me, selectedChat, draft)
        /\ Reaches(selectedChat, chain'[selectedChat])
        /\ Save(Me, selectedChat, chain'[selectedChat])
        /\ UpdateChats(contacts)
        /\ draft' = {}
     \/ /\ \/ Reaches(selectedChat, chain'[selectedChat])
           \/ stuck' = stuck \cup {selectedChat} /\ UNCHANGED far
        /\ UNCHANGED <<messages, rows, selectedIdx, selectedChat, active, draft>>
  /\ UNCHANGED <<contacts, inTable, chatAddOpen, initialized, friend>>

(* A friend writes, and the listener handles its message; the one it wrote *)
(* before may have been lost, or not pushed.                               *)
Receive(f) ==
  /\ Known(f) /\ f \notin stuck /\ count < MaxMessages
  /\ count' = count + 1
  /\ \E skipped \in 0..1 :
       LET own == Encrypts(IF far[f] = Unmet THEN NewChain ELSE far[f])
           sent == [own EXCEPT !.next = @ + skipped]
           c == Decrypts(chain[f], sent.index, sent.next - 1) IN
       /\ far' = [far EXCEPT ![f] = sent]
       /\ chain' = [chain EXCEPT ![f] = c]
       /\ Save(f, Me, c)
  /\ Exchanged(f, Me, {})
  /\ UNCHANGED <<contacts, inTable, stuck, pageVars>>

(* GetMessages, for one contact.                                           *)
ChatHistory(f) == {r \in rows : r.from = f \/ r.to = f}

(* chatHistory: the client's own messages are on the right.                *)
Shown == {[name |-> r.name, right |-> r.from = Me] : r \in ChatHistory(selectedChat)}

-----------------------------------------------------------------------------
(* Adding a friend.                                                        *)

ClickPlus ==
  /\ HeaderShown /\ chatAddOpen' = ~chatAddOpen
  /\ UNCHANGED <<model, selectedIdx, selectedChat, initialized, active, draft, friend>>

TypeFriend(f) ==
  /\ FormShown /\ friend' = f
  /\ UNCHANGED <<model, selectedIdx, selectedChat, chatAddOpen, initialized, active, draft>>

(* addFriend, AddContact: one that is known is not added again; the public *)
(* key may not come; the row may fail to be written when the contact is    *)
(* already in memory.  On an error the page stays as it is.                *)
AddFriend ==
  /\ FormShown /\ friend # None
  /\ \/ Known(friend) /\ UNCHANGED <<contacts, inTable>>
     \/ ~Known(friend) /\ contacts' = Append(contacts, friend) /\ inTable' = inTable \cup {friend}
  /\ chatAddOpen' = FALSE /\ friend' = None
  /\ UpdateChats(contacts')
  /\ UNCHANGED <<chain, far, stuck, rows, messages, count, initialized, draft>>

AddFriendUnsaved ==
  /\ FormShown /\ friend # None /\ ~Known(friend)
  /\ contacts' = Append(contacts, friend)
  /\ UNCHANGED <<inTable, chain, far, stuck, rows, messages, count, pageVars>>

Next ==
  \/ Initialize \/ TypeDraft \/ Send \/ ClickPlus \/ AddFriend \/ AddFriendUnsaved
  \/ \E i \in 1..Len(active) : ClickChat(i)
  \/ \E f \in Friends : Receive(f) \/ TypeFriend(f)

Spec == Init /\ [][Next]_vars

-----------------------------------------------------------------------------
(* Properties.                                                             *)

(* The selection is a button, the only one shown as active, and the chat   *)
(* it stands for: the click on another one indexes the buttons with it.    *)
(* The list has each friend once, and it grows under the page without its  *)
(* buttons growing when a row could not be written.                        *)
SelectionIsAChat ==
  /\ IsInjective(contacts)
  /\ active # <<>> => selectedIdx \in 1..Len(active)
  /\ selectedIdx # 0 => selectedChat = contacts[selectedIdx]
  /\ Highlighted \subseteq {selectedIdx}

(* What was typed in one chat is not sent to another.  A text typed while  *)
(* there was no chat at all goes to the first there is.                    *)
SentWhereTyped == \A m \in messages : m.typed \subseteq {m.to, None}

(* A text leaves the input only when the server has acknowledged it, or    *)
(* when the user turns to another chat.                                    *)
DraftIsKept == [][draft # {} /\ draft' = {} => messages' # messages \/ selectedIdx' # selectedIdx]_vars

(* The chat that is open shows every message received from the contact, on *)
(* its side: no row has taken the place of another, whatever turns the     *)
(* conversation took, what was lost and what other friends there are.  It  *)
(* shows every acknowledged message to the contact too, as long as the     *)
(* client has written to this one only: the key has no receiver, and the   *)
(* places in two ratchets may be the same (ChatsPageTwo.cfg).              *)
WrittenTo == {m.to : m \in {n \in messages : n.from = Me}}
HistoryKeepsMessages ==
  \A m \in messages :
    /\ selectedChat \in {m.from, m.to}
    /\ m.from = Me => Cardinality(WrittenTo) <= 1
    => [name |-> m.name, right |-> m.from = Me] \in Shown

(* The same without the condition on the friends written to: not so.       *)
HistoryIsWhole ==
  \A m \in messages :
    selectedChat \in {m.from, m.to} => [name |-> m.name, right |-> m.from = Me] \in Shown
=============================================================================
