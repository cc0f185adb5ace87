------------------------------- MODULE Ratchet -------------------------------
(***************************************************************************)
(* The double ratchet of client/internal/contact, as operators on values.  *)
(* A key pair is named by its public key; the secret two key pairs share   *)
(* is the set of the two names; a root key is the sequence of the secrets  *)
(* that went into it, and the i-th message key of a chain is the pair of   *)
(* its root key and i.  Two keys are equal only if they were derived from  *)
(* the same secrets, which is what HKDF gives with overwhelming            *)
(* probability.                                                            *)
(***************************************************************************)
EXTENDS Naturals, Sequences, FiniteSets

CONSTANTS PrevLimit,   \* PREV_RATCHET_LIMIT
          MaxSkip      \* MAX_MESSAGE_SKIP

ASSUME LimitAssumption == PrevLimit \in Nat /\ MaxSkip \in Nat

Secret(k, foreign) == {k, foreign}

(* A message ratchet: one chain, which serves both directions.  next is    *)
(* PreviousIndex + 1, the position of the chain key; skipped has the       *)
(* indices of the keys put aside.                                          *)
NewMessageRatchet(root, foreign) == [foreign |-> foreign, root |-> root, next |-> 0, skipped |-> {}]

MessageKey(mr, i) == <<mr.root, i>>

(* The message ratchets and double ratchets over a set of key pairs.       *)
Chains(keys) == [foreign : keys, root : Seq(SUBSET keys), next : Nat, skipped : SUBSET Nat]

Ratchets(keys) == [keyPair : keys, cur : Chains(keys), prev : Seq(Chains(keys)),
                   index : Nat, state : {"Sending", "Receiving"}]

NewDHRatchet(keyPair, foreign, initState) ==
  [keyPair |-> keyPair, cur |-> NewMessageRatchet(<<Secret(keyPair, foreign)>>, foreign),
   prev |-> <<>>, index |-> 0, state |-> initState]

(* The latest PrevLimit ratchets are kept.                                 *)
Remember(prev, mr) ==
  LET s == Append(prev, mr) IN
  IF Len(s) > PrevLimit THEN SubSeq(s, Len(s) - PrevLimit + 1, Len(s)) ELSE s

(* Mutant: RatchetIndex is not counted up.                                 *)
RKCycle_NotCounted(r, foreign) ==
  [r EXCEPT !.prev = Remember(@, r.cur),
            !.cur = NewMessageRatchet(Append(r.cur.root, Secret(r.keyPair, foreign)), foreign)]

(* The current ratchet is put aside and a new one starts from the root     *)
(* key, moved on by the secret with the given public key.                  *)
RKCycle(r, foreign) ==
  [r EXCEPT !.prev = Remember(@, r.cur),
            !.cur = NewMessageRatchet(Append(r.cur.root, Secret(r.keyPair, foreign)), foreign),
            !.index = @ + 1]

(* Mutant: sending turns the ratchet without a fresh key pair.             *)
Turn_SameKey(r, fresh) ==
  IF r.state = "Receiving" THEN RKCycle([r EXCEPT !.state = "Sending"], r.cur.foreign) ELSE r

(* After a ratchet was last used for receiving, sending turns it with a    *)
(* fresh key pair and the peer's last public key.                          *)
Turn(r, fresh) ==
  IF r.state = "Receiving"
  THEN RKCycle([r EXCEPT !.state = "Sending", !.keyPair = fresh], r.cur.foreign)
  ELSE r

(* Message.Encrypt: the ratchet after it, and the message's header and key. *)
Encrypt(r, fresh) ==
  LET t == Turn(r, fresh) IN
  [ratchet |-> [t EXCEPT !.cur.next = @ + 1],
   pub |-> t.keyPair, index |-> t.cur.next, key |-> MessageKey(t.cur, t.cur.next)]

(* MessageRatchet.Decrypt: the chain moves on even when the key turns out  *)
(* not to be the message's.                                                *)
DecryptChain(mr, index, key) ==
  LET verdict == IF key = MessageKey(mr, index) THEN "ok" ELSE "invalid" IN
  IF index \in mr.skipped
  THEN [mr |-> [mr EXCEPT !.skipped = @ \ {index}], result |-> verdict]
  ELSE IF index < mr.next THEN [mr |-> mr, result |-> "processed"]
  ELSE IF index - mr.next > MaxSkip THEN [mr |-> mr, result |-> "too many skipped"]
  ELSE [mr |-> [mr EXCEPT !.skipped = @ \cup (mr.next..(index - 1)), !.next = index + 1],
        result |-> verdict]

(* GetPrevRatchet: the oldest one for the key.                             *)
Previous(r, pub) == {i \in 1..Len(r.prev) : r.prev[i].foreign = pub}
Oldest(S) == CHOOSE i \in S : \A j \in S : i <= j

(* Message.Decrypt: the current ratchet, a previous one, or a new turn.  A *)
(* previous ratchet is a copy that shares only the map of skipped keys.    *)
Decrypt(r, m) ==
  IF r.cur.foreign = m.pub
  THEN LET d == DecryptChain(r.cur, m.index, m.key) IN
       [ratchet |-> [r EXCEPT !.cur = d.mr], result |-> d.result]
  ELSE IF Previous(r, m.pub) # {}
  THEN LET i == Oldest(Previous(r, m.pub))
           d == DecryptChain(r.prev[i], m.index, m.key) IN
       [ratchet |-> [r EXCEPT !.prev[i].skipped = d.mr.skipped], result |-> d.result]
  ELSE LET t == [RKCycle(r, m.pub) EXCEPT !.state = "Receiving"]
           d == DecryptChain(t.cur, m.index, m.key) IN
       [ratchet |-> [t EXCEPT !.cur = d.mr], result |-> d.result]
=============================================================================
