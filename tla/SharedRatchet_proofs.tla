------------------------- MODULE SharedRatchet_proofs -------------------------
(***************************************************************************)
(* Proofs about SharedRatchet, for any limits of the ratchet and any       *)
(* number of messages and restarts.  The invariants are proved one on top  *)
(* of the other: the types, with what each goroutine has at each place;    *)
(* when the two have met; how far a chain and its index are apart; which   *)
(* root keys are written on and how far the chains in use have gone.       *)
(*                                                                         *)
(* The last two say nothing any more once one of the mishaps they name has *)
(* happened, as the properties do: what they say is false then.            *)
(***************************************************************************)
EXTENDS SharedRatchet, WellFoundedInduction, TLAPS

-----------------------------------------------------------------------------
(* Types.                                                                  *)

Who == {"us", "peer", "none"}
Pairs == Who \X Nat
Roots == Seq(SUBSET Pairs)
Skips == UNION {[S -> Int] : S \in SUBSET Nat}
Lasts == Nat \cup {-1}

(* A MessageRatchet, a row of those kept, the DHRatchet in a heap of n, and *)
(* the ratchet as it is saved.                                             *)
Objects == [foreign : Pairs, root : Roots, chain : Nat, last : Lasts, skipped : Skips]
Copies(n) == [id : 1..n, copy : Objects]
States == {"Sending", "Receiving"}
DHs(n) == [keyPair : Pairs, root : Roots, cur : 1..n, prev : Seq(Copies(n)), index : Nat, state : States]
SavedCopies == [copy : Objects, skipped : Skips]
Snapshots == [keyPair : Pairs, root : Roots, cur : Objects, prev : Seq(SavedCopies), index : Nat, state : States]
Rows == [ratchet : Snapshots, whole : BOOLEAN, posted : Nat, read : SUBSET Pairs]

Messages == [name : Pairs, pub : Pairs, index : Nat, key : Roots \X Nat]
Works(n) == [msg : Messages \cup {NoMessage}, mr : 0..n, pos : Nat, i : Nat, root : Roots, foreign : Pairs,
             row : Rows \cup {<<>>}]

Matching == {"match", "check", "skip", "skipping", "next", "advance"}
Sealing == {"encrypt", "cycle", "seal"}
Places == Matching \cup Sealing \cup {"turn", "idle", "post", "await", "record", "marshal", "exec"}

MemoryTyped == obj \in Seq(Objects) /\ dh \in DHs(Len(obj))

(* A goroutine at a place with its local variables, in a heap of n.        *)
WorkOK(g, place, l, n) ==
  /\ place \in Places /\ l \in Works(n)
  /\ place = "idle" => l = NoWork
  /\ place \in {"check", "skip", "skipping", "next", "advance", "cycle", "seal"} => l.mr # 0
  /\ place \notin {"idle", "turn"} \cup Sealing => l.msg \in Messages
  /\ g = "listener" /\ place # "idle" => l.msg \in Messages /\ place \notin Sealing \cup {"post", "await"}
  /\ place = "exec" => l.row \in Rows

WorkTyped ==
  /\ pc \in [Threads -> Places] /\ local \in [Threads -> Works(Len(obj))]
  /\ \A g \in Threads : WorkOK(g, pc[g], local[g], Len(obj))

PeerTyped == peer \in [ratchet : Ratchets(Pairs), sends : Nat, made : Nat, seen : Nat, read : SUBSET Pairs]

NetTyped ==
  /\ phase \in {"offline", "online", "asked", "fetched", "chat"}
  /\ todo \in Seq(Messages) /\ pushed \in Seq(Messages) /\ box \in Seq(Messages) /\ outbox \in Seq(Messages)
  /\ stuck \subseteq {"us", "peer"} /\ restarts \in Nat
  /\ PeerTyped

DbTyped ==
  /\ history \subseteq [key : Who \X Nat \X Nat, name : Pairs]
  /\ saved \in Rows
  /\ read \subseteq Pairs /\ acked \subseteq Pairs /\ sends \in Nat

Typed == MemoryTyped /\ WorkTyped /\ NetTyped /\ DbTyped

-----------------------------------------------------------------------------
(* The operators of Ratchet.                                               *)

Less == {ss \in Nat \X Nat : ss[1] < ss[2]}
LEMMA LessIsWellFounded == IsWellFoundedOn(Less, Nat)
<1>1. IsWellFoundedOn({ss \in Nat \X Nat : ss[1] < ss[2]}, Nat) BY Zenon, NatLessThanWellFounded DEF OpToRel
<1> QED BY <1>1 DEF Less

(* What is remembered was there before or is the new one.                  *)
ComesFrom(r, prev, c) == \A i \in 1..Len(r) : r[i] = c \/ \E j \in 1..Len(prev) : r[i] = prev[j]

LEMMA Remembered ==
  ASSUME NEW C, NEW prev \in Seq(C), NEW c \in C, NEW r, r = Remember(prev, c)
  PROVE  r \in Seq(C) /\ ComesFrom(r, prev, c)
<1>1. PICK s : s = Append(prev, c) OBVIOUS
<1>2. s \in Seq(C) /\ Len(s) = Len(prev) + 1 /\ Len(prev) \in Nat /\ PrevLimit \in Nat
      /\ \A i \in 1..Len(s) : s[i] = c \/ (i \in 1..Len(prev) /\ s[i] = prev[i])
  BY <1>1, LimitAssumption
<1>3. CASE Len(s) > PrevLimit
  <2>1. PICK k : k = Len(s) - PrevLimit + 1 OBVIOUS
  <2>2. k \in 1..(Len(s) + 1) BY <1>2, <1>3, <2>1
  <2>3. PICK t : t = SubSeq(s, k, Len(s)) OBVIOUS
  <2>4. t \in Seq(C) /\ Len(t) = Len(s) - k + 1 /\ \A i \in 1..Len(t) : t[i] = s[k + i - 1]
    BY <1>2, <2>2, <2>3
  <2>5. \A i \in 1..Len(t) : k + i - 1 \in 1..Len(s) BY <1>2, <2>2, <2>4
  <2>6. Remember(prev, c) = t BY <1>1, <1>3, <2>1, <2>3 DEF Remember
  <2>7. \A i \in 1..Len(t) : t[i] = c \/ \E j \in 1..Len(prev) : t[i] = prev[j]
    BY <1>2, <2>4, <2>5
  <2> QED BY <2>4, <2>6, <2>7 DEF ComesFrom
<1>4. CASE ~ (Len(s) > PrevLimit)
  <2>1. Remember(prev, c) = s BY <1>1, <1>4 DEF Remember
  <2> QED BY <1>2, <2>1 DEF ComesFrom
<1> QED BY <1>3, <1>4

LEMMA ChainMoves ==
  ASSUME NEW K, NEW c \in Chains(K), NEW i \in Nat, NEW key,
         NEW d, d = DecryptChain(c, i, key)
  PROVE  d.mr \in Chains(K) /\ d.mr.foreign = c.foreign /\ d.mr.root = c.root /\ d.mr.next >= c.next
<1>1. c.next \in Nat /\ c.skipped \in SUBSET Nat /\ c = [foreign |-> c.foreign, root |-> c.root, next |-> c.next, skipped |-> c.skipped]
      /\ c.foreign \in K /\ c.root \in Seq(SUBSET K)
  BY DEF Chains
<1>2. CASE i \in c.skipped
  <2>1. d.mr = [foreign |-> c.foreign, root |-> c.root, next |-> c.next, skipped |-> c.skipped \ {i}]
    BY <1>1, <1>2 DEF DecryptChain
  <2> QED BY <1>1, <2>1 DEF Chains
<1>3. CASE i \notin c.skipped /\ (i < c.next \/ i - c.next > MaxSkip)
  <2>1. d.mr = c BY <1>1, <1>3 DEF DecryptChain
  <2> QED BY <1>1, <2>1
<1>4. CASE i \notin c.skipped /\ ~ (i < c.next \/ i - c.next > MaxSkip)
  <2>1. d.mr = [foreign |-> c.foreign, root |-> c.root, next |-> i + 1,
                skipped |-> c.skipped \cup (c.next..(i - 1))]
    BY <1>1, <1>4 DEF DecryptChain
  <2>3. i + 1 \in Nat /\ i + 1 >= c.next BY <1>1, <1>4
  <2>4. c.next..(i - 1) \in SUBSET Nat BY <1>1
  <2> QED BY <1>1, <2>1, <2>3, <2>4 DEF Chains
<1> QED BY <1>2, <1>3, <1>4

LEMMA PlaceReplaced ==
  ASSUME NEW C, NEW s \in Seq(C), NEW x \in C, NEW i \in 1..Len(s)
  PROVE  [s EXCEPT ![i] = x] \in Seq(C) /\ Len([s EXCEPT ![i] = x]) = Len(s)
OBVIOUS

LEMMA RatchetShape ==
  ASSUME NEW K, NEW r \in Ratchets(K)
  PROVE  /\ r = [keyPair |-> r.keyPair, cur |-> r.cur, prev |-> r.prev, index |-> r.index, state |-> r.state]
         /\ r.keyPair \in K /\ r.cur \in Chains(K) /\ r.prev \in Seq(Chains(K)) /\ r.index \in Nat
         /\ r.state \in {"Sending", "Receiving"}
         /\ r.cur = [foreign |-> r.cur.foreign, root |-> r.cur.root, next |-> r.cur.next, skipped |-> r.cur.skipped]
         /\ r.cur.foreign \in K /\ r.cur.root \in Seq(SUBSET K) /\ r.cur.next \in Nat
         /\ r.cur.skipped \in SUBSET Nat
BY DEF Ratchets, Chains

(* A turn adds one secret to the root.                                     *)
LEMMA Turns ==
  ASSUME NEW K, NEW r \in Ratchets(K), NEW foreign \in K, NEW t, t = RKCycle(r, foreign)
  PROVE  /\ t \in Ratchets(K) /\ t.keyPair = r.keyPair /\ t.state = r.state
         /\ t.cur = NewMessageRatchet(Append(r.cur.root, Secret(r.keyPair, foreign)), foreign)
<1>1. PICK s : s = Remember(r.prev, r.cur) OBVIOUS
<1>2. r.keyPair \in K /\ r.cur \in Chains(K) /\ r.prev \in Seq(Chains(K)) /\ r.index \in Nat /\ r.state \in {"Sending", "Receiving"}
      /\ r.cur.root \in Seq(SUBSET K)
  BY RatchetShape
<1>3. s \in Seq(Chains(K)) BY <1>1, <1>2, Remembered
<1>4. PICK root : root = Append(r.cur.root, Secret(r.keyPair, foreign)) OBVIOUS
<1>5. root \in Seq(SUBSET K) BY <1>2, <1>4 DEF Secret
<1>6. PICK mr : mr = NewMessageRatchet(root, foreign) OBVIOUS
<1>7. mr \in Chains(K) BY <1>5, <1>6 DEF NewMessageRatchet, Chains
<1>8. t = [keyPair |-> r.keyPair, cur |-> mr, prev |-> s, index |-> r.index + 1, state |-> r.state]
  BY <1>1, <1>4, <1>6 DEF RKCycle, Ratchets
<1> QED BY <1>2, <1>3, <1>4, <1>6, <1>7, <1>8 DEF Ratchets

LEMMA Decrypts ==
  ASSUME NEW K, NEW r \in Ratchets(K), NEW m, m.pub \in K, m.index \in Nat, NEW d, d = Decrypt(r, m)
  PROVE  /\ d.ratchet \in Ratchets(K) /\ d.ratchet.keyPair = r.keyPair
         /\ \/ /\ d.ratchet.state = r.state /\ d.ratchet.cur.root = r.cur.root
               /\ d.ratchet.cur.foreign = r.cur.foreign /\ d.ratchet.cur.next >= r.cur.next
            \/ /\ d.ratchet.state = "Receiving" /\ d.ratchet.cur.foreign = m.pub
               /\ d.ratchet.cur.root = Append(r.cur.root, Secret(r.keyPair, m.pub))
<1>3. r.cur \in Chains(K) /\ r.prev \in Seq(Chains(K)) /\ r.cur.next \in Nat /\ r.keyPair \in K
      /\ r.state \in {"Sending", "Receiving"} /\ r.index \in Nat
      /\ r = [keyPair |-> r.keyPair, cur |-> r.cur, prev |-> r.prev, index |-> r.index, state |-> r.state]
  BY RatchetShape
<1>4. CASE r.cur.foreign = m.pub
  <2>1. PICK e : e = DecryptChain(r.cur, m.index, m.key) OBVIOUS
  <2>2. e.mr \in Chains(K) /\ e.mr.foreign = r.cur.foreign /\ e.mr.root = r.cur.root /\ e.mr.next >= r.cur.next
    BY <1>3, <2>1, ChainMoves
  <2>3. d.ratchet = [r EXCEPT !.cur = e.mr] BY <1>4, <2>1 DEF Decrypt
  <2>4. d.ratchet = [keyPair |-> r.keyPair, cur |-> e.mr, prev |-> r.prev, index |-> r.index, state |-> r.state]
    BY <1>3, <2>3
  <2> QED BY <1>3, <2>2, <2>4 DEF Ratchets
<1>5. CASE r.cur.foreign # m.pub /\ Previous(r, m.pub) # {}
  <2>1. PICK i : i = Oldest(Previous(r, m.pub)) OBVIOUS
  <2>2. PICK e : e = DecryptChain(r.prev[i], m.index, m.key) OBVIOUS
  <2>3. d.ratchet = [r EXCEPT !.prev[i].skipped = e.mr.skipped] BY <1>5, <2>1, <2>2 DEF Decrypt
  <2>4. PICK prev : prev = [r.prev EXCEPT ![i].skipped = e.mr.skipped] OBVIOUS
  <2>5. prev \in Seq(Chains(K))
    <3>1. CASE i \in 1..Len(r.prev)
      <4>1. r.prev[i] \in Chains(K) BY <1>3, <3>1
      <4>2. e.mr \in Chains(K) BY <2>2, <4>1, ChainMoves
      <4>3. e.mr.skipped \in SUBSET Nat BY <4>2 DEF Chains
      <4>4. [r.prev[i] EXCEPT !.skipped = e.mr.skipped] \in Chains(K) BY <4>1, <4>3 DEF Chains
      <4>5. prev = [r.prev EXCEPT ![i] = [r.prev[i] EXCEPT !.skipped = e.mr.skipped]] BY <2>4
      <4> QED BY <1>3, <3>1, <4>4, <4>5, PlaceReplaced
    <3>2. CASE i \notin 1..Len(r.prev)
      <4>1. DOMAIN r.prev = 1..Len(r.prev) /\ r.prev = [j \in DOMAIN r.prev |-> r.prev[j]] BY <1>3
      <4>2. prev = r.prev BY <2>4, <3>2, <4>1
      <4> QED BY <1>3, <4>2
    <3> QED BY <3>1, <3>2
  <2>6. d.ratchet = [keyPair |-> r.keyPair, cur |-> r.cur, prev |-> prev, index |-> r.index, state |-> r.state]
    BY <1>3, <2>3, <2>4
  <2> QED BY <1>3, <2>5, <2>6 DEF Ratchets
<1>6. CASE r.cur.foreign # m.pub /\ Previous(r, m.pub) = {}
  <2>1. PICK u : u = RKCycle(r, m.pub) OBVIOUS
  <2>2. /\ u \in Ratchets(K) /\ u.keyPair = r.keyPair
        /\ u.cur = NewMessageRatchet(Append(r.cur.root, Secret(r.keyPair, m.pub)), m.pub)
    BY <2>1, Turns
  <2>3. PICK e : e = DecryptChain(u.cur, m.index, m.key) OBVIOUS
  <2>4. u.cur \in Chains(K) /\ u.prev \in Seq(Chains(K)) /\ u.index \in Nat
        /\ u = [keyPair |-> u.keyPair, cur |-> u.cur, prev |-> u.prev, index |-> u.index, state |-> u.state]
    BY <2>2, RatchetShape
  <2>5. e.mr \in Chains(K) /\ e.mr.foreign = u.cur.foreign /\ e.mr.root = u.cur.root BY <2>3, <2>4, ChainMoves
  <2>6. d.ratchet = [[u EXCEPT !.state = "Receiving"] EXCEPT !.cur = e.mr]
    <3>1. [u EXCEPT !.state = "Receiving"].cur = u.cur BY <2>4
    <3> QED BY <1>6, <2>1, <2>3, <3>1 DEF Decrypt
  <2>7. d.ratchet = [keyPair |-> r.keyPair, cur |-> e.mr, prev |-> u.prev, index |-> u.index, state |-> "Receiving"]
    BY <2>2, <2>4, <2>6
  <2>8. u.cur.foreign = m.pub /\ u.cur.root = Append(r.cur.root, Secret(r.keyPair, m.pub))
    BY <2>2 DEF NewMessageRatchet
  <2> QED BY <1>3, <2>4, <2>5, <2>7, <2>8 DEF Ratchets
<1> QED BY <1>4, <1>5, <1>6

LEMMA Encrypts ==
  ASSUME NEW K, NEW r \in Ratchets(K), NEW fresh \in K, NEW e, e = Encrypt(r, fresh)
  PROVE  /\ e.ratchet \in Ratchets(K) /\ e.ratchet.state = "Sending" /\ e.ratchet.cur.foreign = r.cur.foreign
         /\ e.index \in Nat /\ e.ratchet.cur.next = e.index + 1
         /\ e.pub = e.ratchet.keyPair /\ e.key = <<e.ratchet.cur.root, e.index>>
         /\ \/ /\ r.state = "Sending" /\ e.ratchet.keyPair = r.keyPair
               /\ e.ratchet.cur.root = r.cur.root /\ e.index = r.cur.next
            \/ /\ r.state = "Receiving" /\ e.ratchet.keyPair = fresh /\ e.index = 0
               /\ e.ratchet.cur.root = Append(r.cur.root, Secret(fresh, r.cur.foreign))
<1>1. PICK t : t = Turn(r, fresh) OBVIOUS
<1>2. /\ r.state \in {"Sending", "Receiving"} /\ r.cur.foreign \in K
      /\ r = [keyPair |-> r.keyPair, cur |-> r.cur, prev |-> r.prev, index |-> r.index, state |-> r.state]
  BY RatchetShape
<1>3. /\ t \in Ratchets(K) /\ t.state = "Sending" /\ t.cur.foreign = r.cur.foreign
      /\ \/ /\ r.state = "Sending" /\ t.keyPair = r.keyPair /\ t.cur.root = r.cur.root /\ t.cur.next = r.cur.next
         \/ /\ r.state = "Receiving" /\ t.keyPair = fresh /\ t.cur.next = 0
            /\ t.cur.root = Append(r.cur.root, Secret(fresh, r.cur.foreign))
  <2>1. CASE r.state = "Sending" BY <1>1, <2>1 DEF Turn
  <2>2. CASE r.state = "Receiving"
    <3>1. PICK s : s = [r EXCEPT !.state = "Sending", !.keyPair = fresh] OBVIOUS
    <3>2. s = [keyPair |-> fresh, cur |-> r.cur, prev |-> r.prev, index |-> r.index, state |-> "Sending"]
      BY <1>2, <3>1
    <3>3. s \in Ratchets(K) BY <3>2, RatchetShape DEF Ratchets
    <3>4. t = RKCycle(s, r.cur.foreign) BY <1>1, <2>2, <3>1 DEF Turn
    <3>5. /\ t \in Ratchets(K) /\ t.keyPair = fresh /\ t.state = "Sending"
          /\ t.cur = NewMessageRatchet(Append(r.cur.root, Secret(fresh, r.cur.foreign)), r.cur.foreign)
      BY <1>2, <3>2, <3>3, <3>4, Turns
    <3> QED BY <2>2, <3>5 DEF NewMessageRatchet
  <2> QED BY <1>2, <2>1, <2>2
<1>4. /\ t = [keyPair |-> t.keyPair, cur |-> t.cur, prev |-> t.prev, index |-> t.index, state |-> t.state]
      /\ t.keyPair \in K /\ t.prev \in Seq(Chains(K)) /\ t.index \in Nat
      /\ t.cur = [foreign |-> t.cur.foreign, root |-> t.cur.root, next |-> t.cur.next, skipped |-> t.cur.skipped]
      /\ t.cur.foreign \in K /\ t.cur.root \in Seq(SUBSET K) /\ t.cur.next \in Nat /\ t.cur.skipped \in SUBSET Nat
  BY <1>3, RatchetShape
<1>5. PICK c : c = [foreign |-> t.cur.foreign, root |-> t.cur.root, next |-> t.cur.next + 1, skipped |-> t.cur.skipped]
  OBVIOUS
<1>6. c \in Chains(K) BY <1>4, <1>5 DEF Chains
<1>7. /\ e.ratchet = [keyPair |-> t.keyPair, cur |-> c, prev |-> t.prev, index |-> t.index, state |-> t.state]
      /\ e.pub = t.keyPair /\ e.index = t.cur.next /\ e.key = <<t.cur.root, t.cur.next>>
  BY <1>1, <1>4, <1>5 DEF Encrypt, MessageKey
<1>8. e.ratchet \in Ratchets(K) BY <1>3, <1>4, <1>6, <1>7 DEF Ratchets
<1> QED BY <1>3, <1>4, <1>5, <1>7, <1>8

-----------------------------------------------------------------------------
(* Steps.                                                                  *)

(* Object k has another chain key and index, and nothing else of it that   *)
(* matters here; no other object is touched.                               *)
Moves(k, chain, last) ==
  /\ obj' \in Seq(Objects) /\ Len(obj') = Len(obj) /\ k \in 1..Len(obj)
  /\ \A i \in 1..Len(obj) : i # k => obj'[i] = obj[i]
  /\ obj'[k].foreign = obj[k].foreign /\ obj'[k].root = obj[k].root
  /\ obj'[k].chain = chain /\ obj'[k].last = last

(* Goroutine g gets to a place, the other stays.                           *)
Goes(g, place, l) ==
  /\ pc'[g] = place /\ local'[g] = l
  /\ \A h \in Threads \ {g} : pc'[h] = pc[h] /\ local'[h] = local[h]

LEMMA ObjectShape ==
  ASSUME NEW o \in Objects
  PROVE  /\ o = [foreign |-> o.foreign, root |-> o.root, chain |-> o.chain, last |-> o.last, skipped |-> o.skipped]
         /\ o.foreign \in Pairs /\ o.root \in Roots /\ o.chain \in Nat /\ o.last \in Lasts /\ o.skipped \in Skips
BY DEF Objects

LEMMA ObjectMade ==
  ASSUME NEW f \in Pairs, NEW r \in Roots, NEW c \in Nat, NEW n \in Lasts, NEW s \in Skips
  PROVE  [foreign |-> f, root |-> r, chain |-> c, last |-> n, skipped |-> s] \in Objects
BY DEF Objects

LEMMA LastsAre == \A n \in Lasts : n \in Int /\ n + 1 \in Nat /\ n >= -1
BY DEF Lasts

LEMMA SkipsAre ==
  ASSUME NEW D \in SUBSET Nat, NEW f, f = [i \in D |-> f[i]], \A i \in D : f[i] \in Int
  PROVE  f \in Skips
<1>1. f \in [D -> Int] OBVIOUS
<1> QED BY <1>1 DEF Skips

LEMMA SkipsShape ==
  ASSUME NEW s \in Skips
  PROVE  DOMAIN s \in SUBSET Nat /\ \A i \in DOMAIN s : s[i] \in Int
BY DEF Skips

LEMMA WorkShape ==
  ASSUME NEW n \in Nat, NEW l \in Works(n)
  PROVE  /\ l = [msg |-> l.msg, mr |-> l.mr, pos |-> l.pos, i |-> l.i, root |-> l.root, foreign |-> l.foreign,
                 row |-> l.row]
         /\ l.msg \in Messages \cup {NoMessage} /\ l.mr \in 0..n /\ l.pos \in Nat /\ l.i \in Nat /\ l.root \in Roots
         /\ l.foreign \in Pairs /\ l.row \in Rows \cup {<<>>}
BY DEF Works

LEMMA WorkMade ==
  ASSUME NEW n \in Nat, NEW m \in Messages \cup {NoMessage}, NEW mr \in 0..n, NEW pos \in Nat, NEW i \in Nat,
         NEW root \in Roots, NEW foreign \in Pairs, NEW row \in Rows \cup {<<>>}
  PROVE  [msg |-> m, mr |-> mr, pos |-> pos, i |-> i, root |-> root, foreign |-> foreign, row |-> row]
           \in Works(n)
BY DEF Works

LEMMA MessageShape ==
  ASSUME NEW m \in Messages \cup {NoMessage}
  PROVE  /\ m.name \in Pairs /\ m.pub \in Pairs /\ m.index \in Nat
         /\ m \in Messages => m.key \in Roots \X Nat
BY DEF Messages, NoMessage, Key, Pairs, Who

LEMMA NoWorkTyped ==
  /\ NoWork = [msg |-> NoMessage, mr |-> 0, pos |-> 0, i |-> 0, root |-> <<>>, foreign |-> NoMessage.pub,
               row |-> <<>>]
  /\ \A n \in Nat : NoWork \in Works(n)
<1>1. NoMessage.pub \in Pairs BY MessageShape
<1>2. <<>> \in Roots BY DEF Roots
<1> QED BY <1>1, <1>2, WorkMade DEF NoWork

LEMMA SetsOut ==
  ASSUME WorkTyped, NEW g \in Threads, NEW place, NEW l, Go(g, place, l)
  PROVE  Goes(g, place, l)
BY DEF WorkTyped, Go, Goes

LEMMA SetGoes ==
  ASSUME WorkTyped, NEW g \in Threads, NEW place, NEW l, Set(g, place, l)
  PROVE  Goes(g, place, l)
BY SetsOut DEF Set

LEMMA GoTyped ==
  ASSUME WorkTyped, Len(obj) \in Nat, NEW g \in Threads, NEW place, NEW l, Go(g, place, l),
         Len(obj') \in Nat, Len(obj) <= Len(obj'), WorkOK(g, place, l, Len(obj'))
  PROVE  WorkTyped'
<1>1. Works(Len(obj)) \subseteq Works(Len(obj')) BY DEF Works
<1>2. \A h, q, w : WorkOK(h, q, w, Len(obj)) => WorkOK(h, q, w, Len(obj'))
  BY <1>1 DEF WorkOK
<1>3. pc' \in [Threads -> Places] /\ local' \in [Threads -> Works(Len(obj'))]
  BY <1>1 DEF WorkTyped, Go, WorkOK
<1>4. ASSUME NEW h \in Threads PROVE WorkOK(h, pc'[h], local'[h], Len(obj'))
  BY <1>2, SetsOut DEF WorkTyped, Goes
<1> QED BY <1>3, <1>4 DEF WorkTyped

LEMMA SetTyped ==
  ASSUME WorkTyped, Len(obj) \in Nat, NEW g \in Threads, NEW place, NEW l, Set(g, place, l),
         Len(obj') \in Nat, Len(obj) <= Len(obj'), WorkOK(g, place, l, Len(obj'))
  PROVE  WorkTyped'
BY GoTyped DEF Set

LEMMA SetStays ==
  ASSUME WorkTyped, UNCHANGED obj, NEW g \in Threads, NEW place, NEW l, Set(g, place, l),
         Len(obj) \in Nat, WorkOK(g, place, l, Len(obj))
  PROVE  WorkTyped'
BY SetTyped

LEMMA Finished ==
  ASSUME WorkTyped, NEW g \in Threads, Finish(g), Len(obj) \in Nat, Len(obj') \in Nat, Len(obj) <= Len(obj')
  PROVE  WorkTyped'
<1>1. WorkOK(g, "idle", NoWork, Len(obj')) BY NoWorkTyped DEF WorkOK, Places
<1> QED BY <1>1, SetTyped DEF Finish

LEMMA NetStays == NetTyped /\ UNCHANGED netVars => NetTyped'
BY DEF NetTyped, PeerTyped, netVars

LEMMA MemoryStays == MemoryTyped /\ UNCHANGED memory => MemoryTyped'
BY DEF MemoryTyped, memory

LEMMA DbStays == DbTyped /\ UNCHANGED <<dbVars, read, acked, sends>> => DbTyped'
BY DEF DbTyped, dbVars

(* What is known of the memory.                                            *)
LEMMA MemoryShape ==
  ASSUME MemoryTyped
  PROVE  /\ Len(obj) \in Nat /\ dh.cur \in 1..Len(obj)
         /\ \A k \in 1..Len(obj) : obj[k] \in Objects
         /\ dh = [keyPair |-> dh.keyPair, root |-> dh.root, cur |-> dh.cur, prev |-> dh.prev, index |-> dh.index,
                  state |-> dh.state]
         /\ dh.keyPair \in Pairs /\ dh.root \in Roots /\ dh.prev \in Seq(Copies(Len(obj))) /\ dh.index \in Nat
         /\ dh.state \in States
         /\ \A j \in 1..Len(dh.prev) : dh.prev[j].id \in 1..Len(obj) /\ dh.prev[j].copy \in Objects
<1>1. /\ Len(obj) \in Nat /\ dh.cur \in 1..Len(obj)
      /\ \A k \in 1..Len(obj) : obj[k] \in Objects
      /\ dh = [keyPair |-> dh.keyPair, root |-> dh.root, cur |-> dh.cur, prev |-> dh.prev, index |-> dh.index,
               state |-> dh.state]
      /\ dh.keyPair \in Pairs /\ dh.root \in Roots /\ dh.prev \in Seq(Copies(Len(obj))) /\ dh.index \in Nat
      /\ dh.state \in States
  BY DEF MemoryTyped, DHs
<1>2. \A j \in 1..Len(dh.prev) : dh.prev[j] \in Copies(Len(obj)) BY <1>1
<1> QED BY <1>1, <1>2 DEF Copies

LEMMA Replaces ==
  ASSUME MemoryTyped, NEW k \in 1..Len(obj), NEW o \in Objects, obj' = [obj EXCEPT ![k] = o],
         o.foreign = obj[k].foreign, o.root = obj[k].root
  PROVE  Moves(k, o.chain, o.last)
<1>1. obj \in Seq(Objects) BY DEF MemoryTyped
<1>2. obj' \in Seq(Objects) /\ Len(obj') = Len(obj) BY <1>1, PlaceReplaced
<1>3. obj'[k] = o /\ \A i \in 1..Len(obj) : i # k => obj'[i] = obj[i] BY <1>1
<1> QED BY <1>2, <1>3 DEF Moves

LEMMA MovesTyped ==
  ASSUME MemoryTyped, NEW k, NEW c, NEW n, Moves(k, c, n), UNCHANGED dh
  PROVE  MemoryTyped'
BY DEF MemoryTyped, Moves

(* Where a goroutine works it has an object.                               *)
LEMMA WorkAt ==
  ASSUME MemoryTyped, WorkTyped, NEW g \in Threads,
         pc[g] \in {"check", "skip", "skipping", "next", "advance", "cycle", "seal"}
  PROVE  local[g].mr \in 1..Len(obj) /\ obj[local[g].mr] \in Objects
<1>1. local[g].mr # 0 /\ local[g].mr \in 0..Len(obj) /\ Len(obj) \in Nat
  BY MemoryShape, WorkShape DEF WorkTyped, WorkOK
<1> QED BY <1>1, MemoryShape

LEMMA UseSkippedMoves ==
  ASSUME MemoryTyped, WorkTyped, NEW g \in Threads, UseSkipped(g)
  PROVE  Moves(local[g].mr, obj[local[g].mr].chain, obj[local[g].mr].last)
<1>1. PICK k : k = local[g].mr OBVIOUS
<1>2. k \in 1..Len(obj) /\ obj[k] \in Objects BY <1>1, WorkAt DEF UseSkipped
<1>3. PICK mr : mr = obj[k] OBVIOUS
<1>4. PICK x : x = local[g].msg.index OBVIOUS
<1>5. PICK s : s = [i \in DOMAIN mr.skipped \ {x} |-> mr.skipped[i]] OBVIOUS
<1>6. DOMAIN mr.skipped \in SUBSET Nat /\ \A i \in DOMAIN mr.skipped : mr.skipped[i] \in Int
  BY <1>2, <1>3, ObjectShape, SkipsShape
<1>7. s \in Skips
  <2>1. s = [i \in DOMAIN mr.skipped \ {x} |-> s[i]] /\ DOMAIN mr.skipped \ {x} \in SUBSET Nat
        /\ \A i \in DOMAIN mr.skipped \ {x} : s[i] \in Int
    BY <1>5, <1>6
  <2> QED BY <2>1, SkipsAre
<1>8. PICK o : o = [foreign |-> mr.foreign, root |-> mr.root, chain |-> mr.chain, last |-> mr.last, skipped |-> s]
  OBVIOUS
<1>9. o \in Objects BY <1>2, <1>3, <1>7, <1>8, ObjectShape, ObjectMade
<1>10. obj' = [obj EXCEPT ![k] = o]
  <2>1. obj' = [obj EXCEPT ![k].skipped = [i \in DOMAIN @ \ {x} |-> @[i]]] BY <1>1, <1>4 DEF UseSkipped
  <2>2. [mr EXCEPT !.skipped = s] = o BY <1>2, <1>3, <1>8, ObjectShape
  <2>3. obj' = [obj EXCEPT ![k] = [mr EXCEPT !.skipped = s]] BY <1>3, <1>5, <2>1
  <2> QED BY <2>2, <2>3
<1> QED BY <1>1, <1>2, <1>3, <1>8, <1>9, <1>10, Replaces

LEMMA SkipWriteMoves ==
  ASSUME MemoryTyped, WorkTyped, NEW g \in Threads, SkipWrite(g)
  PROVE  Moves(local[g].mr, local[g].pos + 1, obj[local[g].mr].last)
<1>1. PICK k : k = local[g].mr OBVIOUS
<1>2. k \in 1..Len(obj) /\ obj[k] \in Objects BY <1>1, WorkAt DEF SkipWrite
<1>3. PICK mr : mr = obj[k] OBVIOUS
<1>4. PICK x, y : x = local[g].i /\ y = local[g].pos OBVIOUS
<1>0. x \in Nat /\ y \in Nat BY <1>4, WorkShape, MemoryShape DEF WorkTyped
<1>5. PICK s : s = [i \in DOMAIN mr.skipped \cup {x} |-> IF i = x THEN y ELSE mr.skipped[i]] OBVIOUS
<1>6. DOMAIN mr.skipped \in SUBSET Nat /\ \A i \in DOMAIN mr.skipped : mr.skipped[i] \in Int
  BY <1>2, <1>3, ObjectShape, SkipsShape
<1>7. s \in Skips
  <2>1. s = [i \in DOMAIN mr.skipped \cup {x} |-> s[i]] /\ DOMAIN mr.skipped \cup {x} \in SUBSET Nat
        /\ \A i \in DOMAIN mr.skipped \cup {x} : s[i] \in Int
    BY <1>0, <1>5, <1>6
  <2> QED BY <2>1, SkipsAre
<1>8. PICK o : o = [foreign |-> mr.foreign, root |-> mr.root, chain |-> y + 1, last |-> mr.last, skipped |-> s]
  OBVIOUS
<1>9. o \in Objects
  <2>1. y + 1 \in Nat BY <1>0
  <2> QED BY <1>2, <1>3, <1>7, <1>8, <2>1, ObjectShape, ObjectMade
<1>10. obj' = [obj EXCEPT ![k] = o]
  <2>1. obj' = [obj EXCEPT ![k].chain = y + 1, ![k].skipped = s] BY <1>1, <1>3, <1>4, <1>5 DEF SkipWrite
  <2>2. [[mr EXCEPT !.chain = y + 1] EXCEPT !.skipped = s] = o
    <3>2. PICK e : e = [mr EXCEPT !.chain = y + 1] OBVIOUS
    <3>1. e = [foreign |-> mr.foreign, root |-> mr.root, chain |-> y + 1, last |-> mr.last, skipped |-> mr.skipped]
      BY <1>2, <1>3, <3>2, ObjectShape
    <3>3. [e EXCEPT !.skipped = s] = o BY <1>8, <3>1
    <3> QED BY <3>2, <3>3
  <2>3. obj' = [obj EXCEPT ![k] = [[mr EXCEPT !.chain = y + 1] EXCEPT !.skipped = s]]
    BY <1>2, <1>3, <2>1 DEF MemoryTyped
  <2> QED BY <2>2, <2>3
<1> QED BY <1>1, <1>2, <1>3, <1>4, <1>8, <1>9, <1>10, Replaces

LEMMA AdvanceMoves ==
  ASSUME MemoryTyped, WorkTyped, NEW g \in Threads, Advance(g)
  PROVE  Moves(local[g].mr, local[g].pos + 1, local[g].msg.index)
<1>1. PICK k, x, y : k = local[g].mr /\ x = local[g].pos + 1 /\ y = local[g].msg.index OBVIOUS
<1>2. k \in 1..Len(obj) /\ obj[k] \in Objects BY <1>1, WorkAt DEF Advance
<1>3. PICK mr : mr = obj[k] OBVIOUS
<1>4. x \in Nat /\ y \in Lasts
  <2>1. local[g].pos \in Nat /\ local[g].msg.index \in Nat BY WorkShape, MemoryShape, MessageShape DEF WorkTyped
  <2> QED BY <1>1, <2>1 DEF Lasts
<1>8. PICK o : o = [foreign |-> mr.foreign, root |-> mr.root, chain |-> x, last |-> y, skipped |-> mr.skipped]
  OBVIOUS
<1>9. o \in Objects BY <1>2, <1>3, <1>4, <1>8, ObjectShape, ObjectMade
<1>10. obj' = [obj EXCEPT ![k] = o]
  <2>1. obj' = [obj EXCEPT ![k].chain = x, ![k].last = y] BY <1>1 DEF Advance
  <2>2. [[mr EXCEPT !.chain = x] EXCEPT !.last = y] = o
    <3>2. PICK e : e = [mr EXCEPT !.chain = x] OBVIOUS
    <3>1. e = [foreign |-> mr.foreign, root |-> mr.root, chain |-> x, last |-> mr.last, skipped |-> mr.skipped]
      BY <1>2, <1>3, <3>2, ObjectShape
    <3>3. [e EXCEPT !.last = y] = o BY <1>8, <3>1
    <3> QED BY <3>2, <3>3
  <2>3. obj' = [obj EXCEPT ![k] = [[mr EXCEPT !.chain = x] EXCEPT !.last = y]]
    BY <1>2, <1>3, <2>1 DEF MemoryTyped
  <2> QED BY <2>2, <2>3
<1> QED BY <1>1, <1>2, <1>3, <1>8, <1>9, <1>10, Replaces

LEMMA EncryptCycleMoves ==
  ASSUME MemoryTyped, WorkTyped, EncryptCycle
  PROVE  Moves(local["main"].mr, local["main"].pos + 1, obj[local["main"].mr].last)
<1>1. PICK k, x : k = local["main"].mr /\ x = local["main"].pos + 1 OBVIOUS
<1>0. "main" \in Threads BY DEF Threads
<1>2. k \in 1..Len(obj) /\ obj[k] \in Objects BY <1>0, <1>1, WorkAt DEF EncryptCycle
<1>3. PICK mr : mr = obj[k] OBVIOUS
<1>4. x \in Nat
  <2>1. local["main"].pos \in Nat BY <1>0, WorkShape, MemoryShape DEF WorkTyped
  <2> QED BY <1>1, <2>1
<1>8. PICK o : o = [foreign |-> mr.foreign, root |-> mr.root, chain |-> x, last |-> mr.last, skipped |-> mr.skipped]
  OBVIOUS
<1>9. o \in Objects BY <1>2, <1>3, <1>4, <1>8, ObjectShape, ObjectMade
<1>10. obj' = [obj EXCEPT ![k] = o]
  <2>1. obj' = [obj EXCEPT ![k].chain = x] BY <1>1 DEF EncryptCycle
  <2>2. [mr EXCEPT !.chain = x] = o BY <1>2, <1>3, <1>8, ObjectShape
  <2> QED BY <1>3, <2>1, <2>2
<1> QED BY <1>1, <1>2, <1>3, <1>8, <1>9, <1>10, Replaces

LEMMA EncryptSealMoves ==
  ASSUME MemoryTyped, WorkTyped, EncryptSeal
  PROVE  Moves(local["main"].mr, obj[local["main"].mr].chain, local["main"].i)
<1>1. PICK k, x : k = local["main"].mr /\ x = local["main"].i OBVIOUS
<1>0. "main" \in Threads BY DEF Threads
<1>2. k \in 1..Len(obj) /\ obj[k] \in Objects BY <1>0, <1>1, WorkAt DEF EncryptSeal
<1>3. PICK mr : mr = obj[k] OBVIOUS
<1>4. x \in Lasts
  <2>1. local["main"].i \in Nat BY <1>0, WorkShape, MemoryShape DEF WorkTyped
  <2> QED BY <1>1, <2>1 DEF Lasts
<1>8. PICK o : o = [foreign |-> mr.foreign, root |-> mr.root, chain |-> mr.chain, last |-> x, skipped |-> mr.skipped]
  OBVIOUS
<1>9. o \in Objects BY <1>2, <1>3, <1>4, <1>8, ObjectShape, ObjectMade
<1>10. obj' = [obj EXCEPT ![k] = o]
  <2>1. obj' = [obj EXCEPT ![k].last = x] BY <1>1 DEF EncryptSeal
  <2>2. [mr EXCEPT !.last = x] = o BY <1>2, <1>3, <1>8, ObjectShape
  <2> QED BY <1>3, <2>1, <2>2
<1> QED BY <1>1, <1>2, <1>3, <1>8, <1>9, <1>10, Replaces

(* The row a kept key is looked up in is one of those kept.                *)
LEMMA OldestKept ==
  ASSUME MemoryTyped, NEW pub, Kept(pub) # {}
  PROVE  Oldest(Kept(pub)) \in 1..Len(dh.prev)
<1>1. Kept(pub) \subseteq 1..Len(dh.prev) /\ Len(dh.prev) \in Nat BY MemoryShape DEF Kept
<1>2. PICK T : T = Kept(pub) OBVIOUS
<1>3. T \in SUBSET Nat /\ T # {} BY <1>1, <1>2
<1>4. PICK x \in T : \A y \in T : ~ (<<y, x>> \in Less) BY <1>3, WFMin, LessIsWellFounded
<1>5. \A y \in T : x <= y
  <2> SUFFICES ASSUME NEW y \in T, ~ (x <= y) PROVE FALSE OBVIOUS
  <2>1. x \in Nat /\ y \in Nat BY <1>3
  <2>2. y < x BY <2>1
  <2>3. <<y, x>> \in Less BY <2>1, <2>2 DEF Less
  <2> QED BY <1>4, <2>3
<1>6. \A i \in T : (\A j \in T : i <= j) => i = x BY <1>3, <1>5
<1>7. Oldest(T) \in T BY <1>5, <1>6 DEF Oldest
<1> QED BY <1>1, <1>2, <1>7

LEMMA MatchPreviousMoves ==
  ASSUME MemoryTyped, WorkTyped, NEW g \in Threads, MatchPrevious(g)
  PROVE  \E k : Moves(k, obj[k].chain, obj[k].last)
<1>1. PICK m : m = local[g].msg OBVIOUS
<1>2. PICK p : p = dh.prev[Oldest(Kept(m.pub))] OBVIOUS
<1>3. p.id \in 1..Len(obj) /\ p.copy \in Objects
  BY <1>1, <1>2, OldestKept, MemoryShape DEF MatchPrevious
<1>4. PICK k : k = p.id OBVIOUS
<1>5. PICK mr : mr = obj[k] OBVIOUS
<1>6. mr \in Objects BY <1>3, <1>4, <1>5, MemoryShape
<1>7. PICK c : c = [foreign |-> p.copy.foreign, root |-> p.copy.root, next |-> p.copy.last + 1,
                    skipped |-> DOMAIN mr.skipped] OBVIOUS
<1>8. PICK d : d = DecryptChain(c, m.index, m.key) OBVIOUS
<1>9. PICK s : s = [i \in d.mr.skipped |-> IF i \in DOMAIN mr.skipped THEN mr.skipped[i]
                                           ELSE p.copy.chain + i - (p.copy.last + 1)] OBVIOUS
<1>10. m.index \in Nat BY <1>1, WorkShape, MemoryShape, MessageShape DEF WorkTyped
<1>11. p.copy.chain \in Nat /\ p.copy.last \in Int /\ p.copy.last + 1 \in Nat /\ p.copy.root \in Seq(SUBSET Pairs)
       /\ p.copy.foreign \in Pairs
  BY <1>3, ObjectShape, LastsAre DEF Roots
<1>12. DOMAIN mr.skipped \in SUBSET Nat /\ \A i \in DOMAIN mr.skipped : mr.skipped[i] \in Int
  BY <1>6, ObjectShape, SkipsShape
<1>13. c \in Chains(Pairs) BY <1>7, <1>11, <1>12 DEF Chains
<1>14. d.mr.skipped \in SUBSET Nat
  <2>1. d.mr \in Chains(Pairs) BY <1>8, <1>10, <1>13, ChainMoves
  <2> QED BY <2>1 DEF Chains
<1>15. s \in Skips
  <2>1. s = [i \in d.mr.skipped |-> s[i]] /\ \A i \in d.mr.skipped : s[i] \in Int
    BY <1>9, <1>11, <1>12, <1>14
  <2> QED BY <1>14, <2>1, SkipsAre
<1>16. PICK o : o = [foreign |-> mr.foreign, root |-> mr.root, chain |-> mr.chain, last |-> mr.last, skipped |-> s]
  OBVIOUS
<1>17. o \in Objects BY <1>6, <1>15, <1>16, ObjectShape, ObjectMade
<1>18. obj' = [obj EXCEPT ![k] = o]
  <2>1. obj' = [obj EXCEPT ![k].skipped = s]
    BY ZenonT(30), <1>1, <1>2, <1>4, <1>5, <1>7, <1>8, <1>9 DEF MatchPrevious
  <2>2. [mr EXCEPT !.skipped = s] = o BY <1>6, <1>16, ObjectShape
  <2> QED BY <1>5, <2>1, <2>2
<1>19. Moves(k, o.chain, o.last)
  BY <1>3, <1>4, <1>5, <1>16, <1>17, <1>18, Replaces
<1> QED BY <1>5, <1>16, <1>19

(* Local variables with one of them changed.                               *)
LEMMA MrEdited ==
  ASSUME NEW n \in Nat, NEW l \in Works(n), NEW k \in Nat, n <= k, NEW x \in 0..k
  PROVE  /\ [l EXCEPT !.mr = x] = [msg |-> l.msg, mr |-> x, pos |-> l.pos, i |-> l.i, root |-> l.root,
                                   foreign |-> l.foreign, row |-> l.row]
         /\ [l EXCEPT !.mr = x] \in Works(k)
BY DEF Works

LEMMA PosEdited ==
  ASSUME NEW n \in Nat, NEW l \in Works(n), NEW x \in Nat
  PROVE  /\ [l EXCEPT !.pos = x] = [msg |-> l.msg, mr |-> l.mr, pos |-> x, i |-> l.i, root |-> l.root,
                                    foreign |-> l.foreign, row |-> l.row]
         /\ [l EXCEPT !.pos = x] \in Works(n)
BY DEF Works

LEMMA IEdited ==
  ASSUME NEW n \in Nat, NEW l \in Works(n), NEW x \in Nat
  PROVE  /\ [l EXCEPT !.i = x] = [msg |-> l.msg, mr |-> l.mr, pos |-> l.pos, i |-> x, root |-> l.root,
                                  foreign |-> l.foreign, row |-> l.row]
         /\ [l EXCEPT !.i = x] \in Works(n)
BY DEF Works

LEMMA RootEdited ==
  ASSUME NEW n \in Nat, NEW l \in Works(n), NEW x \in Roots, NEW y \in Pairs
  PROVE  /\ [l EXCEPT !.root = x, !.foreign = y] =
              [msg |-> l.msg, mr |-> l.mr, pos |-> l.pos, i |-> l.i, root |-> x, foreign |-> y, row |-> l.row]
         /\ [l EXCEPT !.root = x, !.foreign = y] \in Works(n)
<1>1. PICK e : e = [l EXCEPT !.root = x] OBVIOUS
<1>2. e = [msg |-> l.msg, mr |-> l.mr, pos |-> l.pos, i |-> l.i, root |-> x, foreign |-> l.foreign, row |-> l.row]
  BY <1>1 DEF Works
<1>3. [e EXCEPT !.foreign = y] =
        [msg |-> l.msg, mr |-> l.mr, pos |-> l.pos, i |-> l.i, root |-> x, foreign |-> y, row |-> l.row]
  BY <1>2
<1>4. [l EXCEPT !.root = x, !.foreign = y] =
        [msg |-> l.msg, mr |-> l.mr, pos |-> l.pos, i |-> l.i, root |-> x, foreign |-> y, row |-> l.row]
  BY <1>1, <1>3
<1> QED BY <1>4, WorkShape, WorkMade

LEMMA MsgEdited ==
  ASSUME NEW n \in Nat, NEW l \in Works(n), NEW x \in Messages
  PROVE  /\ [l EXCEPT !.msg = x] = [msg |-> x, mr |-> l.mr, pos |-> l.pos, i |-> l.i, root |-> l.root,
                                    foreign |-> l.foreign, row |-> l.row]
         /\ [l EXCEPT !.msg = x] \in Works(n)
BY DEF Works

LEMMA RowEdited ==
  ASSUME NEW n \in Nat, NEW l \in Works(n), NEW x \in Rows
  PROVE  /\ [l EXCEPT !.row = x] = [msg |-> l.msg, mr |-> l.mr, pos |-> l.pos, i |-> l.i, root |-> l.root,
                                         foreign |-> l.foreign, row |-> x]
         /\ [l EXCEPT !.row = x] \in Works(n)
BY DEF Works

(* What is known of a goroutine's variables.                               *)
LEMMA LocalShape ==
  ASSUME MemoryTyped, WorkTyped, NEW g \in Threads
  PROVE  local[g] \in Works(Len(obj)) /\ Len(obj) \in Nat /\ WorkOK(g, pc[g], local[g], Len(obj))
BY MemoryShape DEF WorkTyped

LEMMA AcceptTyped ==
  ASSUME MemoryTyped, WorkTyped, UNCHANGED obj, NEW g \in Threads, NEW m \in Messages, Accept(g, m)
  PROVE  WorkTyped'
<1>1. Len(obj) \in Nat BY MemoryShape
<1>2. PICK l : l = [NoWork EXCEPT !.msg = m] OBVIOUS
<1>3. l.msg = m /\ l \in Works(Len(obj)) BY <1>1, <1>2, NoWorkTyped, MsgEdited
<1>4. WorkOK(g, "match", l, Len(obj)) BY <1>3 DEF WorkOK, Places, Touching, Matching, Sealing
<1>5. Set(g, "match", l) BY <1>2 DEF Accept
<1> QED BY <1>1, <1>4, <1>5, SetStays

LEMMA ReadPushTyped ==
  ASSUME Typed, ReadPush
  PROVE  Typed'
<1>1. Head(pushed) \in Messages /\ Tail(pushed) \in Seq(Messages) BY DEF Typed, NetTyped, ReadPush
<1>2. WorkTyped' BY <1>1, AcceptTyped DEF Typed, ReadPush, memory, Threads
<1>3. MemoryTyped' BY MemoryStays DEF Typed, ReadPush
<1>4. NetTyped' BY <1>1 DEF Typed, NetTyped, PeerTyped, ReadPush
<1>5. DbTyped' BY DbStays DEF Typed, ReadPush
<1> QED BY <1>2, <1>3, <1>4, <1>5 DEF Typed

LEMMA TakeFetchedTyped ==
  ASSUME Typed, TakeFetched
  PROVE  Typed'
<1>1. Head(todo) \in Messages /\ Tail(todo) \in Seq(Messages) BY DEF Typed, NetTyped, TakeFetched
<1>2. WorkTyped' BY <1>1, AcceptTyped DEF Typed, TakeFetched, memory, Threads
<1>3. MemoryTyped' BY MemoryStays DEF Typed, TakeFetched
<1>4. NetTyped' BY <1>1 DEF Typed, NetTyped, PeerTyped, TakeFetched
<1>5. DbTyped' BY DbStays DEF Typed, TakeFetched
<1> QED BY <1>2, <1>3, <1>4, <1>5 DEF Typed

LEMMA SecretTyped == \A x, y \in Pairs : Secret(x, y) \in SUBSET Pairs
BY DEF Secret

(* A turn begun puts the current ratchet aside.                            *)
LEMMA StartTurnTyped ==
  ASSUME MemoryTyped, WorkTyped, UNCHANGED obj, NEW g \in Threads, NEW d \in DHs(Len(obj)), d.cur = dh.cur,
         NEW foreign \in Pairs, StartTurn(g, d, foreign), g = "main" \/ local[g].msg \in Messages
  PROVE  MemoryTyped' /\ WorkTyped'
<1>1. Len(obj) \in Nat /\ obj[d.cur] \in Objects /\ d.cur \in 1..Len(obj) BY MemoryShape
<1>2. PICK o : o = [obj[d.cur] EXCEPT !.skipped = <<>>] OBVIOUS
<1>3. o \in Objects
  <2>1. <<>> \in Skips
    <3>1. <<>> \in [{} -> Int] OBVIOUS
    <3> QED BY <3>1 DEF Skips
  <2>2. o = [foreign |-> obj[d.cur].foreign, root |-> obj[d.cur].root, chain |-> obj[d.cur].chain,
             last |-> obj[d.cur].last, skipped |-> <<>>]
    BY <1>1, <1>2, ObjectShape
  <2> QED BY <1>1, <2>1, <2>2, ObjectShape, ObjectMade
<1>4. PICK c : c = [id |-> d.cur, copy |-> o] OBVIOUS
<1>5. c \in Copies(Len(obj)) BY <1>1, <1>3, <1>4 DEF Copies
<1>6. PICK s : s = Remember(d.prev, c) OBVIOUS
<1>7. d.prev \in Seq(Copies(Len(obj))) /\ d.root \in Roots /\ d.keyPair \in Pairs BY DEF DHs
<1>8. s \in Seq(Copies(Len(obj))) BY <1>5, <1>6, <1>7, Remembered
<1>9. dh' = [d EXCEPT !.prev = s] BY <1>2, <1>4, <1>6 DEF StartTurn
<1>10. dh' \in DHs(Len(obj)) BY <1>8, <1>9 DEF DHs
<1>11. PICK root : root = Append(d.root, Secret(d.keyPair, foreign)) OBVIOUS
<1>12. root \in Roots BY <1>7, <1>11, SecretTyped DEF Roots
<1>13. PICK l : l = [local[g] EXCEPT !.root = root, !.foreign = foreign] OBVIOUS
<1>14. l \in Works(Len(obj)) /\ l.msg = local[g].msg
  <2>1. PICK w : w = local[g] OBVIOUS
  <2>2. w \in Works(Len(obj)) BY <2>1, LocalShape
  <2>3. /\ l = [msg |-> w.msg, mr |-> w.mr, pos |-> w.pos, i |-> w.i, root |-> root, foreign |-> foreign,
               row |-> w.row]
        /\ l \in Works(Len(obj))
    <3>1. PICK n : n = Len(obj) OBVIOUS
    <3>2. n \in Nat /\ w \in Works(n) BY <1>1, <2>2, <3>1
    <3>3. l = [w EXCEPT !.root = root, !.foreign = foreign] BY <1>13, <2>1
    <3>4. /\ l = [msg |-> w.msg, mr |-> w.mr, pos |-> w.pos, i |-> w.i, root |-> root, foreign |-> foreign,
                  row |-> w.row]
          /\ l \in Works(n)
      BY ONLY <1>12, <3>2, <3>3, foreign \in Pairs, RootEdited
    <3> QED BY <3>1, <3>4
  <2> QED BY <2>1, <2>3
<1>15. WorkOK(g, "turn", l, Len(obj)) BY <1>14 DEF WorkOK, Places, Touching, Sealing
<1>16. Set(g, "turn", l) BY <1>11, <1>13 DEF StartTurn
<1>17. WorkTyped' BY <1>1, <1>15, <1>16, SetStays
<1> QED BY <1>10, <1>17 DEF MemoryTyped

LEMMA MatchTyped ==
  ASSUME Typed, NEW g \in Threads, Match(g)
  PROVE  Typed'
<1>1. PICK w : w = local[g] OBVIOUS
<1>2. w \in Works(Len(obj)) /\ Len(obj) \in Nat /\ WorkOK(g, "match", w, Len(obj)) /\ w.msg \in Messages
  BY <1>1, LocalShape DEF Typed, Match, WorkOK, Sealing
<1>3. MemoryTyped' /\ WorkTyped'
  <2>1. CASE UNCHANGED dh /\ Set(g, "check", [local[g] EXCEPT !.mr = dh.cur])
    <3>1. PICK l : l = [w EXCEPT !.mr = dh.cur] OBVIOUS
    <3>2. dh.cur \in 1..Len(obj) BY MemoryShape DEF Typed
    <3>3. /\ l = [msg |-> w.msg, mr |-> dh.cur, pos |-> w.pos, i |-> w.i, root |-> w.root, foreign |-> w.foreign,
                  row |-> w.row]
          /\ l \in Works(Len(obj))
      BY <1>2, <3>1, <3>2, MrEdited
    <3>4. WorkOK(g, "check", l, Len(obj)) BY <1>2, <3>2, <3>3 DEF WorkOK, Places, Touching, Matching, Sealing
    <3>5. Set(g, "check", l) BY <1>1, <2>1, <3>1
    <3> QED BY <1>2, <2>1, <3>4, <3>5, SetStays, MemoryStays DEF Typed, Match, memory
  <2>2. CASE StartTurn(g, dh, local[g].msg.pub)
    <3>1. dh \in DHs(Len(obj)) BY DEF Typed, MemoryTyped
    <3>2. w.msg.pub \in Pairs BY <1>2, MessageShape
    <3>3. UNCHANGED obj BY DEF Match
    <3> QED BY <1>1, <1>2, <2>2, <3>1, <3>2, <3>3, StartTurnTyped DEF Typed
  <2> QED BY <2>1, <2>2 DEF Match
<1>4. NetTyped' /\ DbTyped'
  <2>1. UNCHANGED netVars /\ UNCHANGED <<dbVars, read, acked, sends>> BY DEF Match
  <2> QED BY <2>1, NetStays, DbStays DEF Typed
<1> QED BY <1>3, <1>4 DEF Typed

(* A message handled: read and to be recorded, or left.                    *)
LEMMA HandledTyped ==
  ASSUME MemoryTyped, WorkTyped, DbTyped, MemoryTyped', Len(obj) = Len(obj'), NEW g \in Threads, local[g].msg \in Messages,
         UNCHANGED <<dbVars, acked, sends>>,
         \/ read' = read \cup {local[g].msg.name} /\ Set(g, "record", local[g])
         \/ Finish(g) /\ UNCHANGED read
  PROVE  WorkTyped' /\ DbTyped'
<1>1. PICK w : w = local[g] OBVIOUS
<1>2. w \in Works(Len(obj)) /\ Len(obj) \in Nat /\ WorkOK(g, pc[g], w, Len(obj)) BY <1>1, LocalShape
<1>3. DbTyped'
  <2>1. w.msg.name \in Pairs BY <1>1, MessageShape
  <2>2. read' \subseteq Pairs BY <1>1, <2>1 DEF DbTyped
  <2> QED BY <2>2 DEF DbTyped, dbVars
<1>4. WorkTyped'
  <2>1. CASE Set(g, "record", local[g])
    <3>1. WorkOK(g, "record", w, Len(obj)) BY <1>1, <1>2 DEF WorkOK, Places, Sealing
    <3> QED BY <1>1, <1>2, <2>1, <3>1, SetTyped
  <2>2. CASE Finish(g) BY <1>2, <2>2, Finished
  <2> QED BY <2>1, <2>2
<1> QED BY <1>3, <1>4

LEMMA MatchPreviousTyped ==
  ASSUME Typed, NEW g \in Threads, MatchPrevious(g)
  PROVE  Typed'
<1>1. local[g].msg \in Messages BY LocalShape DEF Typed, MatchPrevious, WorkOK, Sealing
<1>2. PICK k : Moves(k, obj[k].chain, obj[k].last) BY MatchPreviousMoves DEF Typed
<1>3. MemoryTyped' BY <1>2, MovesTyped DEF Typed, MatchPrevious
<1>4. Len(obj') = Len(obj) BY <1>2 DEF Moves
<1>5. /\ UNCHANGED <<dbVars, acked, sends>> /\ UNCHANGED netVars
      /\ \/ read' = read \cup {local[g].msg.name} /\ Set(g, "record", local[g])
         \/ Finish(g) /\ UNCHANGED read
  BY DEF MatchPrevious
<1>6. WorkTyped' /\ DbTyped' BY <1>1, <1>3, <1>4, <1>5, HandledTyped DEF Typed
<1> QED BY <1>3, <1>5, <1>6, NetStays DEF Typed

LEMMA UseSkippedTyped ==
  ASSUME Typed, NEW g \in Threads, UseSkipped(g)
  PROVE  Typed'
<1>1. local[g].msg \in Messages BY LocalShape DEF Typed, UseSkipped, WorkOK, Sealing
<1>2. PICK k : Moves(k, obj[k].chain, obj[k].last) BY UseSkippedMoves DEF Typed
<1>3. MemoryTyped' BY <1>2, MovesTyped DEF Typed, UseSkipped
<1>4. Len(obj') = Len(obj) BY <1>2 DEF Moves
<1>5. /\ UNCHANGED <<dbVars, acked, sends>> /\ UNCHANGED netVars
      /\ \/ read' = read \cup {local[g].msg.name} /\ Set(g, "record", local[g])
         \/ Finish(g) /\ UNCHANGED read
  BY DEF UseSkipped, Opened
<1>6. WorkTyped' /\ DbTyped' BY <1>1, <1>3, <1>4, <1>5, HandledTyped DEF Typed
<1> QED BY <1>3, <1>5, <1>6, NetStays DEF Typed

LEMMA AdvanceTyped ==
  ASSUME Typed, NEW g \in Threads, Advance(g)
  PROVE  Typed'
<1>1. local[g].msg \in Messages BY LocalShape DEF Typed, Advance, WorkOK, Sealing
<1>2. PICK k, c, n : Moves(k, c, n) BY AdvanceMoves DEF Typed
<1>3. MemoryTyped' BY <1>2, MovesTyped DEF Typed, Advance
<1>4. Len(obj') = Len(obj) BY <1>2 DEF Moves
<1>5. /\ UNCHANGED <<dbVars, acked, sends>> /\ UNCHANGED netVars
      /\ \/ read' = read \cup {local[g].msg.name} /\ Set(g, "record", local[g])
         \/ Finish(g) /\ UNCHANGED read
  BY DEF Advance, Opened
<1>6. WorkTyped' /\ DbTyped' BY <1>1, <1>3, <1>4, <1>5, HandledTyped DEF Typed
<1> QED BY <1>3, <1>5, <1>6, NetStays DEF Typed

LEMMA Turn2Typed ==
  ASSUME Typed, NEW g \in Threads, Turn2(g)
  PROVE  Typed'
<1>1. PICK w : w = local[g] OBVIOUS
<1>2. w \in Works(Len(obj)) /\ Len(obj) \in Nat /\ WorkOK(g, "turn", w, Len(obj))
  BY <1>1, LocalShape DEF Typed, Turn2
<1>3. w.root \in Roots /\ w.foreign \in Pairs /\ w.msg \in Messages \cup {NoMessage} BY <1>2, WorkShape
<1>4. PICK o : o = NewObject(w.root, w.foreign) OBVIOUS
<1>5. o \in Objects
  <2>1. 0 \in Nat /\ -1 \in Lasts BY DEF Lasts
  <2>2. <<>> \in Skips
    <3>1. <<>> \in [{} -> Int] OBVIOUS
    <3> QED BY <3>1 DEF Skips
  <2>3. o = [foreign |-> w.foreign, root |-> w.root, chain |-> 0, last |-> -1, skipped |-> <<>>]
    BY <1>4 DEF NewObject
  <2> QED BY <1>3, <2>1, <2>2, <2>3, ObjectMade
<1>6. obj' = Append(obj, o) BY <1>1, <1>4 DEF Turn2
<1>7. obj' \in Seq(Objects) /\ Len(obj') = Len(obj) + 1 BY <1>5, <1>6 DEF Typed, MemoryTyped
<1>8. PICK state : dh' = [dh EXCEPT !.root = w.root, !.cur = Len(obj) + 1, !.index = @ + 1, !.state = state]
                   /\ state \in States
  <2>1. dh.state \in States /\ "Receiving" \in States BY MemoryShape DEF Typed, States
  <2> QED BY <1>1, <2>1 DEF Turn2
<1>9. dh' = [keyPair |-> dh.keyPair, root |-> w.root, cur |-> Len(obj) + 1, prev |-> dh.prev, index |-> dh.index + 1,
             state |-> state]
  <2>1. dh = [keyPair |-> dh.keyPair, root |-> dh.root, cur |-> dh.cur, prev |-> dh.prev, index |-> dh.index,
              state |-> dh.state]
    BY MemoryShape DEF Typed
  <2>2. PICK d1 : d1 = [dh EXCEPT !.root = w.root, !.cur = Len(obj) + 1] OBVIOUS
  <2>3. d1 = [keyPair |-> dh.keyPair, root |-> w.root, cur |-> Len(obj) + 1, prev |-> dh.prev, index |-> dh.index,
              state |-> dh.state]
    BY <2>1, <2>2
  <2>4. dh' = [d1 EXCEPT !.index = @ + 1, !.state = state] BY <1>8, <2>2
  <2> QED BY <2>3, <2>4
<1>10. MemoryTyped'
  <2>1. dh.keyPair \in Pairs /\ dh.prev \in Seq(Copies(Len(obj))) /\ dh.index \in Nat BY MemoryShape DEF Typed
  <2>2. Copies(Len(obj)) \subseteq Copies(Len(obj')) BY <1>2, <1>7 DEF Copies
  <2>3. dh.prev \in Seq(Copies(Len(obj'))) BY <2>1, <2>2
  <2>4. Len(obj) + 1 \in 1..Len(obj') BY <1>2, <1>7
  <2>5. dh' \in DHs(Len(obj'))
    <3>1. PICK n, c, i : n = Len(obj') /\ c = Len(obj) + 1 /\ i = dh.index + 1 OBVIOUS
    <3>2. c \in 1..n /\ i \in Nat /\ dh.prev \in Seq(Copies(n)) BY <2>1, <2>3, <2>4, <3>1
    <3>3. [keyPair |-> dh.keyPair, root |-> w.root, cur |-> c, prev |-> dh.prev, index |-> i, state |-> state] \in DHs(n)
      BY <1>3, <1>8, <2>1, <3>2 DEF DHs
    <3> QED BY <1>9, <3>1, <3>3
  <2> QED BY <1>7, <2>5 DEF MemoryTyped
<1>11. WorkTyped'
  <2>1. PICK l : l = [w EXCEPT !.mr = Len(obj) + 1] OBVIOUS
  <2>2. PICK n : n = Len(obj) OBVIOUS
  <2>3. /\ l = [msg |-> w.msg, mr |-> n + 1, pos |-> w.pos, i |-> w.i, root |-> w.root, foreign |-> w.foreign,
                row |-> w.row]
        /\ l \in Works(n + 1)
    <3>1. n \in Nat /\ n + 1 \in Nat /\ n <= n + 1 /\ n + 1 \in 0..(n + 1) /\ w \in Works(n) BY <1>2, <2>2
    <3> QED BY <2>1, <2>2, <3>1, MrEdited
  <2>4. n + 1 # 0 BY <1>2, <2>2
  <2>5. CASE w.msg # NoMessage
    <3>1. WorkOK(g, "check", l, n + 1) BY <1>2, <1>3, <2>3, <2>4, <2>5 DEF WorkOK, Places, Touching, Matching, Sealing
    <3>2. Set(g, "check", l) BY <1>1, <2>1, <2>5 DEF Turn2
    <3> QED BY <1>2, <1>7, <2>2, <3>1, <3>2, SetTyped DEF Typed
  <2>6. CASE w.msg = NoMessage
    <3>1. w.msg \notin Messages BY <2>6 DEF Messages, NoMessage
    <3>2. WorkOK(g, "encrypt", l, n + 1) BY <1>2, <2>3, <3>1 DEF WorkOK, Places, Touching, Matching, Sealing
    <3>3. Set(g, "encrypt", l) BY <1>1, <2>1, <2>6 DEF Turn2
    <3> QED BY <1>2, <1>7, <2>2, <3>2, <3>3, SetTyped DEF Typed
  <2> QED BY <2>5, <2>6
<1>12. NetTyped' /\ DbTyped'
  <2>1. UNCHANGED netVars /\ UNCHANGED <<dbVars, read, acked, sends>> BY DEF Turn2
  <2> QED BY <2>1, NetStays, DbStays DEF Typed
<1> QED BY <1>10, <1>11, <1>12 DEF Typed

LEMMA CheckTyped ==
  ASSUME Typed, NEW g \in Threads, Check(g)
  PROVE  Typed'
<1>1. PICK w : w = local[g] OBVIOUS
<1>2. w \in Works(Len(obj)) /\ Len(obj) \in Nat /\ WorkOK(g, "check", w, Len(obj))
  BY <1>1, LocalShape DEF Typed, Check
<1>3. UNCHANGED memory /\ UNCHANGED obj BY DEF Check, memory
<1>4. WorkTyped'
  <2>1. CASE Set(g, "next", w)
    <3>1. WorkOK(g, "next", w, Len(obj)) BY <1>2 DEF WorkOK, Places, Touching, Matching, Sealing
    <3> QED BY <1>2, <1>3, <2>1, <3>1, SetStays DEF Typed
  <2>2. CASE Set(g, "skip", [w EXCEPT !.i = obj[w.mr].last + 1])
    <3>1. PICK l, x : x = obj[w.mr].last + 1 /\ l = [w EXCEPT !.i = x] OBVIOUS
    <3>2. x \in Nat BY <1>1, <3>1, WorkAt, ObjectShape, LastsAre DEF Typed, Check
    <3>3. /\ l = [msg |-> w.msg, mr |-> w.mr, pos |-> w.pos, i |-> x, root |-> w.root, foreign |-> w.foreign,
                  row |-> w.row]
          /\ l \in Works(Len(obj))
      BY <1>2, <3>1, <3>2, IEdited
    <3>4. WorkOK(g, "skip", l, Len(obj)) BY <1>2, <3>3 DEF WorkOK, Places, Touching, Matching, Sealing
    <3>5. Set(g, "skip", l) BY <2>2, <3>1
    <3> QED BY <1>2, <1>3, <3>4, <3>5, SetStays DEF Typed
  <2>3. CASE Finish(g) BY <1>2, <1>3, <2>3, Finished DEF Typed
  <2> QED BY <1>1, <2>1, <2>2, <2>3 DEF Check
<1>5. NetTyped' /\ DbTyped' /\ MemoryTyped'
  <2>1. UNCHANGED netVars /\ UNCHANGED <<dbVars, read, acked, sends>> BY DEF Check
  <2> QED BY <1>3, <2>1, NetStays, DbStays, MemoryStays DEF Typed
<1> QED BY <1>4, <1>5 DEF Typed

LEMMA SkipReadTyped ==
  ASSUME Typed, NEW g \in Threads, SkipRead(g)
  PROVE  Typed'
<1>1. PICK w : w = local[g] OBVIOUS
<1>2. w \in Works(Len(obj)) /\ Len(obj) \in Nat /\ WorkOK(g, "skip", w, Len(obj))
  BY <1>1, LocalShape DEF Typed, SkipRead
<1>3. UNCHANGED memory /\ UNCHANGED obj BY DEF SkipRead, memory
<1>4. WorkTyped'
  <2>1. PICK l, x : x = obj[w.mr].chain /\ l = [w EXCEPT !.pos = x] OBVIOUS
  <2>2. x \in Nat BY <1>1, <2>1, WorkAt, ObjectShape DEF Typed, SkipRead
  <2>3. /\ l = [msg |-> w.msg, mr |-> w.mr, pos |-> x, i |-> w.i, root |-> w.root, foreign |-> w.foreign,
                row |-> w.row]
        /\ l \in Works(Len(obj))
    BY <1>2, <2>1, <2>2, PosEdited
  <2>4. WorkOK(g, "skipping", l, Len(obj)) BY <1>2, <2>3 DEF WorkOK, Places, Touching, Matching, Sealing
  <2>5. Set(g, "skipping", l) BY <1>1, <2>1 DEF SkipRead
  <2> QED BY <1>2, <1>3, <2>4, <2>5, SetStays DEF Typed
<1>5. NetTyped' /\ DbTyped' /\ MemoryTyped'
  <2>1. UNCHANGED netVars /\ UNCHANGED <<dbVars, read, acked, sends>> BY DEF SkipRead
  <2> QED BY <1>3, <2>1, NetStays, DbStays, MemoryStays DEF Typed
<1> QED BY <1>4, <1>5 DEF Typed

LEMMA SkipWriteTyped ==
  ASSUME Typed, NEW g \in Threads, SkipWrite(g)
  PROVE  Typed'
<1>1. PICK w : w = local[g] OBVIOUS
<1>2. w \in Works(Len(obj)) /\ Len(obj) \in Nat /\ WorkOK(g, "skipping", w, Len(obj)) /\ w.i \in Nat
  BY <1>1, LocalShape, WorkShape DEF Typed, SkipWrite
<1>3. PICK k, c, n : Moves(k, c, n) BY SkipWriteMoves DEF Typed
<1>4. MemoryTyped' BY <1>3, MovesTyped DEF Typed, SkipWrite
<1>5. Len(obj') = Len(obj) BY <1>3 DEF Moves
<1>6. WorkTyped'
  <2>1. PICK l : l = [w EXCEPT !.i = w.i + 1] OBVIOUS
  <2>2. /\ l = [msg |-> w.msg, mr |-> w.mr, pos |-> w.pos, i |-> w.i + 1, root |-> w.root, foreign |-> w.foreign,
                row |-> w.row]
        /\ l \in Works(Len(obj))
    BY <1>2, <2>1, IEdited
  <2>3. PICK place : place \in {"skip", "next"} /\ Set(g, place, l) BY <1>1, <2>1 DEF SkipWrite
  <2>4. WorkOK(g, place, l, Len(obj)) BY <1>2, <2>2, <2>3 DEF WorkOK, Places, Touching, Matching, Sealing
  <2> QED BY <1>2, <1>5, <2>3, <2>4, SetTyped DEF Typed
<1>7. NetTyped' /\ DbTyped'
  <2>1. UNCHANGED netVars /\ UNCHANGED <<dbVars, read, acked, sends>> BY DEF SkipWrite
  <2> QED BY <2>1, NetStays, DbStays DEF Typed
<1> QED BY <1>4, <1>6, <1>7 DEF Typed

LEMMA NextKeyTyped ==
  ASSUME Typed, NEW g \in Threads, NextKey(g)
  PROVE  Typed'
<1>1. PICK w : w = local[g] OBVIOUS
<1>2. w \in Works(Len(obj)) /\ Len(obj) \in Nat /\ WorkOK(g, "next", w, Len(obj))
  BY <1>1, LocalShape DEF Typed, NextKey
<1>3. UNCHANGED memory /\ UNCHANGED obj BY DEF NextKey, memory
<1>4. WorkTyped'
  <2>1. CASE Finish(g) BY <1>2, <1>3, <2>1, Finished DEF Typed
  <2>2. CASE Set(g, "advance", [w EXCEPT !.pos = obj[w.mr].chain])
    <3>1. PICK l, x : x = obj[w.mr].chain /\ l = [w EXCEPT !.pos = x] OBVIOUS
    <3>2. x \in Nat BY <1>1, <3>1, WorkAt, ObjectShape DEF Typed, NextKey
    <3>3. /\ l = [msg |-> w.msg, mr |-> w.mr, pos |-> x, i |-> w.i, root |-> w.root, foreign |-> w.foreign,
                  row |-> w.row]
          /\ l \in Works(Len(obj))
      BY <1>2, <3>1, <3>2, PosEdited
    <3>4. WorkOK(g, "advance", l, Len(obj)) BY <1>2, <3>3 DEF WorkOK, Places, Touching, Matching, Sealing
    <3>5. Set(g, "advance", l) BY <2>2, <3>1
    <3> QED BY <1>2, <1>3, <3>4, <3>5, SetStays DEF Typed
  <2> QED BY <1>1, <2>1, <2>2 DEF NextKey
<1>5. NetTyped' /\ DbTyped' /\ MemoryTyped'
  <2>1. UNCHANGED netVars /\ UNCHANGED <<dbVars, read, acked, sends>> BY DEF NextKey
  <2> QED BY <1>3, <2>1, NetStays, DbStays, MemoryStays DEF Typed
<1> QED BY <1>4, <1>5 DEF Typed

LEMMA EncryptReadTyped ==
  ASSUME Typed, EncryptRead
  PROVE  Typed'
<1>0. "main" \in Threads BY DEF Threads
<1>1. PICK w : w = local["main"] OBVIOUS
<1>2. w \in Works(Len(obj)) /\ Len(obj) \in Nat /\ WorkOK("main", "encrypt", w, Len(obj))
  BY <1>0, <1>1, LocalShape DEF Typed, EncryptRead
<1>3. UNCHANGED memory /\ UNCHANGED obj BY DEF EncryptRead, memory
<1>4. WorkTyped'
  <2>1. PICK k, x : k = dh.cur /\ x = obj[k].chain OBVIOUS
  <2>2. x \in Nat /\ k \in 1..Len(obj) /\ k \in 0..Len(obj) /\ k # 0 BY <2>1, MemoryShape, ObjectShape DEF Typed
  <2>3. PICK e : e = [w EXCEPT !.mr = k] OBVIOUS
  <2>4. /\ e = [msg |-> w.msg, mr |-> k, pos |-> w.pos, i |-> w.i, root |-> w.root, foreign |-> w.foreign,
                row |-> w.row]
        /\ e \in Works(Len(obj))
    BY <1>2, <2>2, <2>3, MrEdited
  <2>5. PICK l : l = [e EXCEPT !.pos = x] OBVIOUS
  <2>6. /\ l = [msg |-> w.msg, mr |-> k, pos |-> x, i |-> w.i, root |-> w.root, foreign |-> w.foreign,
                row |-> w.row]
        /\ l \in Works(Len(obj))
    BY <1>2, <2>2, <2>4, <2>5, PosEdited
  <2>7. WorkOK("main", "cycle", l, Len(obj)) BY <1>2, <2>2, <2>6 DEF WorkOK, Places, Touching, Matching, Sealing
  <2>8. Set("main", "cycle", l) BY <1>1, <2>1, <2>3, <2>5 DEF EncryptRead
  <2> QED BY <1>0, <1>2, <1>3, <2>7, <2>8, SetStays DEF Typed
<1>5. NetTyped' /\ DbTyped' /\ MemoryTyped'
  <2>1. UNCHANGED netVars /\ UNCHANGED <<dbVars, read, acked, sends>> BY DEF EncryptRead
  <2> QED BY <1>3, <2>1, NetStays, DbStays, MemoryStays DEF Typed
<1> QED BY <1>4, <1>5 DEF Typed

LEMMA EncryptCycleTyped ==
  ASSUME Typed, EncryptCycle
  PROVE  Typed'
<1>0. "main" \in Threads BY DEF Threads
<1>1. PICK w : w = local["main"] OBVIOUS
<1>2. w \in Works(Len(obj)) /\ Len(obj) \in Nat /\ WorkOK("main", "cycle", w, Len(obj))
  BY <1>0, <1>1, LocalShape DEF Typed, EncryptCycle
<1>3. PICK k, c, n : Moves(k, c, n) BY EncryptCycleMoves DEF Typed
<1>4. MemoryTyped' BY <1>3, MovesTyped DEF Typed, EncryptCycle
<1>5. Len(obj') = Len(obj) BY <1>3 DEF Moves
<1>6. WorkTyped'
  <2>1. PICK l, x : x = obj[w.mr].last + 1 /\ l = [w EXCEPT !.i = x] OBVIOUS
  <2>2. x \in Nat BY <1>0, <1>1, <2>1, WorkAt, ObjectShape, LastsAre DEF Typed, EncryptCycle
  <2>3. /\ l = [msg |-> w.msg, mr |-> w.mr, pos |-> w.pos, i |-> x, root |-> w.root, foreign |-> w.foreign,
                row |-> w.row]
        /\ l \in Works(Len(obj))
    BY <1>2, <2>1, <2>2, IEdited
  <2>4. WorkOK("main", "seal", l, Len(obj)) BY <1>2, <2>3 DEF WorkOK, Places, Touching, Matching, Sealing
  <2>5. Set("main", "seal", l) BY <1>1, <2>1 DEF EncryptCycle
  <2> QED BY <1>0, <1>2, <1>5, <2>4, <2>5, SetTyped DEF Typed
<1>7. NetTyped' /\ DbTyped'
  <2>1. UNCHANGED netVars /\ UNCHANGED <<dbVars, read, acked, sends>> BY DEF EncryptCycle
  <2> QED BY <2>1, NetStays, DbStays DEF Typed
<1> QED BY <1>4, <1>6, <1>7 DEF Typed

(* The message made.                                                       *)
Sealed == [name |-> <<"us", sends>>, pub |-> dh.keyPair, index |-> local["main"].i,
           key |-> <<obj[local["main"].mr].root, local["main"].pos>>]

LEMMA EncryptSealSets ==
  ASSUME Typed, EncryptSeal
  PROVE  /\ Sealed \in Messages
         /\ Set("main", "post", [local["main"] EXCEPT !.msg = Sealed])
         /\ WorkOK("main", "post", [local["main"] EXCEPT !.msg = Sealed], Len(obj))
         /\ [local["main"] EXCEPT !.msg = Sealed].msg = Sealed
<1>0. "main" \in Threads BY DEF Threads
<1>1. PICK w : w = local["main"] OBVIOUS
<1>2. w \in Works(Len(obj)) /\ Len(obj) \in Nat /\ WorkOK("main", "seal", w, Len(obj)) /\ w.pos \in Nat /\ w.i \in Nat
  BY <1>0, <1>1, LocalShape, WorkShape DEF Typed, EncryptSeal
<1>3. obj[w.mr].root \in Roots BY <1>0, <1>1, WorkAt, ObjectShape DEF Typed, EncryptSeal
<1>4. PICK m : m = Sealed OBVIOUS
<1>5. m \in Messages
  <2>1. dh.keyPair \in Pairs BY MemoryShape DEF Typed
  <2>2. <<"us", sends>> \in Pairs BY DEF Typed, DbTyped, Pairs, Who
  <2>3. m = [name |-> <<"us", sends>>, pub |-> dh.keyPair, index |-> w.i, key |-> <<obj[w.mr].root, w.pos>>]
    BY <1>1, <1>4 DEF Sealed
  <2> QED BY <1>2, <1>3, <2>1, <2>2, <2>3 DEF Messages
<1>6. PICK l : l = [w EXCEPT !.msg = m] OBVIOUS
<1>7. /\ l = [msg |-> m, mr |-> w.mr, pos |-> w.pos, i |-> w.i, root |-> w.root, foreign |-> w.foreign,
              row |-> w.row]
      /\ l \in Works(Len(obj))
  BY <1>2, <1>5, <1>6, MsgEdited
<1>8. WorkOK("main", "post", l, Len(obj)) BY <1>5, <1>7 DEF WorkOK, Places, Touching, Matching, Sealing
<1>9. Set("main", "post", l) BY <1>1, <1>4, <1>6 DEF EncryptSeal, Sealed
<1> QED BY <1>1, <1>4, <1>5, <1>6, <1>7, <1>8, <1>9

LEMMA EncryptSealTyped ==
  ASSUME Typed, EncryptSeal
  PROVE  Typed'
<1>0. "main" \in Threads BY DEF Threads
<1>3. PICK k, c, n : Moves(k, c, n) BY EncryptSealMoves DEF Typed
<1>4. MemoryTyped' BY <1>3, MovesTyped DEF Typed, EncryptSeal
<1>5. Len(obj') = Len(obj) BY <1>3 DEF Moves
<1>6. WorkTyped'
  <2>1. PICK l : /\ Set("main", "post", l) /\ WorkOK("main", "post", l, Len(obj)) BY EncryptSealSets
  <2>2. Len(obj) \in Nat BY MemoryShape DEF Typed
  <2> QED BY <1>0, <1>5, <2>1, <2>2, SetTyped DEF Typed
<1>7. NetTyped' /\ DbTyped'
  <2>1. UNCHANGED netVars /\ UNCHANGED <<dbVars, read, acked, sends>> BY DEF EncryptSeal
  <2> QED BY <2>1, NetStays, DbStays DEF Typed
<1> QED BY <1>4, <1>6, <1>7 DEF Typed

LEMMA PostTyped ==
  ASSUME Typed, Post
  PROVE  Typed'
<1>0. "main" \in Threads BY DEF Threads
<1>1. PICK w : w = local["main"] OBVIOUS
<1>2. w \in Works(Len(obj)) /\ Len(obj) \in Nat /\ WorkOK("main", "post", w, Len(obj)) /\ w.msg \in Messages
  BY <1>0, <1>1, LocalShape DEF Typed, Post, WorkOK, Sealing
<1>3. UNCHANGED memory /\ UNCHANGED obj BY DEF Post, memory
<1>4. WorkTyped'
  <2>1. CASE Set("main", "await", w)
    <3>1. WorkOK("main", "await", w, Len(obj)) BY <1>2 DEF WorkOK, Places, Touching, Matching, Sealing
    <3> QED BY <1>0, <1>2, <1>3, <2>1, <3>1, SetStays DEF Typed
  <2>2. CASE Finish("main") BY <1>0, <1>2, <1>3, <2>2, Finished DEF Typed
  <2> QED BY <1>1, <2>1, <2>2 DEF Post
<1>5. NetTyped'
  <2>0. outbox \in Seq(Messages) /\ stuck \subseteq {"us", "peer"} BY DEF Typed, NetTyped
  <2>1. outbox' \in Seq(Messages) /\ stuck' \subseteq {"us", "peer"}
    <3>1. CASE outbox' = Append(outbox, w.msg) /\ stuck' = stuck \ {"us"} BY <1>2, <2>0, <3>1
    <3>2. CASE UNCHANGED outbox /\ stuck' = stuck \cup {"us"} BY <2>0, <3>2
    <3> QED BY <1>1, <3>1, <3>2 DEF Post
  <2> QED BY <2>1 DEF Post, Typed, NetTyped, PeerTyped
<1>6. DbTyped' /\ MemoryTyped'
  <2>1. UNCHANGED <<dbVars, read, acked, sends>> BY DEF Post
  <2> QED BY <1>3, <2>1, DbStays, MemoryStays DEF Typed
<1> QED BY <1>4, <1>5, <1>6 DEF Typed

LEMMA AnsweredTyped ==
  ASSUME Typed, Answered
  PROVE  Typed'
<1>0. "main" \in Threads BY DEF Threads
<1>1. PICK w : w = local["main"] OBVIOUS
<1>2. w \in Works(Len(obj)) /\ Len(obj) \in Nat /\ WorkOK("main", "await", w, Len(obj)) /\ w.msg \in Messages
  BY <1>0, <1>1, LocalShape DEF Typed, Answered, WorkOK, Sealing
<1>3. UNCHANGED memory /\ UNCHANGED obj BY DEF Answered, memory
<1>4. WorkTyped'
  <2>1. WorkOK("main", "record", w, Len(obj)) BY <1>2 DEF WorkOK, Places, Touching, Matching, Sealing
  <2> QED BY <1>0, <1>1, <1>2, <1>3, <2>1, SetStays DEF Typed, Answered
<1>5. DbTyped'
  <2>1. acked' \subseteq Pairs BY <1>1, <1>2, MessageShape DEF Answered, Typed, DbTyped
  <2> QED BY <2>1 DEF Answered, Typed, DbTyped, dbVars
<1>6. NetTyped' /\ MemoryTyped' BY <1>3, NetStays, MemoryStays DEF Typed, Answered
<1> QED BY <1>4, <1>5, <1>6 DEF Typed

LEMMA NotAnsweredTyped ==
  ASSUME Typed, NotAnswered
  PROVE  Typed'
<1>1. UNCHANGED memory /\ UNCHANGED obj /\ Len(obj) \in Nat BY MemoryShape DEF NotAnswered, memory, Typed
<1>2. WorkTyped' BY <1>1, Finished DEF Typed, NotAnswered, Threads
<1> QED BY <1>1, <1>2, NetStays, DbStays, MemoryStays DEF Typed, NotAnswered

LEMMA BeginSendTyped ==
  ASSUME Typed, BeginSend
  PROVE  Typed'
<1>0. "main" \in Threads BY DEF Threads
<1>1. UNCHANGED <<obj, netVars, dbVars, read, acked>> /\ sends' = sends + 1 BY DEF BeginSend
<1>2. NetTyped' /\ DbTyped'
  <2>1. DbTyped' BY <1>1 DEF Typed, DbTyped, dbVars
  <2> QED BY <1>1, <2>1, NetStays DEF Typed
<1>3. MemoryTyped' /\ WorkTyped'
  <2>1. CASE /\ UNCHANGED dh
             /\ Set("main", "encrypt", [NoWork EXCEPT !.mr = dh.cur])
    <3>1. PICK l, k : k = dh.cur /\ l = [NoWork EXCEPT !.mr = k] OBVIOUS
    <3>2. k \in 1..Len(obj) /\ k \in 0..Len(obj) /\ Len(obj) \in Nat BY <3>1, MemoryShape DEF Typed
    <3>3. l \in Works(Len(obj)) BY <3>1, <3>2, NoWorkTyped, MrEdited
    <3>4. WorkOK("main", "encrypt", l, Len(obj)) BY <3>3 DEF WorkOK, Places, Touching, Sealing
    <3>5. Set("main", "encrypt", l) BY <2>1, <3>1
    <3> QED BY <1>0, <1>1, <2>1, <3>2, <3>4, <3>5, SetStays, MemoryStays DEF Typed, memory
  <2>2. CASE StartTurn("main", [dh EXCEPT !.state = "Sending", !.keyPair = Key("us", sends + 1)], obj[dh.cur].foreign)
    <3>1. PICK d : d = [dh EXCEPT !.state = "Sending", !.keyPair = Key("us", sends + 1)] OBVIOUS
    <3>2. d \in DHs(Len(obj)) /\ d.cur = dh.cur
      <4>1. Key("us", sends + 1) \in Pairs BY DEF Typed, DbTyped, Key, Pairs, Who
      <4>2. PICK e : e = [dh EXCEPT !.state = "Sending"] OBVIOUS
      <4>3. e = [keyPair |-> dh.keyPair, root |-> dh.root, cur |-> dh.cur, prev |-> dh.prev, index |-> dh.index,
                 state |-> "Sending"]
        BY <4>2, MemoryShape DEF Typed
      <4>4. d = [e EXCEPT !.keyPair = Key("us", sends + 1)] BY <3>1, <4>2
      <4>5. d = [keyPair |-> Key("us", sends + 1), root |-> dh.root, cur |-> dh.cur, prev |-> dh.prev,
                 index |-> dh.index, state |-> "Sending"]
        BY <4>3, <4>4
      <4> QED BY <4>1, <4>5, MemoryShape DEF DHs, States, Typed
    <3>3. obj[dh.cur].foreign \in Pairs BY MemoryShape, ObjectShape DEF Typed
    <3>4. UNCHANGED obj BY <1>1
    <3> QED BY <1>0, <2>2, <3>1, <3>2, <3>3, <3>4, StartTurnTyped DEF Typed
  <2> QED BY <2>1, <2>2 DEF BeginSend
<1> QED BY <1>2, <1>3 DEF Typed

LEMMA RecordTyped ==
  ASSUME Typed, NEW g \in Threads, Record(g)
  PROVE  Typed'
<1>1. PICK w : w = local[g] OBVIOUS
<1>2. w \in Works(Len(obj)) /\ Len(obj) \in Nat /\ WorkOK(g, "record", w, Len(obj)) /\ w.msg \in Messages
  BY <1>1, LocalShape DEF Typed, Record, WorkOK, Sealing
<1>3. UNCHANGED memory /\ UNCHANGED obj BY DEF Record, memory
<1>4. WorkTyped'
  <2>1. WorkOK(g, "marshal", w, Len(obj)) BY <1>2 DEF WorkOK, Places, Touching, Matching, Sealing
  <2> QED BY <1>1, <1>2, <1>3, <2>1, SetStays DEF Typed, Record
<1>5. DbTyped'
  <2>1. w.msg.name \in Pairs /\ w.msg.name[1] \in Who /\ w.msg.index \in Nat BY <1>2, MessageShape DEF Pairs
  <2>2. dh.index \in Nat BY MemoryShape DEF Typed
  <2>3. Row(g) = [key |-> <<w.msg.name[1], dh.index, w.msg.index>>, name |-> w.msg.name] BY <1>1 DEF Row
  <2>4. Row(g) \in [key : Who \X Nat \X Nat, name : Pairs] BY <2>1, <2>2, <2>3
  <2>5. history' \subseteq [key : Who \X Nat \X Nat, name : Pairs] BY <2>4 DEF Record, Typed, DbTyped
  <2> QED BY <2>5 DEF Record, Typed, DbTyped
<1>6. NetTyped' /\ MemoryTyped' BY <1>3, NetStays, MemoryStays DEF Typed, Record
<1> QED BY <1>4, <1>5, <1>6 DEF Typed

LEMMA RecordFailsTyped ==
  ASSUME Typed, NEW g \in Threads, RecordFails(g)
  PROVE  Typed'
<1>1. PICK w : w = local[g] OBVIOUS
<1>2. w \in Works(Len(obj)) /\ Len(obj) \in Nat /\ WorkOK(g, "record", w, Len(obj)) /\ w.msg \in Messages
  BY <1>1, LocalShape DEF Typed, RecordFails, WorkOK, Sealing
<1>3. UNCHANGED memory /\ UNCHANGED obj BY DEF RecordFails, memory
<1>4. WorkTyped'
  <2>1. WorkOK(g, "marshal", w, Len(obj)) BY <1>2 DEF WorkOK, Places, Matching, Sealing
  <2>2. WorkOK(g, "idle", NoWork, Len(obj)) BY <1>2, NoWorkTyped DEF WorkOK, Places
  <2>3. Go(g, "marshal", w) \/ Go(g, "idle", NoWork) BY <1>1 DEF RecordFails
  <2> QED BY <1>2, <1>3, <2>1, <2>2, <2>3, GoTyped DEF Typed
<1> QED BY <1>3, <1>4, NetStays, DbStays, MemoryStays DEF Typed, RecordFails

LEMMA SnapshotTyped ==
  ASSUME MemoryTyped
  PROVE  /\ Snapshot \in Snapshots
         /\ Snapshot.keyPair = dh.keyPair /\ Snapshot.root = dh.root /\ Snapshot.cur = obj[dh.cur]
         /\ Snapshot.state = dh.state /\ Len(Snapshot.prev) = Len(dh.prev)
         /\ \A i \in 1..Len(dh.prev) : Snapshot.prev[i].copy = dh.prev[i].copy
<1>1. PICK s : s = [i \in 1..Len(dh.prev) |-> [copy |-> dh.prev[i].copy, skipped |-> obj[dh.prev[i].id].skipped]]
  OBVIOUS
<1>2. \A i \in 1..Len(dh.prev) : s[i].copy = dh.prev[i].copy /\ s[i] \in SavedCopies
  <2>1. SUFFICES ASSUME NEW i \in 1..Len(dh.prev)
                 PROVE  s[i].copy = dh.prev[i].copy /\ s[i] \in SavedCopies
    OBVIOUS
  <2>2. dh.prev[i].copy \in Objects /\ obj[dh.prev[i].id] \in Objects BY MemoryShape
  <2>3. obj[dh.prev[i].id].skipped \in Skips BY <2>2, ObjectShape
  <2> QED BY <1>1, <2>2, <2>3 DEF SavedCopies
<1>3. Len(dh.prev) \in Nat BY MemoryShape
<1>4. s \in Seq(SavedCopies) /\ Len(s) = Len(dh.prev)
  <2>1. PICK n : n = Len(dh.prev) OBVIOUS
  <2>2. s \in [1..n -> SavedCopies] BY <1>1, <1>2, <2>1
  <2> QED BY <1>3, <2>1, <2>2
<1>5. PICK c : c = obj[dh.cur] OBVIOUS
<1>6. c \in Objects BY <1>5, MemoryShape
<1>7. PICK e : e = [dh EXCEPT !.cur = c] OBVIOUS
<1>8. e = [keyPair |-> dh.keyPair, root |-> dh.root, cur |-> c, prev |-> dh.prev, index |-> dh.index, state |-> dh.state]
  BY <1>7, MemoryShape
<1>9. Snapshot = [e EXCEPT !.prev = s] BY <1>1, <1>5, <1>7 DEF Snapshot
<1>10. Snapshot = [keyPair |-> dh.keyPair, root |-> dh.root, cur |-> c, prev |-> s, index |-> dh.index, state |-> dh.state]
  BY <1>8, <1>9
<1>11. Snapshot \in Snapshots BY <1>4, <1>6, <1>10, MemoryShape DEF Snapshots
<1> QED BY <1>2, <1>4, <1>5, <1>10, <1>11

LEMMA RowTyped ==
  ASSUME Typed, NEW g
  PROVE  RowFor(g) \in Rows
<1>1. PICK b : b = \A h \in Threads \ {g} : pc[h] \notin Touching OBVIOUS
<1>2. b \in BOOLEAN BY <1>1
<1>3. Snapshot \in Snapshots /\ Len(outbox) \in Nat /\ read \subseteq Pairs
  BY SnapshotTyped DEF Typed, NetTyped, DbTyped
<1>4. RowFor(g) = [ratchet |-> Snapshot, whole |-> b, posted |-> Len(outbox), read |-> read]
  BY <1>1 DEF RowFor
<1> QED BY <1>2, <1>3, <1>4 DEF Rows

LEMMA MarshalSets ==
  ASSUME Typed, NEW g \in Threads, Marshal(g)
  PROVE  \E l \in Works(Len(obj)) :
           /\ Set(g, "exec", l) /\ WorkOK(g, "exec", l, Len(obj))
           /\ l.row = RowFor(g) /\ l.msg = local[g].msg
<1>1. PICK w : w = local[g] OBVIOUS
<1>2. w \in Works(Len(obj)) /\ Len(obj) \in Nat /\ WorkOK(g, "marshal", w, Len(obj)) /\ w.msg \in Messages
  BY <1>1, LocalShape DEF Typed, Marshal, WorkOK, Sealing
<1>3. PICK s : s = RowFor(g) OBVIOUS
<1>4. s \in Rows BY <1>3, RowTyped
<1>5. PICK l : l = [w EXCEPT !.row = s] OBVIOUS
<1>6. /\ l = [msg |-> w.msg, mr |-> w.mr, pos |-> w.pos, i |-> w.i, root |-> w.root, foreign |-> w.foreign,
              row |-> s]
      /\ l \in Works(Len(obj))
  BY <1>2, <1>4, <1>5, RowEdited
<1>7. WorkOK(g, "exec", l, Len(obj)) BY <1>2, <1>4, <1>6 DEF WorkOK, Places, Sealing
<1>8. Set(g, "exec", l) BY <1>1, <1>3, <1>5 DEF Marshal
<1> QED BY <1>1, <1>3, <1>6, <1>7, <1>8

LEMMA MarshalTyped ==
  ASSUME Typed, NEW g \in Threads, Marshal(g)
  PROVE  Typed'
<1>1. UNCHANGED memory /\ UNCHANGED obj /\ Len(obj) \in Nat BY MemoryShape DEF Marshal, memory, Typed
<1>2. WorkTyped' BY <1>1, MarshalSets, SetStays DEF Typed
<1> QED BY <1>1, <1>2, NetStays, DbStays, MemoryStays DEF Typed, Marshal

LEMMA ExecTyped ==
  ASSUME Typed, NEW g \in Threads, Exec(g)
  PROVE  Typed'
<1>1. UNCHANGED memory /\ UNCHANGED obj /\ Len(obj) \in Nat BY MemoryShape DEF Exec, memory, Typed
<1>2. WorkTyped' BY <1>1, Finished DEF Typed, Exec
<1>3. DbTyped'
  <2>1. local[g].row \in Rows BY LocalShape DEF Exec, Typed, WorkOK
  <2> QED BY <2>1 DEF Exec, Typed, DbTyped
<1>4. NetTyped' /\ MemoryTyped' BY <1>1, NetStays, MemoryStays DEF Typed, Exec
<1> QED BY <1>2, <1>3, <1>4 DEF Typed

LEMMA WorkStays == WorkTyped /\ UNCHANGED <<obj, pc, local>> => WorkTyped'
BY DEF WorkTyped, WorkOK

LEMMA SavedShape ==
  ASSUME NEW s \in Snapshots
  PROVE  /\ s = [keyPair |-> s.keyPair, root |-> s.root, cur |-> s.cur, prev |-> s.prev, index |-> s.index,
                 state |-> s.state]
         /\ s.keyPair \in Pairs /\ s.root \in Roots /\ s.cur \in Objects /\ s.prev \in Seq(SavedCopies)
         /\ s.index \in Nat /\ s.state \in States /\ Len(s.prev) \in Nat
         /\ \A i \in 1..Len(s.prev) : s.prev[i].copy \in Objects /\ s.prev[i].skipped \in Skips
<1>1. /\ s = [keyPair |-> s.keyPair, root |-> s.root, cur |-> s.cur, prev |-> s.prev, index |-> s.index,
              state |-> s.state]
      /\ s.keyPair \in Pairs /\ s.root \in Roots /\ s.cur \in Objects /\ s.prev \in Seq(SavedCopies)
      /\ s.index \in Nat /\ s.state \in States
  BY DEF Snapshots
<1>2. \A i \in 1..Len(s.prev) : s.prev[i] \in SavedCopies BY <1>1
<1> QED BY <1>1, <1>2 DEF SavedCopies

(* The memory after the client is started again.                           *)
LEMMA Restored ==
  ASSUME Typed, Restart
  PROVE  /\ obj' \in Seq(Objects) /\ Len(saved.ratchet.prev) \in Nat /\ Len(obj') = Len(saved.ratchet.prev) + 1
         /\ obj'[Len(obj')] = saved.ratchet.cur
         /\ \A i \in 1..Len(saved.ratchet.prev) : /\ obj'[i].chain = saved.ratchet.prev[i].copy.chain
                                          /\ obj'[i].last = saved.ratchet.prev[i].copy.last
         /\ dh' \in DHs(Len(obj')) /\ dh'.cur = Len(obj')
         /\ dh'.keyPair = saved.ratchet.keyPair /\ dh'.root = saved.ratchet.root /\ dh'.state = saved.ratchet.state
         /\ Len(dh'.prev) = Len(saved.ratchet.prev)
         /\ \A i \in 1..Len(saved.ratchet.prev) : dh'.prev[i].copy = saved.ratchet.prev[i].copy
<1>1. PICK kept, n : kept = saved.ratchet.prev /\ n = Len(kept) OBVIOUS
<1>2. saved.ratchet \in Snapshots BY DEF Typed, DbTyped, Rows
<1>3. /\ n \in Nat /\ kept \in Seq(SavedCopies) /\ saved.ratchet.cur \in Objects
      /\ \A i \in 1..n : kept[i].copy \in Objects /\ kept[i].skipped \in Skips
  BY <1>1, <1>2, SavedShape
<1>4. PICK s : s = [i \in 1..n |-> [kept[i].copy EXCEPT !.skipped = kept[i].skipped]] OBVIOUS
<1>5. ASSUME NEW i \in 1..n
      PROVE  s[i] \in Objects /\ s[i].chain = kept[i].copy.chain /\ s[i].last = kept[i].copy.last
  <2>1. PICK o, t : o = kept[i].copy /\ t = kept[i].skipped OBVIOUS
  <2>2. o \in Objects /\ t \in Skips BY <1>3, <2>1
  <2>3. s[i] = [o EXCEPT !.skipped = t] BY <1>4, <2>1
  <2>4. s[i] = [foreign |-> o.foreign, root |-> o.root, chain |-> o.chain, last |-> o.last, skipped |-> t]
    BY <2>2, <2>3, ObjectShape
  <2> QED BY <2>1, <2>2, <2>4, ObjectShape, ObjectMade
<1>6. s \in Seq(Objects) /\ Len(s) = n
  <2>1. s \in [1..n -> Objects] BY <1>4, <1>5
  <2> QED BY <1>3, <2>1
<1>7. obj' = Append(s, saved.ratchet.cur) BY <1>1, <1>4 DEF Restart
<1>8. /\ obj' \in Seq(Objects) /\ Len(obj') = n + 1 /\ obj'[n + 1] = saved.ratchet.cur
      /\ \A i \in 1..n : obj'[i] = s[i]
  BY <1>3, <1>6, <1>7
<1>9. PICK q : q = [i \in 1..n |-> [id |-> i, copy |-> kept[i].copy]] OBVIOUS
<1>10. q \in Seq(Copies(n + 1)) /\ Len(q) = n /\ \A i \in 1..n : q[i].copy = kept[i].copy
  <2>1. ASSUME NEW i \in 1..n PROVE q[i] \in Copies(n + 1) /\ q[i].copy = kept[i].copy
    <3>1. i \in 1..(n + 1) BY <1>3
    <3> QED BY <1>3, <1>9, <3>1 DEF Copies
  <2>2. q \in [1..n -> Copies(n + 1)] BY <1>9, <2>1
  <2> QED BY <1>3, <2>1, <2>2
<1>11. PICK e : e = [saved.ratchet EXCEPT !.cur = n + 1] OBVIOUS
<1>12. e = [keyPair |-> saved.ratchet.keyPair, root |-> saved.ratchet.root, cur |-> n + 1, prev |-> saved.ratchet.prev, index |-> saved.ratchet.index,
            state |-> saved.ratchet.state]
  BY <1>2, <1>11, SavedShape
<1>13. dh' = [e EXCEPT !.prev = q] BY <1>1, <1>9, <1>11 DEF Restart
<1>14. dh' = [keyPair |-> saved.ratchet.keyPair, root |-> saved.ratchet.root, cur |-> n + 1, prev |-> q, index |-> saved.ratchet.index,
              state |-> saved.ratchet.state]
  BY <1>12, <1>13
<1>15. dh' \in DHs(n + 1)
  <2>1. n + 1 \in 1..(n + 1) BY <1>3
  <2>2. [keyPair |-> saved.ratchet.keyPair, root |-> saved.ratchet.root, cur |-> n + 1, prev |-> q, index |-> saved.ratchet.index,
         state |-> saved.ratchet.state] \in DHs(n + 1)
    BY <1>2, <1>10, <2>1, SavedShape DEF DHs
  <2> QED BY <1>14, <2>2
<1> QED BY <1>1, <1>3, <1>5, <1>8, <1>10, <1>14, <1>15

LEMMA RestartTyped ==
  ASSUME Typed, Restart
  PROVE  Typed'
<1>1. MemoryTyped' BY Restored DEF MemoryTyped
<1>2. WorkTyped'
  <2>1. pc' = [g \in Threads |-> "idle"] /\ local' = [g \in Threads |-> NoWork] BY DEF Restart
  <2>2. Len(obj') \in Nat BY Restored
  <2>3. NoWork \in Works(Len(obj')) BY <2>2, NoWorkTyped
  <2>4. \A g \in Threads : WorkOK(g, "idle", NoWork, Len(obj')) BY <2>3 DEF WorkOK, Places
  <2> QED BY <2>1, <2>3, <2>4 DEF WorkTyped, Places
<1>3. NetTyped'
  <2>1. stuck' \subseteq {"us", "peer"} BY DEF Restart, Typed, NetTyped
  <2>2. pushed' \in Seq(Messages) /\ todo' \in Seq(Messages) /\ restarts' \in Nat BY DEF Restart, Typed, NetTyped
  <2> QED BY <2>1, <2>2 DEF Restart, Typed, NetTyped, PeerTyped
<1>4. DbTyped'
  <2>1. UNCHANGED <<dbVars, read, acked, sends>> BY DEF Restart
  <2> QED BY <2>1, DbStays DEF Typed
<1> QED BY <1>1, <1>2, <1>3, <1>4 DEF Typed

(* Steps of the surroundings leave memory, goroutines and database alone.  *)
LEMMA ElsewhereTyped ==
  ASSUME Typed, UNCHANGED <<memory, pc, local, dbVars, read, acked, sends>>, NetTyped'
  PROVE  Typed'
BY MemoryStays, WorkStays, DbStays DEF Typed, memory

LEMMA LoginAnsweredTyped == Typed /\ LoginAnswered => Typed'
<1> SUFFICES ASSUME Typed, LoginAnswered PROVE Typed' OBVIOUS
<1>1. NetTyped' BY DEF Typed, NetTyped, PeerTyped, LoginAnswered
<1> QED BY <1>1, ElsewhereTyped DEF LoginAnswered

LEMMA FetchTyped == Typed /\ Fetch => Typed'
<1> SUFFICES ASSUME Typed, Fetch PROVE Typed' OBVIOUS
<1>1. NetTyped' BY DEF Typed, NetTyped, PeerTyped, Fetch
<1> QED BY <1>1, ElsewhereTyped DEF Fetch

LEMMA FetchedTyped == Typed /\ Fetched => Typed'
<1> SUFFICES ASSUME Typed, Fetched PROVE Typed' OBVIOUS
<1>1. todo' \in Seq(Messages)
  <2>1. CASE UNCHANGED todo BY <2>1 DEF Typed, NetTyped
  <2>2. CASE todo' = <<>>
    <3>1. <<>> \in Seq(Messages) OBVIOUS
    <3> QED BY <2>2, <3>1
  <2> QED BY <2>1, <2>2 DEF Fetched
<1>2. NetTyped' BY <1>1 DEF Typed, NetTyped, PeerTyped, Fetched
<1> QED BY <1>2, ElsewhereTyped DEF Fetched

LEMMA EnterChatsTyped == Typed /\ EnterChats => Typed'
<1> SUFFICES ASSUME Typed, EnterChats PROVE Typed' OBVIOUS
<1>1. NetTyped' BY DEF Typed, NetTyped, PeerTyped, EnterChats
<1> QED BY <1>1, ElsewhereTyped DEF EnterChats

LEMMA PeerShape ==
  ASSUME PeerTyped
  PROVE  /\ peer = [ratchet |-> peer.ratchet, sends |-> peer.sends, made |-> peer.made, seen |-> peer.seen,
                    read |-> peer.read]
         /\ peer.ratchet \in Ratchets(Pairs) /\ peer.sends \in Nat /\ peer.made \in Nat /\ peer.seen \in Nat
         /\ peer.read \subseteq Pairs
BY DEF PeerTyped

(* What the contact sends, and what it is afterwards.                      *)
PeerEncrypts == Encrypt(peer.ratchet, Key("peer", peer.made + 1))
PeerMessage == [name |-> <<"peer", peer.sends + 1>>, pub |-> PeerEncrypts.pub, index |-> PeerEncrypts.index,
                key |-> PeerEncrypts.key]
PeerAfter == [ratchet |-> PeerEncrypts.ratchet, sends |-> peer.sends + 1,
              made |-> IF peer.ratchet.state = "Receiving" THEN peer.made + 1 ELSE peer.made,
              seen |-> peer.seen, read |-> peer.read]

LEMMA PeerSendsShape ==
  ASSUME PeerTyped, PeerSends
  PROVE  /\ peer' = PeerAfter
         /\ PeerMessage \in Messages
         /\ \/ box' = Append(box, PeerMessage) /\ stuck' = stuck \ {"peer"}
               /\ pushed' = (IF phase = "offline" THEN pushed ELSE Append(pushed, PeerMessage))
            \/ stuck' = stuck \cup {"peer"} /\ UNCHANGED <<box, pushed>>
<1>1. PICK e : e = PeerEncrypts OBVIOUS
<1>2. Key("peer", peer.made + 1) \in Pairs /\ <<"peer", peer.sends + 1>> \in Pairs BY PeerShape DEF Key, Pairs, Who
<1>3. /\ e.ratchet \in Ratchets(Pairs) /\ e.pub = e.ratchet.keyPair /\ e.index \in Nat
      /\ e.key = <<e.ratchet.cur.root, e.index>>
  BY <1>1, <1>2, PeerShape, Encrypts DEF PeerEncrypts
<1>4. e.ratchet.keyPair \in Pairs /\ e.ratchet.cur.root \in Roots BY <1>3, RatchetShape DEF Roots
<1>5. PeerMessage \in Messages BY <1>1, <1>2, <1>3, <1>4 DEF PeerMessage, Messages
<1>6. peer' = PeerAfter
  <2>1. peer' = [peer EXCEPT !.ratchet = e.ratchet, !.sends = @ + 1,
                             !.made = IF peer.ratchet.state = "Receiving" THEN @ + 1 ELSE @]
    BY <1>1 DEF PeerSends, PeerEncrypts
  <2>2. PICK p1 : p1 = [peer EXCEPT !.ratchet = e.ratchet, !.sends = @ + 1] OBVIOUS
  <2>3. p1 = [ratchet |-> e.ratchet, sends |-> peer.sends + 1, made |-> peer.made, seen |-> peer.seen, read |-> peer.read]
    BY <2>2, PeerShape
  <2>4. peer' = [p1 EXCEPT !.made = IF peer.ratchet.state = "Receiving" THEN @ + 1 ELSE @] BY <2>1, <2>2
  <2> QED BY <1>1, <2>3, <2>4 DEF PeerAfter
<1> QED BY <1>5, <1>6 DEF PeerSends, PeerMessage, PeerEncrypts

LEMMA PeerSendsTyped == Typed /\ PeerSends => Typed'
<1> SUFFICES ASSUME Typed, PeerSends PROVE Typed' OBVIOUS
<1>0. PeerTyped BY DEF Typed, NetTyped
<1>1. PeerTyped'
  <2>1. PICK e, n : e = PeerEncrypts /\ n = (IF peer.ratchet.state = "Receiving" THEN peer.made + 1 ELSE peer.made) OBVIOUS
  <2>2. Key("peer", peer.made + 1) \in Pairs BY <1>0, PeerShape DEF Key, Pairs, Who
  <2>3. e.ratchet \in Ratchets(Pairs) BY <1>0, <2>1, <2>2, PeerShape, Encrypts DEF PeerEncrypts
  <2>4. n \in Nat /\ peer.sends + 1 \in Nat BY <1>0, <2>1, PeerShape
  <2>5. peer' = [ratchet |-> e.ratchet, sends |-> peer.sends + 1, made |-> n, seen |-> peer.seen, read |-> peer.read]
    BY <1>0, <2>1, PeerSendsShape DEF PeerAfter
  <2> QED BY <1>0, <2>3, <2>4, <2>5, PeerShape DEF PeerTyped
<1>2. box' \in Seq(Messages) /\ pushed' \in Seq(Messages) /\ stuck' \subseteq {"us", "peer"}
  <2>1. PICK m : m = PeerMessage OBVIOUS
  <2>2. m \in Messages BY <1>0, <2>1, PeerSendsShape
  <2>3. box \in Seq(Messages) /\ pushed \in Seq(Messages) /\ stuck \subseteq {"us", "peer"} BY DEF Typed, NetTyped
  <2>4. CASE /\ box' = Append(box, m) /\ stuck' = stuck \ {"peer"}
             /\ pushed' = (IF phase = "offline" THEN pushed ELSE Append(pushed, m))
    BY <2>2, <2>3, <2>4
  <2>5. CASE stuck' = stuck \cup {"peer"} /\ UNCHANGED <<box, pushed>> BY <2>3, <2>5
  <2> QED BY <1>0, <2>1, <2>4, <2>5, PeerSendsShape
<1>3. NetTyped' BY <1>1, <1>2 DEF Typed, NetTyped, PeerSends
<1> QED BY <1>3, ElsewhereTyped DEF PeerSends

PeerDecrypts == Decrypt(peer.ratchet, outbox[peer.seen + 1])

LEMMA PeerReadsShape ==
  ASSUME PeerTyped, PeerReads
  PROVE  \E r : r \in {peer.read, peer.read \cup {outbox[peer.seen + 1].name}} /\
           peer' = [ratchet |-> PeerDecrypts.ratchet, sends |-> peer.sends, made |-> peer.made, seen |-> peer.seen + 1,
                    read |-> r]
<1>1. PICK d : d = PeerDecrypts OBVIOUS
<1>2. PICK r : r = (IF d.result = "ok" THEN peer.read \cup {outbox[peer.seen + 1].name} ELSE peer.read) OBVIOUS
<1>3. peer' = [peer EXCEPT !.ratchet = d.ratchet, !.seen = @ + 1, !.read = r]
  BY <1>1, <1>2 DEF PeerReads, PeerDecrypts
<1>4. PICK p1 : p1 = [peer EXCEPT !.ratchet = d.ratchet, !.seen = @ + 1] OBVIOUS
<1>5. p1 = [ratchet |-> d.ratchet, sends |-> peer.sends, made |-> peer.made, seen |-> peer.seen + 1, read |-> peer.read]
  BY <1>4, PeerShape
<1>6. peer' = [p1 EXCEPT !.read = r] BY <1>3, <1>4
<1>7. peer' = [ratchet |-> d.ratchet, sends |-> peer.sends, made |-> peer.made, seen |-> peer.seen + 1, read |-> r]
  BY <1>5, <1>6
<1> QED BY <1>1, <1>2, <1>7

LEMMA PeerReadsTyped == Typed /\ PeerReads => Typed'
<1> SUFFICES ASSUME Typed, PeerReads PROVE Typed' OBVIOUS
<1>0. PeerTyped /\ outbox \in Seq(Messages) BY DEF Typed, NetTyped
<1>1. PICK m : m = outbox[peer.seen + 1] OBVIOUS
<1>2. m \in Messages
  <2>1. peer.seen + 1 \in 1..Len(outbox) BY <1>0, PeerShape DEF PeerReads
  <2> QED BY <1>0, <1>1, <2>1
<1>3. m.pub \in Pairs /\ m.index \in Nat /\ m.name \in Pairs BY <1>2, MessageShape
<1>4. PICK d : d = PeerDecrypts OBVIOUS
<1>5. d.ratchet \in Ratchets(Pairs) BY <1>0, <1>1, <1>3, <1>4, PeerShape, Decrypts DEF PeerDecrypts
<1>6. PICK r \in {peer.read, peer.read \cup {m.name}} :
        peer' = [ratchet |-> d.ratchet, sends |-> peer.sends, made |-> peer.made, seen |-> peer.seen + 1, read |-> r]
  BY <1>0, <1>1, <1>4, PeerReadsShape
<1>7. r \subseteq Pairs /\ peer.seen + 1 \in Nat BY <1>0, <1>3, <1>6, PeerShape
<1>8. PeerTyped' BY <1>0, <1>5, <1>6, <1>7, PeerShape DEF PeerTyped
<1>9. NetTyped' BY <1>8 DEF Typed, NetTyped, PeerReads
<1> QED BY <1>9, ElsewhereTyped DEF PeerReads

(* The ratchet of a new contact.                                           *)
First == <<Secret(Key("us", 0), Key("peer", 0))>>

LEMMA InitMemory ==
  ASSUME Init
  PROVE  /\ dh = [keyPair |-> <<"us", 0>>, root |-> First, cur |-> 1, prev |-> <<>>, index |-> 0, state |-> "Receiving"]
         /\ obj = <<NewObject(First, <<"peer", 0>>)>>
         /\ NewObject(First, <<"peer", 0>>) \in Objects /\ First \in Roots /\ First # <<>> /\ Len(First) = 1
         /\ First[1] = {<<"us", 0>>, <<"peer", 0>>}
         /\ <<"us", 0>> \in Pairs /\ <<"peer", 0>> \in Pairs
<1>1. <<"us", 0>> \in Pairs /\ <<"peer", 0>> \in Pairs BY DEF Pairs, Who
<1>2. First \in Roots /\ First # <<>> /\ Len(First) = 1 /\ First[1] = {<<"us", 0>>, <<"peer", 0>>}
  BY <1>1 DEF First, Secret, Key, Roots
<1>3. <<>> \in Skips
  <2>1. <<>> \in [{} -> Int] OBVIOUS
  <2> QED BY <2>1 DEF Skips
<1>4. -1 \in Lasts /\ 0 \in Nat BY DEF Lasts
<1>5. NewObject(First, <<"peer", 0>>) \in Objects BY <1>1, <1>2, <1>3, <1>4, ObjectMade DEF NewObject
<1> QED BY <1>1, <1>2, <1>5 DEF Init, First, Key

LEMMA InitTyped == Init => Typed
<1> SUFFICES ASSUME Init PROVE Typed OBVIOUS
<1>1. MemoryTyped
  <2>1. obj \in Seq(Objects) /\ Len(obj) = 1
    <3>1. PICK o : o = NewObject(First, <<"peer", 0>>) OBVIOUS
    <3>2. o \in Objects /\ obj = <<o>> BY <3>1, InitMemory
    <3> QED BY <3>2
  <2>2. dh \in DHs(1)
    <3>1. <<>> \in Seq(Copies(1)) /\ 1 \in 1..1 /\ 0 \in Nat /\ "Receiving" \in States BY DEF States
    <3>2. PICK f : f = First OBVIOUS
    <3>3. f \in Roots /\ <<"us", 0>> \in Pairs BY <3>2, InitMemory
    <3>4. [keyPair |-> <<"us", 0>>, root |-> f, cur |-> 1, prev |-> <<>>, index |-> 0, state |-> "Receiving"] \in DHs(1)
      BY <3>1, <3>3 DEF DHs
    <3> QED BY <3>2, <3>4, InitMemory
  <2> QED BY <2>1, <2>2 DEF MemoryTyped
<1>2. WorkTyped
  <2>1. Len(obj) \in Nat BY <1>1, MemoryShape
  <2>2. NoWork \in Works(Len(obj)) BY <2>1, NoWorkTyped
  <2>3. pc = [g \in Threads |-> "idle"] /\ local = [g \in Threads |-> NoWork] BY DEF Init
  <2>4. \A g \in Threads : WorkOK(g, "idle", NoWork, Len(obj)) BY <2>2 DEF WorkOK, Places
  <2> QED BY <2>2, <2>3, <2>4 DEF WorkTyped, Places
<1>3. PeerTyped
  <2>1. NewMessageRatchet(<<Secret(Key("peer", 0), Key("us", 0))>>, Key("us", 0)) \in Chains(Pairs)
    BY DEF NewMessageRatchet, Chains, Secret, Key, Pairs, Who
  <2>2. NewDHRatchet(Key("peer", 0), Key("us", 0), "Sending") \in Ratchets(Pairs)
    BY <2>1 DEF NewDHRatchet, Ratchets, Key, Pairs, Who
  <2>3. peer = [ratchet |-> NewDHRatchet(Key("peer", 0), Key("us", 0), "Sending"),
                sends |-> 0, made |-> 0, seen |-> 0, read |-> {}]
    BY DEF Init
  <2> QED BY <2>2, <2>3 DEF PeerTyped
<1>4. NetTyped BY <1>3 DEF Init, NetTyped
<1>5. DbTyped
  <2>1. Snapshot \in Snapshots BY <1>1, SnapshotTyped
  <2>2. PICK b : b = \A h \in Threads \ {"main"} : pc[h] \notin Touching OBVIOUS
  <2>3. saved = [ratchet |-> Snapshot, whole |-> b, posted |-> 0, read |-> {}] BY <2>2 DEF Init, RowFor
  <2>4. saved \in Rows BY <2>1, <2>2, <2>3 DEF Rows
  <2> QED BY <2>4 DEF Init, DbTyped
<1> QED BY <1>1, <1>2, <1>4, <1>5 DEF Typed

LEMMA StaysTyped == Typed /\ UNCHANGED vars => Typed'
<1> SUFFICES ASSUME Typed, UNCHANGED vars PROVE Typed' OBVIOUS
<1>1. UNCHANGED <<memory, pc, local, dbVars, read, acked, sends, netVars>> BY DEF vars
<1> QED BY <1>1, NetStays, ElsewhereTyped DEF Typed

(* Every variable has its type, and each goroutine at each place the       *)
(* objects, the message and the row it works with there.                   *)
THEOREM TypesHold == Spec => []Typed
<1>1. ASSUME Typed, Next PROVE Typed'
  BY <1>1, ReadPushTyped, TakeFetchedTyped, BeginSendTyped, EncryptReadTyped, EncryptCycleTyped, EncryptSealTyped,
     PostTyped, AnsweredTyped, NotAnsweredTyped, LoginAnsweredTyped, FetchTyped, FetchedTyped, EnterChatsTyped,
     RestartTyped, PeerSendsTyped, PeerReadsTyped, MatchTyped, MatchPreviousTyped, Turn2Typed, UseSkippedTyped, CheckTyped, SkipReadTyped,
     SkipWriteTyped, NextKeyTyped, AdvanceTyped, RecordTyped, RecordFailsTyped, MarshalTyped, ExecTyped DEF Next
<1> QED BY <1>1, InitTyped, StaysTyped, PTL DEF Spec

-----------------------------------------------------------------------------
(* What each step does to its goroutine, spelled out.                      *)

(* Local variables as they were, but for these three.                      *)
Has(l, w, mr, pos, i) ==
  l.msg = w.msg /\ l.mr = mr /\ l.pos = pos /\ l.i = i /\ l.root = w.root /\ l.foreign = w.foreign

(* The goroutine has finished, or has a message to record.                 *)
Ends(g) == Goes(g, "idle", NoWork) \/ Goes(g, "record", local[g])

LEMMA FinishGoes == \A g \in Threads : WorkTyped /\ Finish(g) => Goes(g, "idle", NoWork)
BY SetGoes DEF Finish

LEMMA UseSkippedGoes ==
  ASSUME Typed, NEW g \in Threads, UseSkipped(g)
  PROVE  Ends(g)
BY SetGoes, FinishGoes DEF UseSkipped, Opened, Ends, Typed

LEMMA AdvanceGoes ==
  ASSUME Typed, NEW g \in Threads, Advance(g)
  PROVE  Ends(g)
BY SetGoes, FinishGoes DEF Advance, Opened, Ends, Typed

LEMMA MatchPreviousGoes ==
  ASSUME Typed, NEW g \in Threads, MatchPrevious(g)
  PROVE  Ends(g)
BY SetGoes, FinishGoes DEF MatchPrevious, Ends, Typed

LEMMA CheckGoes ==
  ASSUME Typed, NEW g \in Threads, Check(g)
  PROVE  \E l :
           LET w == local[g]
               last == obj[w.mr].last IN
           \/ w.msg.index <= last + 1 /\ Goes(g, "next", l) /\ l = w
           \/ w.msg.index > last + 1 /\ Goes(g, "skip", l) /\ Has(l, w, w.mr, w.pos, last + 1)
           \/ Goes(g, "idle", NoWork)
<1>1. PICK w, x : w = local[g] /\ x = obj[w.mr].last + 1 OBVIOUS
<1>2. w \in Works(Len(obj)) /\ Len(obj) \in Nat BY <1>1, LocalShape DEF Typed
<1>3. x \in Nat BY <1>1, WorkAt, ObjectShape, LastsAre DEF Typed, Check
<1>4. CASE w.msg.index <= x /\ Set(g, "next", w) BY <1>1, <1>4, SetGoes DEF Typed
<1>5. CASE w.msg.index > x /\ Set(g, "skip", [w EXCEPT !.i = x])
  <2>1. PICK l : l = [w EXCEPT !.i = x] OBVIOUS
  <2>2. l = [msg |-> w.msg, mr |-> w.mr, pos |-> w.pos, i |-> x, root |-> w.root, foreign |-> w.foreign,
             row |-> w.row]
    BY <1>2, <1>3, <2>1, IEdited
  <2>3. Goes(g, "skip", l) BY <1>5, <2>1, SetGoes DEF Typed
  <2>4. Has(l, w, w.mr, w.pos, x) BY <2>2 DEF Has
  <2> QED BY <1>1, <1>5, <2>3, <2>4
<1>6. CASE Finish(g) BY <1>6, FinishGoes DEF Typed
<1> QED BY <1>1, <1>4, <1>5, <1>6 DEF Check

LEMMA SkipReadGoes ==
  ASSUME Typed, NEW g \in Threads, SkipRead(g)
  PROVE  \E l : Goes(g, "skipping", l) /\ Has(l, local[g], local[g].mr, obj[local[g].mr].chain, local[g].i)
<1>1. PICK w, x : w = local[g] /\ x = obj[w.mr].chain OBVIOUS
<1>2. w \in Works(Len(obj)) /\ Len(obj) \in Nat BY <1>1, LocalShape DEF Typed
<1>3. x \in Nat BY <1>1, WorkAt, ObjectShape DEF Typed, SkipRead
<1>4. PICK l : l = [w EXCEPT !.pos = x] OBVIOUS
<1>5. l = [msg |-> w.msg, mr |-> w.mr, pos |-> x, i |-> w.i, root |-> w.root, foreign |-> w.foreign,
           row |-> w.row]
  BY <1>2, <1>3, <1>4, PosEdited
<1>6. Goes(g, "skipping", l) BY <1>1, <1>4, SetGoes DEF Typed, SkipRead
<1>7. Has(l, w, w.mr, x, w.i) BY <1>5 DEF Has
<1> QED BY <1>1, <1>6, <1>7

LEMMA SkipWriteGoes ==
  ASSUME Typed, NEW g \in Threads, SkipWrite(g)
  PROVE  \E l : /\ Goes(g, IF local[g].i + 1 < local[g].msg.index THEN "skip" ELSE "next", l)
                /\ Has(l, local[g], local[g].mr, local[g].pos, local[g].i + 1)
<1>1. PICK w, x : w = local[g] /\ x = w.i + 1 OBVIOUS
<1>2. w \in Works(Len(obj)) /\ Len(obj) \in Nat BY <1>1, LocalShape DEF Typed
<1>3. x \in Nat BY <1>1, <1>2, WorkShape
<1>4. PICK l : l = [w EXCEPT !.i = x] OBVIOUS
<1>5. l = [msg |-> w.msg, mr |-> w.mr, pos |-> w.pos, i |-> x, root |-> w.root, foreign |-> w.foreign,
           row |-> w.row]
  BY <1>2, <1>3, <1>4, IEdited
<1>6. Goes(g, IF x < w.msg.index THEN "skip" ELSE "next", l) BY <1>1, <1>4, SetGoes DEF Typed, SkipWrite
<1>7. Has(l, w, w.mr, w.pos, x) BY <1>5 DEF Has
<1> QED BY <1>1, <1>6, <1>7

LEMMA NextKeyGoes ==
  ASSUME Typed, NEW g \in Threads, NextKey(g)
  PROVE  \/ local[g].msg.index <= obj[local[g].mr].last /\ Goes(g, "idle", NoWork)
         \/ /\ local[g].msg.index > obj[local[g].mr].last
            /\ \E l : Goes(g, "advance", l) /\ Has(l, local[g], local[g].mr, obj[local[g].mr].chain, local[g].i)
<1>1. PICK w, x : w = local[g] /\ x = obj[w.mr].chain OBVIOUS
<1>2. w \in Works(Len(obj)) /\ Len(obj) \in Nat BY <1>1, LocalShape DEF Typed
<1>3. x \in Nat BY <1>1, WorkAt, ObjectShape DEF Typed, NextKey
<1>4. CASE w.msg.index <= obj[w.mr].last /\ Finish(g) BY <1>1, <1>4, FinishGoes DEF Typed
<1>5. CASE w.msg.index > obj[w.mr].last /\ Set(g, "advance", [w EXCEPT !.pos = x])
  <2>4. PICK l : l = [w EXCEPT !.pos = x] OBVIOUS
  <2>5. l = [msg |-> w.msg, mr |-> w.mr, pos |-> x, i |-> w.i, root |-> w.root, foreign |-> w.foreign,
             row |-> w.row]
    BY <1>2, <1>3, <2>4, PosEdited
  <2>6. Goes(g, "advance", l) BY <1>5, <2>4, SetGoes DEF Typed
  <2>7. Has(l, w, w.mr, x, w.i) BY <2>5 DEF Has
  <2> QED BY <1>1, <1>5, <2>6, <2>7
<1> QED BY <1>1, <1>4, <1>5 DEF NextKey

LEMMA EncryptReadGoes ==
  ASSUME Typed, EncryptRead
  PROVE  \E l : Goes("main", "cycle", l) /\ Has(l, local["main"], dh.cur, obj[dh.cur].chain, local["main"].i)
<1>0. "main" \in Threads BY DEF Threads
<1>1. PICK w, k, x : w = local["main"] /\ k = dh.cur /\ x = obj[k].chain OBVIOUS
<1>2. w \in Works(Len(obj)) /\ Len(obj) \in Nat BY <1>0, <1>1, LocalShape DEF Typed
<1>3. x \in Nat /\ k \in 1..Len(obj) /\ k \in 0..Len(obj) BY <1>1, MemoryShape, ObjectShape DEF Typed
<1>4. PICK e : e = [w EXCEPT !.mr = k] OBVIOUS
<1>5. /\ e = [msg |-> w.msg, mr |-> k, pos |-> w.pos, i |-> w.i, root |-> w.root, foreign |-> w.foreign,
              row |-> w.row]
      /\ e \in Works(Len(obj))
  BY <1>2, <1>3, <1>4, MrEdited
<1>6. PICK l : l = [e EXCEPT !.pos = x] OBVIOUS
<1>7. l = [msg |-> w.msg, mr |-> k, pos |-> x, i |-> w.i, root |-> w.root, foreign |-> w.foreign,
           row |-> w.row]
  BY <1>2, <1>3, <1>5, <1>6, PosEdited
<1>8. Goes("main", "cycle", l) BY <1>0, <1>1, <1>4, <1>6, SetGoes DEF Typed, EncryptRead
<1>9. Has(l, w, k, x, w.i) BY <1>7 DEF Has
<1> QED BY <1>1, <1>8, <1>9

LEMMA EncryptCycleGoes ==
  ASSUME Typed, EncryptCycle
  PROVE  \E l : /\ Goes("main", "seal", l)
                /\ Has(l, local["main"], local["main"].mr, local["main"].pos, obj[local["main"].mr].last + 1)
<1>0. "main" \in Threads BY DEF Threads
<1>1. PICK w, x : w = local["main"] /\ x = obj[w.mr].last + 1 OBVIOUS
<1>2. w \in Works(Len(obj)) /\ Len(obj) \in Nat BY <1>0, <1>1, LocalShape DEF Typed
<1>3. x \in Nat BY <1>0, <1>1, WorkAt, ObjectShape, LastsAre DEF Typed, EncryptCycle
<1>4. PICK l : l = [w EXCEPT !.i = x] OBVIOUS
<1>5. l = [msg |-> w.msg, mr |-> w.mr, pos |-> w.pos, i |-> x, root |-> w.root, foreign |-> w.foreign,
           row |-> w.row]
  BY <1>2, <1>3, <1>4, IEdited
<1>6. Goes("main", "seal", l) BY <1>0, <1>1, <1>4, SetGoes DEF Typed, EncryptCycle
<1>7. Has(l, w, w.mr, w.pos, x) BY <1>5 DEF Has
<1> QED BY <1>1, <1>6, <1>7

LEMMA StartTurnGoes ==
  ASSUME Typed, NEW g \in Threads, NEW d \in DHs(Len(obj)), d.cur = dh.cur, NEW foreign \in Pairs,
         StartTurn(g, d, foreign)
  PROVE  /\ \E l : /\ Goes(g, "turn", l) /\ l.msg = local[g].msg
                   /\ l.root = Append(d.root, Secret(d.keyPair, foreign)) /\ l.foreign = foreign
         /\ dh'.keyPair = d.keyPair /\ dh'.root = d.root /\ dh'.cur = d.cur /\ dh'.state = d.state
         /\ \A i \in 1..Len(dh'.prev) :
              \/ dh'.prev[i].copy.chain = obj[d.cur].chain /\ dh'.prev[i].copy.last = obj[d.cur].last
              \/ \E j \in 1..Len(d.prev) : dh'.prev[i].copy = d.prev[j].copy
<1>0. MemoryTyped /\ WorkTyped BY DEF Typed
<1>1. Len(obj) \in Nat /\ obj[d.cur] \in Objects /\ d.cur \in 1..Len(obj) BY <1>0, MemoryShape
<1>2. PICK o : o = [obj[d.cur] EXCEPT !.skipped = <<>>] OBVIOUS
<1>3. /\ o = [foreign |-> obj[d.cur].foreign, root |-> obj[d.cur].root, chain |-> obj[d.cur].chain,
              last |-> obj[d.cur].last, skipped |-> <<>>]
      /\ o \in Objects
  <2>1. <<>> \in Skips
    <3>1. <<>> \in [{} -> Int] OBVIOUS
    <3> QED BY <3>1 DEF Skips
  <2>2. o = [foreign |-> obj[d.cur].foreign, root |-> obj[d.cur].root, chain |-> obj[d.cur].chain,
             last |-> obj[d.cur].last, skipped |-> <<>>]
    BY <1>1, <1>2, ObjectShape
  <2> QED BY <1>1, <2>1, <2>2, ObjectShape, ObjectMade
<1>4. PICK c : c = [id |-> d.cur, copy |-> o] OBVIOUS
<1>5. c \in Copies(Len(obj)) BY <1>1, <1>3, <1>4 DEF Copies
<1>6. PICK s : s = Remember(d.prev, c) OBVIOUS
<1>7. d.prev \in Seq(Copies(Len(obj))) /\ d.root \in Roots /\ d.keyPair \in Pairs
      /\ d = [keyPair |-> d.keyPair, root |-> d.root, cur |-> d.cur, prev |-> d.prev, index |-> d.index,
              state |-> d.state]
  BY DEF DHs
<1>8. \A i \in 1..Len(s) : s[i] = c \/ \E j \in 1..Len(d.prev) : s[i] = d.prev[j]
  <2>1. ComesFrom(s, d.prev, c) BY <1>5, <1>6, <1>7, Remembered
  <2> QED BY <2>1 DEF ComesFrom
<1>9. dh' = [d EXCEPT !.prev = s] BY <1>2, <1>4, <1>6 DEF StartTurn
<1>10. dh' = [keyPair |-> d.keyPair, root |-> d.root, cur |-> d.cur, prev |-> s, index |-> d.index, state |-> d.state]
  BY <1>7, <1>9
<1>11. PICK root : root = Append(d.root, Secret(d.keyPair, foreign)) OBVIOUS
<1>12. root \in Roots BY <1>7, <1>11, SecretTyped DEF Roots
<1>13. PICK w : w = local[g] OBVIOUS
<1>14. w \in Works(Len(obj)) BY <1>0, <1>13, LocalShape
<1>15. PICK l : l = [w EXCEPT !.root = root, !.foreign = foreign] OBVIOUS
<1>16. l = [msg |-> w.msg, mr |-> w.mr, pos |-> w.pos, i |-> w.i, root |-> root, foreign |-> foreign,
            row |-> w.row]
  <2>1. PICK n : n = Len(obj) OBVIOUS
  <2>2. n \in Nat /\ w \in Works(n) BY <1>1, <1>14, <2>1
  <2> QED BY ONLY <1>12, <2>2, <1>15, foreign \in Pairs, RootEdited
<1>17. Goes(g, "turn", l) BY <1>0, <1>11, <1>13, <1>15, SetGoes DEF StartTurn
<1>18. \A i \in 1..Len(s) :
         \/ s[i].copy.chain = obj[d.cur].chain /\ s[i].copy.last = obj[d.cur].last
         \/ \E j \in 1..Len(d.prev) : s[i].copy = d.prev[j].copy
  BY <1>3, <1>4, <1>8
<1> QED BY SMTT(30), <1>10, <1>11, <1>13, <1>16, <1>17, <1>18

LEMMA MatchGoes ==
  ASSUME Typed, NEW g \in Threads, Match(g)
  PROVE  \/ /\ UNCHANGED dh /\ obj[dh.cur].foreign = local[g].msg.pub
            /\ \E l : Goes(g, "check", l) /\ Has(l, local[g], dh.cur, local[g].pos, local[g].i)
         \/ /\ obj[dh.cur].foreign # local[g].msg.pub
            /\ StartTurn(g, dh, local[g].msg.pub) /\ dh \in DHs(Len(obj)) /\ local[g].msg.pub \in Pairs
<1>1. PICK w : w = local[g] OBVIOUS
<1>2. w \in Works(Len(obj)) /\ Len(obj) \in Nat /\ w.msg \in Messages
  BY <1>1, LocalShape DEF Typed, Match, WorkOK, Sealing
<1>3. CASE UNCHANGED dh /\ obj[dh.cur].foreign = w.msg.pub /\ Set(g, "check", [local[g] EXCEPT !.mr = dh.cur])
  <2>1. PICK l : l = [w EXCEPT !.mr = dh.cur] OBVIOUS
  <2>2. dh.cur \in 0..Len(obj) BY MemoryShape DEF Typed
  <2>3. l = [msg |-> w.msg, mr |-> dh.cur, pos |-> w.pos, i |-> w.i, root |-> w.root, foreign |-> w.foreign,
             row |-> w.row]
    BY <1>2, <2>1, <2>2, MrEdited
  <2>4. Goes(g, "check", l) BY <1>1, <1>3, <2>1, SetGoes DEF Typed
  <2>5. Has(l, w, dh.cur, w.pos, w.i) BY <2>3 DEF Has
  <2> QED BY <1>1, <1>3, <2>4, <2>5
<1>4. CASE obj[dh.cur].foreign # w.msg.pub /\ StartTurn(g, dh, w.msg.pub)
  <2>1. dh \in DHs(Len(obj)) /\ w.msg.pub \in Pairs BY <1>2, MessageShape DEF Typed, MemoryTyped
  <2> QED BY <1>1, <1>4, <2>1
<1> QED BY <1>1, <1>3, <1>4 DEF Match

LEMMA Turn2Goes ==
  ASSUME Typed, NEW g \in Threads, Turn2(g)
  PROVE  /\ \E l : /\ Goes(g, IF local[g].msg # NoMessage THEN "check" ELSE "encrypt", l)
                   /\ Has(l, local[g], Len(obj) + 1, local[g].pos, local[g].i)
         /\ Len(obj') = Len(obj) + 1 /\ \A k \in 1..Len(obj) : obj'[k] = obj[k]
         /\ obj'[Len(obj) + 1] = NewObject(local[g].root, local[g].foreign)
         /\ dh'.keyPair = dh.keyPair /\ dh'.root = local[g].root /\ dh'.cur = Len(obj) + 1 /\ dh'.prev = dh.prev
         /\ dh'.state = IF local[g].msg # NoMessage THEN "Receiving" ELSE dh.state
<1>1. PICK w, n : w = local[g] /\ n = Len(obj) OBVIOUS
<1>2. w \in Works(n) /\ n \in Nat /\ n + 1 \in Nat BY <1>1, LocalShape DEF Typed
<1>3. PICK l : l = [w EXCEPT !.mr = n + 1] OBVIOUS
<1>4. l = [msg |-> w.msg, mr |-> n + 1, pos |-> w.pos, i |-> w.i, root |-> w.root, foreign |-> w.foreign,
           row |-> w.row]
  <2>1. n <= n + 1 /\ n + 1 \in 0..(n + 1) BY <1>2
  <2> QED BY <1>2, <1>3, <2>1, MrEdited
<1>5. Goes(g, IF w.msg # NoMessage THEN "check" ELSE "encrypt", l) BY <1>1, <1>3, SetGoes DEF Typed, Turn2
<1>6. Has(l, w, n + 1, w.pos, w.i) BY <1>4 DEF Has
<1>7. PICK o : o = NewObject(w.root, w.foreign) OBVIOUS
<1>8. obj' = Append(obj, o) BY <1>1, <1>7 DEF Turn2
<1>9. Len(obj') = n + 1 /\ obj'[n + 1] = o /\ \A k \in 1..n : obj'[k] = obj[k]
  BY <1>1, <1>8 DEF Typed, MemoryTyped
<1>10. PICK state : state = (IF w.msg # NoMessage THEN "Receiving" ELSE dh.state) OBVIOUS
<1>11. dh' = [dh EXCEPT !.root = w.root, !.cur = n + 1, !.index = @ + 1, !.state = state]
  BY <1>1, <1>10 DEF Turn2
<1>12. PICK d1 : d1 = [dh EXCEPT !.root = w.root, !.cur = n + 1] OBVIOUS
<1>13. d1 = [keyPair |-> dh.keyPair, root |-> w.root, cur |-> n + 1, prev |-> dh.prev, index |-> dh.index,
             state |-> dh.state]
  BY <1>12, MemoryShape DEF Typed
<1>14. dh' = [d1 EXCEPT !.index = @ + 1, !.state = state] BY <1>11, <1>12
<1>15. dh' = [keyPair |-> dh.keyPair, root |-> w.root, cur |-> n + 1, prev |-> dh.prev, index |-> dh.index + 1,
             state |-> state]
  BY <1>13, <1>14
<1> QED BY <1>1, <1>5, <1>6, <1>7, <1>9, <1>10, <1>15

LEMMA BeginSendGoes ==
  ASSUME Typed, BeginSend
  PROVE  \/ /\ UNCHANGED dh /\ dh.state = "Sending"
            /\ \E l : Goes("main", "encrypt", l) /\ l.msg = NoMessage
         \/ \E d : /\ d \in DHs(Len(obj)) /\ d.cur = dh.cur /\ d.keyPair = <<"us", sends + 1>> /\ d.root = dh.root
                   /\ d.prev = dh.prev /\ d.state = "Sending" /\ dh.state = "Receiving"
                   /\ obj[dh.cur].foreign \in Pairs /\ StartTurn("main", d, obj[dh.cur].foreign)
                   /\ local["main"].msg = NoMessage
<1>0. "main" \in Threads BY DEF Threads
<1>1. CASE /\ dh.state = "Sending" /\ UNCHANGED dh
           /\ Set("main", "encrypt", [NoWork EXCEPT !.mr = dh.cur])
  <2>1. PICK l : l = [NoWork EXCEPT !.mr = dh.cur] OBVIOUS
  <2>2. l.msg = NoMessage BY <2>1, NoWorkTyped
  <2>3. Goes("main", "encrypt", l) BY <1>0, <1>1, <2>1, SetGoes DEF Typed
  <2> QED BY <1>1, <2>2, <2>3
<1>2. CASE /\ dh.state = "Receiving"
           /\ StartTurn("main", [dh EXCEPT !.state = "Sending", !.keyPair = Key("us", sends + 1)], obj[dh.cur].foreign)
  <2>1. PICK d : d = [dh EXCEPT !.state = "Sending", !.keyPair = Key("us", sends + 1)] OBVIOUS
  <2>2. Key("us", sends + 1) \in Pairs BY DEF Typed, DbTyped, Key, Pairs, Who
  <2>3. PICK e : e = [dh EXCEPT !.state = "Sending"] OBVIOUS
  <2>4. e = [keyPair |-> dh.keyPair, root |-> dh.root, cur |-> dh.cur, prev |-> dh.prev, index |-> dh.index,
             state |-> "Sending"]
    BY <2>3, MemoryShape DEF Typed
  <2>5. d = [e EXCEPT !.keyPair = Key("us", sends + 1)] BY <2>1, <2>3
  <2>6. d = [keyPair |-> Key("us", sends + 1), root |-> dh.root, cur |-> dh.cur, prev |-> dh.prev,
             index |-> dh.index, state |-> "Sending"]
    BY <2>4, <2>5
  <2>7. d \in DHs(Len(obj)) BY <2>2, <2>6, MemoryShape DEF DHs, States, Typed
  <2>8. obj[dh.cur].foreign \in Pairs BY MemoryShape, ObjectShape DEF Typed
  <2>9. local["main"].msg = NoMessage
    <3>1. pc["main"] = "idle" BY DEF BeginSend, Busy
    <3>2. local["main"] = NoWork BY <1>0, <3>1, LocalShape DEF Typed, WorkOK
    <3> QED BY <3>2, NoWorkTyped
  <2> QED BY <1>2, <2>1, <2>6, <2>7, <2>8, <2>9 DEF Key
<1> QED BY <1>1, <1>2 DEF BeginSend

-----------------------------------------------------------------------------
(* The goroutines.                                                         *)

(* No two goroutines are amid their work with the ratchet.                 *)
Alone == ~ (pc["main"] \in Touching /\ pc["listener"] \in Touching)

LEMMA TwoThreads == "main" \in Threads /\ "listener" \in Threads /\ "main" # "listener"
                    /\ \A g \in Threads : g = "main" \/ g = "listener"
BY DEF Threads

(* What is noted stays noted, and it is noted when the two meet.           *)
Moved == \E g \in Threads : \E place, l : Set(g, place, l)

LEMMA HandlingMoves ==
  ASSUME NEW g \in Threads,
         \/ Match(g) \/ MatchPrevious(g) \/ Turn2(g) \/ UseSkipped(g) \/ Check(g) \/ SkipRead(g) \/ SkipWrite(g)
         \/ NextKey(g) \/ Advance(g) \/ Record(g) \/ Marshal(g) \/ Exec(g)
  PROVE  Moved
<1>1. CASE Match(g) BY Zenon, <1>1 DEF Match, StartTurn, Moved
<1>2. CASE MatchPrevious(g) BY Zenon, <1>2 DEF MatchPrevious, Finish, Moved
<1>3. CASE Turn2(g) BY Zenon, <1>3 DEF Turn2, Moved
<1>4. CASE UseSkipped(g) BY Zenon, <1>4 DEF UseSkipped, Opened, Finish, Moved
<1>5. CASE Check(g) BY Zenon, <1>5 DEF Check, Finish, Moved
<1>6. CASE SkipRead(g) BY Zenon, <1>6 DEF SkipRead, Moved
<1>7. CASE SkipWrite(g) BY Zenon, <1>7 DEF SkipWrite, Moved
<1>8. CASE NextKey(g) BY Zenon, <1>8 DEF NextKey, Finish, Moved
<1>9. CASE Advance(g) BY Zenon, <1>9 DEF Advance, Opened, Finish, Moved
<1>10. CASE Record(g) BY Zenon, <1>10 DEF Record, Moved
<1>11. CASE Marshal(g) BY Zenon, <1>11 DEF Marshal, Moved
<1>12. CASE Exec(g) BY Zenon, <1>12 DEF Exec, Finish, Moved
<1> QED BY <1>1, <1>2, <1>3, <1>4, <1>5, <1>6, <1>7, <1>8, <1>9, <1>10, <1>11, <1>12

LEMMA WritingMoves ==
  ASSUME \/ ReadPush \/ TakeFetched \/ BeginSend \/ EncryptRead \/ EncryptCycle \/ EncryptSeal
         \/ Post \/ Answered \/ NotAnswered
  PROVE  Moved
<1>0. "main" \in Threads /\ "listener" \in Threads BY DEF Threads
<1>1. CASE ReadPush BY Zenon, <1>0, <1>1 DEF ReadPush, Accept, Moved
<1>2. CASE TakeFetched BY Zenon, <1>0, <1>2 DEF TakeFetched, Accept, Moved
<1>3. CASE BeginSend BY Zenon, <1>0, <1>3 DEF BeginSend, StartTurn, Moved
<1>4. CASE EncryptRead BY Zenon, <1>0, <1>4 DEF EncryptRead, Moved
<1>5. CASE EncryptCycle BY Zenon, <1>0, <1>5 DEF EncryptCycle, Moved
<1>6. CASE EncryptSeal BY Zenon, <1>0, <1>6 DEF EncryptSeal, Moved
<1>7. CASE Post BY Zenon, <1>0, <1>7 DEF Post, Finish, Moved
<1>8. CASE Answered BY Zenon, <1>0, <1>8 DEF Answered, Moved
<1>9. CASE NotAnswered BY Zenon, <1>0, <1>9 DEF NotAnswered, Finish, Moved
<1> QED BY <1>1, <1>2, <1>3, <1>4, <1>5, <1>6, <1>7, <1>8, <1>9

LEMMA NextMoves ==
  ASSUME Next
  PROVE  \/ Moved \/ \E g \in Threads : RecordFails(g)
         \/ Restart
         \/ UNCHANGED pc /\ (UNCHANGED mishaps \/ \E kinds : Note(kinds))
<1>1. CASE LoginAnswered \/ Fetch \/ Fetched \/ EnterChats \/ PeerSends \/ PeerReads
  <2>1. UNCHANGED pc BY <1>1 DEF LoginAnswered, Fetch, Fetched, EnterChats, PeerSends, PeerReads
  <2>2. CASE LoginAnswered \/ Fetch \/ EnterChats \/ PeerSends \/ PeerReads
    BY <2>1, <2>2 DEF LoginAnswered, Fetch, EnterChats, PeerSends, PeerReads
  <2>3. CASE Fetched
    <3>1. UNCHANGED mishaps \/ \E kinds : Note(kinds) BY Zenon, <2>3 DEF Fetched
    <3> QED BY <2>1, <3>1
  <2> QED BY <1>1, <2>2, <2>3
<1>2. CASE \/ ReadPush \/ TakeFetched \/ BeginSend \/ EncryptRead \/ EncryptCycle \/ EncryptSeal
           \/ Post \/ Answered \/ NotAnswered
  BY <1>2, WritingMoves
<1>3. ASSUME NEW g \in Threads,
             \/ Match(g) \/ MatchPrevious(g) \/ Turn2(g) \/ UseSkipped(g) \/ Check(g) \/ SkipRead(g) \/ SkipWrite(g)
             \/ NextKey(g) \/ Advance(g) \/ Record(g) \/ Marshal(g) \/ Exec(g)
      PROVE  Moved
  BY <1>3, HandlingMoves
<1> QED BY Zenon, <1>1, <1>2, <1>3 DEF Next

LEMMA Noted ==
  ASSUME Typed, [Next]_vars
  PROVE  mishaps \subseteq mishaps' /\ (Alone /\ "met" \notin mishaps' => Alone')
<1>1. CASE Moved
  <2>1. PICK g \in Threads : \E place, l : Set(g, place, l) BY <1>1 DEF Moved
  <2>2. PICK place, l : Set(g, place, l) BY <2>1
  <2>3. mishaps \subseteq mishaps' BY <2>2 DEF Set, Note
  <2>4. ASSUME "met" \notin mishaps', Alone PROVE Alone'
    <3>1. Goes(g, place, l) BY <2>2, SetGoes DEF Typed
    <3>2. ~ (place \in Touching /\ \E h \in Threads \ {g} : pc[h] \in Touching) BY <2>2, <2>4 DEF Set, Note
    <3> QED BY <3>1, <3>2, <2>4, TwoThreads DEF Alone, Goes
  <2> QED BY <2>3, <2>4
<1>2. ASSUME NEW g \in Threads, RecordFails(g) PROVE mishaps \subseteq mishaps' /\ (Alone => Alone')
  <2>1. mishaps \subseteq mishaps' BY <1>2 DEF RecordFails, Note
  <2>2. \E place, l : place \notin Touching /\ Go(g, place, l)
    <3>1. Go(g, "marshal", local[g]) \/ Go(g, "idle", NoWork) BY <1>2 DEF RecordFails
    <3>2. "marshal" \notin Touching /\ "idle" \notin Touching BY DEF Touching
    <3> QED BY Zenon, <3>1, <3>2
  <2>3. \E place, l : place \notin Touching /\ Goes(g, place, l) BY <2>2, SetsOut DEF Typed
  <2> QED BY <2>1, <2>3, TwoThreads DEF Alone, Goes
<1>3. CASE Restart
  <2>1. mishaps \subseteq mishaps' BY <1>3 DEF Restart, Note
  <2>2. pc'["main"] = "idle" BY <1>3, TwoThreads DEF Restart
  <2> QED BY <2>1, <2>2 DEF Alone, Touching
<1>4. CASE UNCHANGED pc /\ (UNCHANGED mishaps \/ \E kinds : Note(kinds))
  BY <1>4 DEF Alone, Note
<1>5. CASE UNCHANGED vars BY <1>5 DEF vars, Alone
<1> QED BY <1>1, <1>2, <1>3, <1>4, <1>5, NextMoves

LEMMA SparedBefore ==
  ASSUME Typed, [Next]_vars, NEW kinds, Spared(kinds)'
  PROVE  Spared(kinds)
BY Noted DEF Spared

(* The two have met when it is noted, and not before.                      *)
AloneInv == Spared({"met"}) => Alone

LEMMA AloneInvHolds == Spec => []AloneInv
<1>1. Init => AloneInv
  <2>1. Init => pc["main"] = "idle" BY TwoThreads DEF Init
  <2> QED BY <2>1 DEF AloneInv, Alone, Touching
<1>2. Typed /\ AloneInv /\ [Next]_vars => AloneInv' BY Noted DEF AloneInv, Spared
<1> QED BY <1>1, <1>2, TypesHold, PTL DEF Spec

-----------------------------------------------------------------------------
(* The chain and its index.                                                *)

HandlingStep(g) ==
  \/ Match(g) \/ MatchPrevious(g) \/ Turn2(g) \/ UseSkipped(g) \/ Check(g) \/ SkipRead(g) \/ SkipWrite(g)
  \/ NextKey(g) \/ Advance(g)

Even(o) == o.chain = o.last + 1
Working == {"skip", "skipping", "next", "advance", "seal"}

(* How far a goroutine has got with object o.                              *)
Progress(place, l, o) ==
  /\ place \in {"skip", "skipping"} => o.last < l.i /\ l.i < l.msg.index /\ o.chain = l.i
  /\ place = "skipping" => l.pos = l.i
  /\ place = "next" => IF l.msg.index <= o.last THEN Even(o) ELSE o.chain = l.msg.index
  /\ place = "advance" => l.pos = o.chain /\ o.chain = l.msg.index /\ o.last < l.msg.index
  /\ place = "cycle" => l.pos = o.chain
  /\ place = "seal" => o.chain = l.pos + 1 /\ l.i = o.last + 1 /\ l.i = l.pos

EvenSnapshot(s) == Even(s.cur) /\ \A i \in 1..Len(s.prev) : Even(s.prev[i].copy)

ObjectsEven == \A i \in 1..Len(obj) : Even(obj[i]) \/ \E g \in Threads : pc[g] \in Working /\ local[g].mr = i
CopiesEven == \A i \in 1..Len(dh.prev) : Even(dh.prev[i].copy)
RowEven(row) == row.whole => EvenSnapshot(row.ratchet)
SavedEven == RowEven(saved) /\ \A g \in Threads : pc[g] = "exec" => RowEven(local[g].row)

(* Only the object a goroutine works on may be uneven, and then as far as  *)
(* the goroutine has got; a row made while no other was at it is even.     *)
ChainInv ==
  /\ ObjectsEven /\ CopiesEven /\ SavedEven
  /\ \A g \in Threads : Progress(pc[g], local[g], obj[local[g].mr])

LEMMA OtherRests ==
  ASSUME Alone, NEW g \in Threads, pc[g] \in Touching, NEW h \in Threads \ {g}
  PROVE  pc[h] \notin Touching
BY TwoThreads DEF Alone

LEMMA EvenWhere ==
  ASSUME ChainInv, Alone, NEW g \in Threads, pc[g] \in Touching, NEW i \in 1..Len(obj),
         ~ (pc[g] \in Working /\ local[g].mr = i)
  PROVE  Even(obj[i])
<1>1. \A h \in Threads \ {g} : pc[h] \notin Working
  BY OtherRests DEF Working, Touching
<1> QED BY <1>1 DEF ChainInv, ObjectsEven

(* A step of the only one who touches the ratchet.                         *)
LEMMA AloneChain ==
  ASSUME ChainInv, NEW g \in Threads, \A h \in Threads \ {g} : pc[h] \notin Touching, NEW place, place # "exec", NEW l, Goes(g, place, l),
         \A i \in 1..Len(obj') : Even(obj'[i]) \/ (place \in Working /\ l.mr = i),
         Progress(place, l, obj'[l.mr]),
         \A i \in 1..Len(dh'.prev) : Even(dh'.prev[i].copy),
         UNCHANGED saved
  PROVE  ChainInv'
<1>1. \A h \in Threads \ {g} : pc'[h] = pc[h] /\ local'[h] = local[h] /\ pc[h] \notin Touching
  BY DEF Goes
<1>2. \A h \in Threads : Progress(pc'[h], local'[h], obj'[local'[h].mr])
  <2>1. ASSUME NEW h \in Threads \ {g} PROVE Progress(pc'[h], local'[h], obj'[local'[h].mr])
    BY <1>1 DEF Progress, Touching
  <2> QED BY <2>1 DEF Goes
<1>3. ObjectsEven' BY DEF ObjectsEven, Goes, Even
<1>4. CopiesEven' BY DEF CopiesEven, Even
<1>5. SavedEven'
  <2>1. \A h \in Threads : pc'[h] = "exec" => pc[h] = "exec" /\ local'[h] = local[h] BY <1>1 DEF Goes
  <2> QED BY <2>1 DEF ChainInv, SavedEven, RowEven, EvenSnapshot, Even
<1> QED BY <1>2, <1>3, <1>4, <1>5 DEF ChainInv, Progress, Even

LEMMA TouchChain ==
  ASSUME ChainInv, Alone, NEW g \in Threads, pc[g] \in Touching, NEW place, place # "exec", NEW l, Goes(g, place, l),
         \A i \in 1..Len(obj') : Even(obj'[i]) \/ (place \in Working /\ l.mr = i),
         Progress(place, l, obj'[l.mr]),
         \A i \in 1..Len(dh'.prev) : Even(dh'.prev[i].copy),
         UNCHANGED saved
  PROVE  ChainInv'
<1>1. \A h \in Threads \ {g} : pc[h] \notin Touching BY OtherRests
<1> QED BY <1>1, AloneChain

(* A step of a goroutine that leaves the memory alone and was not and is   *)
(* not between two statements that touch it.                               *)
LEMMA RestChain ==
  ASSUME ChainInv, NEW g \in Threads, pc[g] \notin Touching, NEW place, NEW l, Goes(g, place, l),
         place \notin Touching \/ place = "encrypt",
         UNCHANGED <<memory, saved>>, place # "exec"
  PROVE  ChainInv'
<1>1. /\ \A h \in Threads \ {g} : pc'[h] = pc[h] /\ local'[h] = local[h]
      /\ pc'[g] = place /\ local'[g] = l /\ UNCHANGED <<obj, dh>>
  BY DEF Goes, memory
<1>2. \A h \in Threads : Progress(pc'[h], local'[h], obj'[local'[h].mr])
  <2>1. Progress(place, l, obj[l.mr]) BY DEF Progress, Touching
  <2> QED BY <1>1, <2>1 DEF ChainInv
<1>3. ObjectsEven'
  <2>1. pc[g] \notin Working BY DEF Working, Touching
  <2>2. \A i \in 1..Len(obj) : Even(obj[i]) \/ \E h \in Threads \ {g} : pc[h] \in Working /\ local[h].mr = i
    BY <2>1 DEF ChainInv, ObjectsEven
  <2> QED BY <1>1, <2>2 DEF ObjectsEven, Even
<1>4. CopiesEven' BY <1>1 DEF ChainInv, CopiesEven, Even
<1>5. SavedEven' BY SMTT(30), <1>1 DEF ChainInv, SavedEven, RowEven, EvenSnapshot, Even
<1> QED BY <1>2, <1>3, <1>4, <1>5 DEF ChainInv, Progress, Even

(* The message is opened with a key of the ratchet, or not.                *)
LEMMA EndsChain ==
  ASSUME Typed, ChainInv, Alone, NEW g \in Threads, pc[g] \in Touching, Ends(g),
         \A i \in 1..Len(obj') : Even(obj'[i]), UNCHANGED <<dh, saved>>
  PROVE  ChainInv'
<1>1. \A i \in 1..Len(dh'.prev) : Even(dh'.prev[i].copy) BY DEF ChainInv, CopiesEven
<1>2. CASE Goes(g, "idle", NoWork)
  <2>1. Progress("idle", NoWork, obj'[NoWork.mr]) BY DEF Progress
  <2> QED BY <1>1, <1>2, <2>1, TouchChain
<1>3. CASE Goes(g, "record", local[g])
  <2>1. Progress("record", local[g], obj'[local[g].mr]) BY DEF Progress
  <2> QED BY <1>1, <1>3, <2>1, TouchChain
<1> QED BY <1>2, <1>3 DEF Ends

LEMMA UseSkippedChain ==
  ASSUME Typed, ChainInv, Alone, NEW g \in Threads, UseSkipped(g)
  PROVE  ChainInv'
<1>1. pc[g] = "check" /\ UNCHANGED <<dh, saved>> BY DEF UseSkipped, dbVars
<1>2. PICK k : k = local[g].mr /\ Moves(k, obj[k].chain, obj[k].last) BY UseSkippedMoves DEF Typed
<1>3. pc[g] \in Touching /\ pc[g] \notin Working BY <1>1 DEF Touching, Working
<1>4. \A i \in 1..Len(obj) : Even(obj[i]) BY <1>3, EvenWhere
<1>5. \A i \in 1..Len(obj') : Even(obj'[i]) BY <1>2, <1>4 DEF Moves, Even
<1> QED BY <1>1, <1>3, <1>5, UseSkippedGoes, EndsChain

(* Work on a copy moves no chain, whatever the other goroutine is at.      *)
LEMMA MatchPreviousChain ==
  ASSUME Typed, ChainInv, NEW g \in Threads, MatchPrevious(g)
  PROVE  ChainInv'
<1>1. pc[g] = "match" /\ UNCHANGED <<dh, saved>> BY DEF MatchPrevious, dbVars
<1>2. PICK k : Moves(k, obj[k].chain, obj[k].last) BY MatchPreviousMoves DEF Typed
<1>3. /\ Len(obj') = Len(obj)
      /\ \A i \in 1..Len(obj) : obj'[i].chain = obj[i].chain /\ obj'[i].last = obj[i].last
  BY <1>2 DEF Moves
<1>4. PICK place, l : Goes(g, place, l) /\ place \in {"idle", "record"} BY MatchPreviousGoes DEF Ends
<1>5. \A h \in Threads \ {g} : pc'[h] = pc[h] /\ local'[h] = local[h] BY <1>4 DEF Goes
<1>6. ASSUME NEW h \in Threads PROVE Progress(pc'[h], local'[h], obj'[local'[h].mr])
  <2>1. CASE pc'[h] \notin Touching BY <2>1 DEF Progress, Touching
  <2>2. CASE pc'[h] \in {"turn", "encrypt"} BY <2>2 DEF Progress
  <2>3. CASE pc'[h] \in Touching \ {"turn", "encrypt"}
    <3>1. h # g BY <1>4, <2>3 DEF Goes, Touching
    <3>2. local[h].mr \in 1..Len(obj) BY <1>5, <2>3, <3>1, WorkAt DEF Typed, Touching
    <3>3. Progress(pc[h], local[h], obj[local[h].mr]) BY DEF ChainInv
    <3>4. Progress(pc[h], local[h], obj'[local[h].mr]) BY <1>3, <3>2, <3>3 DEF Progress, Even
    <3> QED BY <1>5, <3>1, <3>4
  <2> QED BY <2>1, <2>2, <2>3
<1>7. ObjectsEven'
  <2>1. pc[g] \notin Working BY <1>1 DEF Working
  <2> QED BY <1>3, <1>5, <2>1 DEF ChainInv, ObjectsEven, Even
<1>8. CopiesEven' BY <1>1 DEF ChainInv, CopiesEven, Even
<1>9. SavedEven'
  <2>1. \A h \in Threads : pc'[h] = "exec" => pc[h] = "exec" /\ local'[h] = local[h] BY <1>4, <1>5 DEF Goes
  <2> QED BY SMTT(30), <1>1, <2>1 DEF ChainInv, SavedEven, RowEven, EvenSnapshot, Even
<1> QED BY <1>6, <1>7, <1>8, <1>9 DEF ChainInv, Progress, Even

LEMMA AdvanceChain ==
  ASSUME Typed, ChainInv, Alone, NEW g \in Threads, Advance(g)
  PROVE  ChainInv'
<1>1. pc[g] = "advance" /\ UNCHANGED <<dh, saved>> BY DEF Advance, dbVars
<1>2. PICK k : k = local[g].mr /\ Moves(k, local[g].pos + 1, local[g].msg.index) BY AdvanceMoves DEF Typed
<1>3. pc[g] \in Touching BY <1>1 DEF Touching
<1>4. \A i \in 1..Len(obj) : i # k => Even(obj[i]) BY <1>2, <1>3, EvenWhere
<1>5. local[g].pos = local[g].msg.index BY <1>1 DEF ChainInv, Progress
<1>6. \A i \in 1..Len(obj') : Even(obj'[i]) BY <1>2, <1>4, <1>5 DEF Moves, Even
<1> QED BY <1>1, <1>3, <1>6, AdvanceGoes, EndsChain

LEMMA CheckChain ==
  ASSUME Typed, ChainInv, Alone, NEW g \in Threads, Check(g)
  PROVE  ChainInv'
<1>1. pc[g] = "check" /\ UNCHANGED <<memory, dh, obj, saved>> BY DEF Check, dbVars, memory
<1>3. pc[g] \in Touching /\ pc[g] \notin Working BY <1>1 DEF Touching, Working
<1>4. \A i \in 1..Len(obj) : Even(obj[i]) BY <1>3, EvenWhere
<1>5. \A i \in 1..Len(dh'.prev) : Even(dh'.prev[i].copy) BY <1>1 DEF ChainInv, CopiesEven
<1>6. PICK w, o : w = local[g] /\ o = obj[w.mr] OBVIOUS
<1>7. Even(o) /\ o.last \in Int /\ o.last + 1 \in Nat /\ w.msg.index \in Nat
  <2>1. w.mr \in 1..Len(obj) /\ obj[w.mr] \in Objects BY <1>1, <1>6, WorkAt DEF Typed
  <2>2. w.msg.index \in Nat BY <1>6, LocalShape, WorkShape, MessageShape DEF Typed
  <2> QED BY <1>4, <1>6, <2>1, <2>2, ObjectShape, LastsAre
<1>8. PICK l :
        \/ w.msg.index <= o.last + 1 /\ Goes(g, "next", l) /\ l = w
        \/ w.msg.index > o.last + 1 /\ Goes(g, "skip", l) /\ Has(l, w, w.mr, w.pos, o.last + 1)
        \/ Goes(g, "idle", NoWork)
  BY <1>6, CheckGoes
<1>9. CASE w.msg.index <= o.last + 1 /\ Goes(g, "next", l) /\ l = w
  <2>1. Progress("next", l, obj'[l.mr]) BY <1>1, <1>6, <1>7, <1>9 DEF Progress, Even
  <2> QED BY <1>1, <1>3, <1>4, <1>5, <1>9, <2>1, TouchChain
<1>10. CASE w.msg.index > o.last + 1 /\ Goes(g, "skip", l) /\ Has(l, w, w.mr, w.pos, o.last + 1)
  <2>1. Progress("skip", l, obj'[l.mr]) BY <1>1, <1>6, <1>7, <1>10 DEF Progress, Even, Has
  <2> QED BY <1>1, <1>3, <1>4, <1>5, <1>10, <2>1, TouchChain
<1>11. CASE Goes(g, "idle", NoWork)
  BY <1>1, <1>3, <1>4, <1>11, EndsChain DEF Ends
<1> QED BY <1>8, <1>9, <1>10, <1>11

LEMMA SkipReadChain ==
  ASSUME Typed, ChainInv, Alone, NEW g \in Threads, SkipRead(g)
  PROVE  ChainInv'
<1>1. pc[g] = "skip" /\ UNCHANGED <<memory, dh, obj, saved>> BY DEF SkipRead, dbVars, memory
<1>3. pc[g] \in Touching BY <1>1 DEF Touching
<1>4. \A i \in 1..Len(obj) : Even(obj[i]) \/ local[g].mr = i BY <1>3, EvenWhere
<1>5. \A i \in 1..Len(dh'.prev) : Even(dh'.prev[i].copy) BY <1>1 DEF ChainInv, CopiesEven
<1>6. PICK l : Goes(g, "skipping", l) /\ Has(l, local[g], local[g].mr, obj[local[g].mr].chain, local[g].i)
  BY SkipReadGoes
<1>7. Progress("skip", local[g], obj[local[g].mr]) BY <1>1 DEF ChainInv
<1>8. Progress("skipping", l, obj'[l.mr]) BY <1>1, <1>6, <1>7 DEF Progress, Has
<1>9. \A i \in 1..Len(obj') : Even(obj'[i]) \/ ("skipping" \in Working /\ l.mr = i)
  BY <1>1, <1>4, <1>6 DEF Has, Working
<1> QED BY <1>1, <1>3, <1>5, <1>6, <1>8, <1>9, TouchChain

LEMMA SkipWriteChain ==
  ASSUME Typed, ChainInv, Alone, NEW g \in Threads, SkipWrite(g)
  PROVE  ChainInv'
<1>1. pc[g] = "skipping" /\ UNCHANGED <<dh, saved>> BY DEF SkipWrite, dbVars
<1>2. PICK w, k : w = local[g] /\ k = w.mr /\ Moves(k, w.pos + 1, obj[k].last) BY SkipWriteMoves DEF Typed
<1>3. pc[g] \in Touching BY <1>1 DEF Touching
<1>4. \A i \in 1..Len(obj) : Even(obj[i]) \/ k = i BY <1>2, <1>3, EvenWhere
<1>5. \A i \in 1..Len(dh'.prev) : Even(dh'.prev[i].copy) BY <1>1 DEF ChainInv, CopiesEven
<1>6. PICK place, l : /\ place = (IF w.i + 1 < w.msg.index THEN "skip" ELSE "next")
                      /\ Goes(g, place, l) /\ Has(l, w, k, w.pos, w.i + 1)
  BY <1>2, SkipWriteGoes
<1>7. Progress("skipping", w, obj[k]) BY <1>1, <1>2 DEF ChainInv
<1>8. w.i \in Nat /\ w.msg.index \in Nat /\ obj[k].last \in Int
  <2>1. w.i \in Nat /\ w.msg.index \in Nat BY <1>2, LocalShape, WorkShape, MessageShape DEF Typed
  <2>2. obj[k] \in Objects BY <1>1, <1>2, WorkAt DEF Typed
  <2> QED BY <2>1, <2>2, ObjectShape, LastsAre
<1>9. obj'[k].chain = w.i + 1 /\ obj'[k].last = obj[k].last BY <1>2, <1>7 DEF Moves, Progress
<1>10. Progress(place, l, obj'[l.mr])
  BY <1>6, <1>7, <1>8, <1>9 DEF Progress, Has
<1>11. \A i \in 1..Len(obj') : Even(obj'[i]) \/ (place \in Working /\ l.mr = i)
  BY <1>2, <1>4, <1>6 DEF Has, Working, Moves
<1> QED BY <1>1, <1>3, <1>5, <1>6, <1>10, <1>11, TouchChain

LEMMA NextKeyChain ==
  ASSUME Typed, ChainInv, Alone, NEW g \in Threads, NextKey(g)
  PROVE  ChainInv'
<1>1. pc[g] = "next" /\ UNCHANGED <<memory, dh, obj, saved>> BY DEF NextKey, dbVars, memory
<1>2. PICK w, k : w = local[g] /\ k = w.mr OBVIOUS
<1>3. pc[g] \in Touching BY <1>1 DEF Touching
<1>4. \A i \in 1..Len(obj) : Even(obj[i]) \/ k = i BY <1>2, <1>3, EvenWhere
<1>5. \A i \in 1..Len(dh'.prev) : Even(dh'.prev[i].copy) BY <1>1 DEF ChainInv, CopiesEven
<1>7. Progress("next", w, obj[k]) BY <1>1, <1>2 DEF ChainInv
<1>8. CASE w.msg.index <= obj[k].last /\ Goes(g, "idle", NoWork)
  <2>1. \A i \in 1..Len(obj') : Even(obj'[i]) BY <1>1, <1>4, <1>7, <1>8 DEF Progress
  <2> QED BY <1>1, <1>3, <1>8, <2>1, EndsChain DEF Ends
<1>9. CASE /\ w.msg.index > obj[k].last
           /\ \E l : Goes(g, "advance", l) /\ Has(l, w, k, obj[k].chain, w.i)
  <2>1. PICK l : Goes(g, "advance", l) /\ Has(l, w, k, obj[k].chain, w.i) BY <1>9
  <2>2. w.msg.index \in Nat /\ obj[k].last \in Int
    <3>1. w.msg.index \in Nat BY <1>2, LocalShape, WorkShape, MessageShape DEF Typed
    <3>2. obj[k] \in Objects BY <1>1, <1>2, WorkAt DEF Typed
    <3> QED BY <3>1, <3>2, ObjectShape, LastsAre
  <2>3. Progress("advance", l, obj'[l.mr]) BY <1>1, <1>7, <1>9, <2>1, <2>2 DEF Progress, Has
  <2>4. \A i \in 1..Len(obj') : Even(obj'[i]) \/ ("advance" \in Working /\ l.mr = i)
    BY <1>1, <1>4, <2>1 DEF Has, Working
  <2> QED BY <1>1, <1>3, <1>5, <2>1, <2>3, <2>4, TouchChain
<1> QED BY <1>2, <1>8, <1>9, NextKeyGoes

(* A turn begins while the other goroutine is elsewhere.                   *)
LEMMA StartTurnChain ==
  ASSUME Typed, ChainInv, NEW g \in Threads, \A h \in Threads \ {g} : pc[h] \notin Touching,
         \A i \in 1..Len(obj) : Even(obj[i]),
         NEW d \in DHs(Len(obj)), d.cur = dh.cur, d.prev = dh.prev, NEW foreign \in Pairs, StartTurn(g, d, foreign),
         UNCHANGED <<obj, saved>>
  PROVE  ChainInv'
<1>1. PICK l : Goes(g, "turn", l) BY StartTurnGoes
<1>2. Even(obj[dh.cur]) BY MemoryShape DEF Typed
<1>3. \A i \in 1..Len(dh'.prev) :
        \/ dh'.prev[i].copy.chain = obj[d.cur].chain /\ dh'.prev[i].copy.last = obj[d.cur].last
        \/ \E j \in 1..Len(d.prev) : dh'.prev[i].copy = d.prev[j].copy
  BY StartTurnGoes
<1>4. CopiesEven' BY SMTT(30), <1>2, <1>3 DEF ChainInv, CopiesEven, Even
<1>5. \A h \in Threads \ {g} : pc'[h] = pc[h] /\ local'[h] = local[h] BY <1>1 DEF Goes
<1>6. \A h \in Threads : Progress(pc'[h], local'[h], obj'[local'[h].mr])
  <2>1. ASSUME NEW h \in Threads \ {g} PROVE Progress(pc'[h], local'[h], obj'[local'[h].mr])
    BY <1>5 DEF Progress, Touching
  <2>2. Progress(pc'[g], local'[g], obj'[local'[g].mr]) BY <1>1 DEF Progress, Goes
  <2> QED BY <2>1, <2>2
<1>7. ObjectsEven' BY DEF ObjectsEven, Even
<1>8. SavedEven'
  <2>1. \A h \in Threads : pc'[h] = "exec" => pc[h] = "exec" /\ local'[h] = local[h] BY <1>1 DEF Goes
  <2> QED BY <2>1 DEF ChainInv, SavedEven, RowEven, EvenSnapshot, Even
<1> QED BY <1>4, <1>6, <1>7, <1>8 DEF ChainInv, Progress, Even

LEMMA MatchChain ==
  ASSUME Typed, ChainInv, Alone', NEW g \in Threads, Match(g)
  PROVE  ChainInv'
<1>1. pc[g] = "match" /\ UNCHANGED <<obj, saved>> BY DEF Match, dbVars
<1>2. \A h \in Threads \ {g} : pc[h] \notin Touching
  <2>1. \E place, l : Goes(g, place, l) /\ place \in {"check", "turn"} BY MatchGoes, StartTurnGoes
  <2> QED BY <2>1, TwoThreads DEF Alone, Goes, Touching
<1>3. \A i \in 1..Len(obj) : Even(obj[i])
  <2>1. \A h \in Threads : pc[h] \notin Working BY <1>1, <1>2 DEF Working, Touching
  <2> QED BY <2>1 DEF ChainInv, ObjectsEven
<1>4. CASE UNCHANGED dh /\ \E l : Goes(g, "check", l)
  <2>1. PICK l : Goes(g, "check", l) BY <1>4
  <2>2. \A i \in 1..Len(dh'.prev) : Even(dh'.prev[i].copy) BY <1>4 DEF ChainInv, CopiesEven
  <2>3. Progress("check", l, obj'[l.mr]) BY DEF Progress
  <2> QED BY <1>1, <1>2, <1>3, <2>1, <2>2, <2>3, AloneChain
<1>5. CASE StartTurn(g, dh, local[g].msg.pub) /\ dh \in DHs(Len(obj)) /\ local[g].msg.pub \in Pairs
  BY <1>1, <1>2, <1>3, <1>5, StartTurnChain
<1> QED BY <1>4, <1>5, MatchGoes

LEMMA Turn2Chain ==
  ASSUME Typed, ChainInv, Alone, NEW g \in Threads, Turn2(g)
  PROVE  ChainInv'
<1>1. pc[g] = "turn" /\ UNCHANGED saved BY DEF Turn2, dbVars
<1>2. pc[g] \in Touching /\ pc[g] \notin Working BY <1>1 DEF Touching, Working
<1>3. \A i \in 1..Len(obj) : Even(obj[i]) BY <1>2, EvenWhere
<1>4. PICK place, l : place = (IF local[g].msg # NoMessage THEN "check" ELSE "encrypt") /\ Goes(g, place, l)
  BY Turn2Goes
<1>5. \A i \in 1..Len(obj') : Even(obj'[i])
  <2>1. /\ Len(obj') = Len(obj) + 1 /\ \A k \in 1..Len(obj) : obj'[k] = obj[k]
        /\ obj'[Len(obj) + 1] = NewObject(local[g].root, local[g].foreign) /\ Len(obj) \in Nat
    BY Turn2Goes, MemoryShape DEF Typed
  <2>2. Even(obj'[Len(obj) + 1]) BY <2>1 DEF Even, NewObject
  <2>3. \A i \in 1..Len(obj') : i \in 1..Len(obj) \/ i = Len(obj) + 1 BY <2>1
  <2> QED BY <1>3, <2>1, <2>2, <2>3
<1>6. \A i \in 1..Len(dh'.prev) : Even(dh'.prev[i].copy) BY Turn2Goes DEF ChainInv, CopiesEven
<1>7. Progress(place, l, obj'[l.mr]) BY <1>4 DEF Progress
<1>8. place # "exec" BY <1>4
<1> QED BY <1>1, <1>2, <1>4, <1>5, <1>6, <1>7, <1>8, TouchChain

LEMMA BeginSendChain ==
  ASSUME Typed, ChainInv, Alone', BeginSend
  PROVE  ChainInv'
<1>1. pc["main"] = "idle" /\ UNCHANGED <<obj, saved>> BY DEF BeginSend, Busy, dbVars
<1>2. CASE UNCHANGED dh /\ \E l : Goes("main", "encrypt", l)
  <2>1. PICK l : Goes("main", "encrypt", l) BY <1>2
  <2>2. pc["main"] \notin Touching BY <1>1 DEF Touching
  <2>3. UNCHANGED memory BY <1>1, <1>2 DEF memory
  <2> QED BY <1>1, <2>1, <2>2, <2>3, RestChain, TwoThreads
<1>3. CASE \E d : /\ d \in DHs(Len(obj)) /\ d.cur = dh.cur /\ d.prev = dh.prev
                  /\ obj[dh.cur].foreign \in Pairs /\ StartTurn("main", d, obj[dh.cur].foreign)
  <2>1. PICK d : /\ d \in DHs(Len(obj)) /\ d.cur = dh.cur /\ d.prev = dh.prev
                 /\ obj[dh.cur].foreign \in Pairs /\ StartTurn("main", d, obj[dh.cur].foreign)
    BY <1>3
  <2>2. \E l : Goes("main", "turn", l) BY <2>1, StartTurnGoes, TwoThreads
  <2>3. pc["listener"] \notin Touching BY <2>2, TwoThreads DEF Alone, Goes, Touching
  <2>4. \A h \in Threads : pc[h] \notin Working
    BY <1>1, <2>3, TwoThreads DEF Working, Touching
  <2>5. \A i \in 1..Len(obj) : Even(obj[i]) BY <2>4 DEF ChainInv, ObjectsEven
  <2>6. \A h \in Threads \ {"main"} : pc[h] \notin Touching BY <2>3, TwoThreads
  <2> QED BY <1>1, <2>1, <2>5, <2>6, StartTurnChain, TwoThreads
<1> QED BY <1>2, <1>3, BeginSendGoes

LEMMA EncryptReadChain ==
  ASSUME Typed, ChainInv, Alone, EncryptRead
  PROVE  ChainInv'
<1>1. pc["main"] = "encrypt" /\ UNCHANGED <<obj, dh, saved>> BY DEF EncryptRead, dbVars, memory
<1>2. pc["main"] \in Touching /\ pc["main"] \notin Working BY <1>1 DEF Touching, Working
<1>3. \A i \in 1..Len(obj) : Even(obj[i]) BY <1>2, EvenWhere, TwoThreads
<1>4. PICK l : Goes("main", "cycle", l) /\ Has(l, local["main"], dh.cur, obj[dh.cur].chain, local["main"].i)
  BY EncryptReadGoes
<1>5. Progress("cycle", l, obj'[l.mr]) BY <1>1, <1>4 DEF Progress, Has
<1>6. \A i \in 1..Len(dh'.prev) : Even(dh'.prev[i].copy) BY <1>1 DEF ChainInv, CopiesEven
<1> QED BY <1>1, <1>2, <1>3, <1>4, <1>5, <1>6, TouchChain, TwoThreads

LEMMA EncryptCycleChain ==
  ASSUME Typed, ChainInv, Alone, EncryptCycle
  PROVE  ChainInv'
<1>1. pc["main"] = "cycle" /\ UNCHANGED <<dh, saved>> BY DEF EncryptCycle, dbVars
<1>2. PICK w, k : w = local["main"] /\ k = w.mr /\ Moves(k, w.pos + 1, obj[k].last) BY EncryptCycleMoves DEF Typed
<1>3. pc["main"] \in Touching /\ pc["main"] \notin Working BY <1>1 DEF Touching, Working
<1>4. \A i \in 1..Len(obj) : Even(obj[i]) BY <1>3, EvenWhere, TwoThreads
<1>5. PICK l : Goes("main", "seal", l) /\ Has(l, w, k, w.pos, obj[k].last + 1) BY <1>2, EncryptCycleGoes
<1>6. Progress("cycle", w, obj[k]) BY <1>1, <1>2, TwoThreads DEF ChainInv
<1>7. Even(obj[k]) BY <1>2, <1>4 DEF Moves
<1>8. Progress("seal", l, obj'[l.mr]) BY <1>2, <1>5, <1>6, <1>7 DEF Progress, Has, Moves, Even
<1>9. \A i \in 1..Len(obj') : Even(obj'[i]) \/ ("seal" \in Working /\ l.mr = i)
  BY <1>2, <1>4, <1>5 DEF Moves, Even, Has, Working
<1>10. \A i \in 1..Len(dh'.prev) : Even(dh'.prev[i].copy) BY <1>1 DEF ChainInv, CopiesEven
<1> QED BY <1>1, <1>3, <1>5, <1>8, <1>9, <1>10, TouchChain, TwoThreads

LEMMA EncryptSealChain ==
  ASSUME Typed, ChainInv, Alone, EncryptSeal
  PROVE  ChainInv'
<1>1. pc["main"] = "seal" /\ UNCHANGED <<dh, saved>> BY DEF EncryptSeal, dbVars
<1>2. PICK w, k : w = local["main"] /\ k = w.mr /\ Moves(k, obj[k].chain, w.i) BY EncryptSealMoves DEF Typed
<1>3. pc["main"] \in Touching BY <1>1 DEF Touching
<1>4. \A i \in 1..Len(obj) : i # k => Even(obj[i]) BY <1>2, <1>3, EvenWhere, TwoThreads
<1>5. Progress("seal", w, obj[k]) BY <1>1, <1>2, TwoThreads DEF ChainInv
<1>6. \A i \in 1..Len(obj') : Even(obj'[i]) BY <1>2, <1>4, <1>5 DEF Moves, Even, Progress
<1>7. PICK l : Goes("main", "post", l) BY EncryptSealSets, SetGoes, TwoThreads DEF Typed
<1>8. Progress("post", l, obj'[l.mr]) BY DEF Progress
<1>9. \A i \in 1..Len(dh'.prev) : Even(dh'.prev[i].copy) BY <1>1 DEF ChainInv, CopiesEven
<1> QED BY <1>1, <1>3, <1>6, <1>7, <1>8, <1>9, TouchChain, TwoThreads

LEMMA RestingChain ==
  ASSUME Typed, ChainInv,
         ReadPush \/ TakeFetched \/ Post \/ Answered \/ NotAnswered \/ \E g \in Threads : Record(g) \/ RecordFails(g)
  PROVE  ChainInv'
<1>1. PICK g, place, l :
        /\ g \in Threads /\ Goes(g, place, l) /\ place \in {"match", "await", "idle", "record", "marshal"}
        /\ pc[g] \in {"idle", "post", "await", "record"} /\ UNCHANGED <<memory, saved>>
  <2>1. CASE ReadPush
    <3>1. Goes("listener", "match", [NoWork EXCEPT !.msg = Head(pushed)])
      BY <2>1, SetGoes, TwoThreads DEF ReadPush, Accept, Typed
    <3> QED BY <2>1, <3>1, TwoThreads DEF ReadPush, Busy, dbVars
  <2>2. CASE TakeFetched
    <3>1. Goes("main", "match", [NoWork EXCEPT !.msg = Head(todo)])
      BY <2>2, SetGoes, TwoThreads DEF TakeFetched, Accept, Typed
    <3> QED BY <2>2, <3>1, TwoThreads DEF TakeFetched, Busy, dbVars
  <2>3. CASE Post
    <3>1. Goes("main", "idle", NoWork) \/ Goes("main", "await", local["main"])
      BY <2>3, SetGoes, FinishGoes, TwoThreads DEF Post, Typed
    <3> QED BY <2>3, <3>1, TwoThreads DEF Post, dbVars
  <2>4. CASE Answered
    <3>1. Goes("main", "record", local["main"]) BY <2>4, SetGoes, TwoThreads DEF Answered, Typed
    <3> QED BY <2>4, <3>1, TwoThreads DEF Answered, dbVars
  <2>5. CASE NotAnswered
    <3>1. Goes("main", "idle", NoWork) BY <2>5, FinishGoes, TwoThreads DEF NotAnswered, Typed
    <3> QED BY <2>5, <3>1, TwoThreads DEF NotAnswered, dbVars
  <2>6. ASSUME NEW g \in Threads, Record(g)
        PROVE  /\ Goes(g, "marshal", local[g]) /\ pc[g] = "record" /\ UNCHANGED <<memory, saved>>
    BY <2>6, SetGoes DEF Record, Typed
  <2>7. ASSUME NEW g \in Threads, RecordFails(g)
        PROVE  /\ Goes(g, "marshal", local[g]) \/ Goes(g, "idle", NoWork)
               /\ pc[g] = "record" /\ UNCHANGED <<memory, saved>>
    <3>1. Go(g, "marshal", local[g]) \/ Go(g, "idle", NoWork) BY <2>7 DEF RecordFails
    <3>2. Goes(g, "marshal", local[g]) \/ Goes(g, "idle", NoWork) BY <3>1, SetsOut DEF Typed
    <3> QED BY <2>7, <3>2 DEF RecordFails, dbVars
  <2> QED BY <2>1, <2>2, <2>3, <2>4, <2>5, <2>6, <2>7
<1>2. pc[g] \notin Touching /\ place \notin Touching /\ place # "exec" BY <1>1 DEF Touching
<1> QED BY <1>1, <1>2, RestChain

(* What is written down while the other is not amid its work is even.      *)
LEMMA MarshalChain ==
  ASSUME Typed, ChainInv, NEW g \in Threads, Marshal(g)
  PROVE  ChainInv'
<1>1. PICK l : Goes(g, "exec", l) /\ l.row = RowFor(g) BY MarshalSets, SetGoes DEF Typed
<1>2. pc[g] = "marshal" /\ UNCHANGED <<obj, dh, saved>> BY DEF Marshal, memory, dbVars
<1>3. \A h \in Threads \ {g} : pc'[h] = pc[h] /\ local'[h] = local[h] BY <1>1 DEF Goes
<1>4. \A h \in Threads : Progress(pc'[h], local'[h], obj'[local'[h].mr])
  <2>1. Progress("exec", l, obj[l.mr]) BY DEF Progress
  <2> QED BY <1>1, <1>2, <1>3, <2>1 DEF ChainInv, Goes
<1>5. ObjectsEven'
  <2>1. pc[g] \notin Working BY <1>2 DEF Working
  <2> QED BY <1>2, <1>3, <2>1 DEF ChainInv, ObjectsEven, Even
<1>6. CopiesEven' BY <1>2 DEF ChainInv, CopiesEven, Even
<1>7. RowEven(RowFor(g))
  <2> SUFFICES ASSUME \A h \in Threads \ {g} : pc[h] \notin Touching PROVE EvenSnapshot(Snapshot)
    BY DEF RowEven, RowFor
  <2>1. \A h \in Threads : pc[h] \notin Working BY <1>2 DEF Working, Touching
  <2>2. \A i \in 1..Len(obj) : Even(obj[i]) BY <2>1 DEF ChainInv, ObjectsEven
  <2>3. Even(obj[dh.cur]) BY <2>2, MemoryShape DEF Typed
  <2>4. Even(Snapshot.cur) BY <2>3, SnapshotTyped DEF Typed
  <2>5. \A i \in 1..Len(Snapshot.prev) : Even(Snapshot.prev[i].copy)
    BY SnapshotTyped DEF Typed, ChainInv, CopiesEven
  <2> QED BY <2>4, <2>5 DEF EvenSnapshot
<1>8. SavedEven'
  <2>1. ASSUME NEW h \in Threads, pc'[h] = "exec" PROVE RowEven(local'[h].row)
    <3>1. CASE h = g BY <1>1, <1>7, <3>1 DEF Goes
    <3>2. CASE h # g BY <1>3, <2>1, <3>2 DEF ChainInv, SavedEven
    <3> QED BY <3>1, <3>2
  <2> QED BY <1>2, <2>1 DEF ChainInv, SavedEven, RowEven, EvenSnapshot, Even
<1> QED BY <1>4, <1>5, <1>6, <1>8 DEF ChainInv, Progress, Even

LEMMA ExecChain ==
  ASSUME Typed, ChainInv, NEW g \in Threads, Exec(g)
  PROVE  ChainInv'
<1>1. Goes(g, "idle", NoWork) BY FinishGoes DEF Exec, Typed
<1>2. pc[g] = "exec" /\ UNCHANGED <<obj, dh>> /\ saved' \in {local[g].row, saved} BY DEF Exec, memory
<1>3. \A h \in Threads \ {g} : pc'[h] = pc[h] /\ local'[h] = local[h] BY <1>1 DEF Goes
<1>4. \A h \in Threads : Progress(pc'[h], local'[h], obj'[local'[h].mr])
  <2>1. Progress("idle", NoWork, obj[NoWork.mr]) BY DEF Progress
  <2> QED BY <1>1, <1>2, <1>3, <2>1 DEF ChainInv, Goes
<1>5. ObjectsEven'
  <2>1. pc[g] \notin Working BY <1>2 DEF Working
  <2> QED BY <1>2, <1>3, <2>1 DEF ChainInv, ObjectsEven, Even
<1>6. CopiesEven' BY <1>2 DEF ChainInv, CopiesEven, Even
<1>7. SavedEven'
  <2>1. \A h \in Threads : pc'[h] = "exec" => pc[h] = "exec" /\ local'[h] = local[h] BY <1>1, <1>3 DEF Goes
  <2>2. RowEven(saved')
    <3>1. RowEven(saved) /\ RowEven(local[g].row) BY <1>2 DEF ChainInv, SavedEven
    <3> QED BY <1>2, <3>1
  <2>3. \A h \in Threads : pc'[h] = "exec" => RowEven(local'[h].row) BY <2>1 DEF ChainInv, SavedEven
  <2> QED BY <2>2, <2>3 DEF SavedEven, RowEven, EvenSnapshot, Even
<1> QED BY <1>4, <1>5, <1>6, <1>7 DEF ChainInv, Progress, Even

(* A start from a row that is not torn.                                    *)
LEMMA RestartChain ==
  ASSUME Typed, ChainInv, Restart, saved.whole
  PROVE  ChainInv'
<1>1. (\A g \in Threads : pc'[g] = "idle") /\ UNCHANGED saved BY DEF Restart, dbVars
<1>2. PICK r, n : r = saved.ratchet /\ n = Len(r.prev) OBVIOUS
<1>3. EvenSnapshot(r) BY <1>2 DEF ChainInv, SavedEven, RowEven
<1>4. /\ n \in Nat /\ Len(obj') = n + 1 /\ obj'[n + 1] = r.cur
      /\ \A i \in 1..n : obj'[i].chain = r.prev[i].copy.chain /\ obj'[i].last = r.prev[i].copy.last
      /\ Len(dh'.prev) = n /\ \A i \in 1..n : dh'.prev[i].copy = r.prev[i].copy
  BY <1>2, Restored
<1>5. ObjectsEven'
  <2>1. \A i \in 1..Len(obj') : i \in 1..n \/ i = n + 1 BY <1>4
  <2> QED BY <1>2, <1>3, <1>4, <2>1 DEF ObjectsEven, Even, EvenSnapshot
<1>6. CopiesEven' BY <1>2, <1>3, <1>4 DEF CopiesEven, Even, EvenSnapshot
<1>7. SavedEven' BY <1>1 DEF ChainInv, SavedEven, RowEven, EvenSnapshot, Even
<1>8. \A g \in Threads : Progress(pc'[g], local'[g], obj'[local'[g].mr]) BY <1>1 DEF Progress
<1> QED BY <1>5, <1>6, <1>7, <1>8 DEF ChainInv, Progress, Even

LEMMA ElsewhereChain ==
  ASSUME ChainInv, UNCHANGED <<memory, pc, local, saved>>
  PROVE  ChainInv'
BY DEF ChainInv, ObjectsEven, CopiesEven, SavedEven, RowEven, EvenSnapshot, Progress, Even, memory

LEMMA InitChain ==
  ASSUME Init
  PROVE  ChainInv
<1>1. /\ Len(obj) = 1 /\ \A i \in 1..Len(obj) : Even(obj[i])
      /\ Len(dh.prev) = 0 /\ saved.ratchet = Snapshot /\ \A g \in Threads : pc[g] = "idle"
  BY InitMemory DEF Init, Even, NewObject, RowFor
<1>2. EvenSnapshot(saved.ratchet)
  <2>1. MemoryTyped BY InitTyped DEF Typed
  <2>2. Len(Snapshot.prev) = 0 /\ Snapshot.cur = obj[dh.cur] /\ dh.cur \in 1..Len(obj)
    BY <1>1, <2>1, SnapshotTyped, MemoryShape
  <2> QED BY <1>1, <2>2 DEF EvenSnapshot
<1>3. ObjectsEven BY <1>1 DEF ObjectsEven
<1>4. CopiesEven BY <1>1 DEF CopiesEven
<1>5. SavedEven BY <1>1, <1>2 DEF SavedEven, RowEven
<1>6. \A g \in Threads : Progress(pc[g], local[g], obj[local[g].mr]) BY <1>1 DEF Progress
<1> QED BY <1>3, <1>4, <1>5, <1>6 DEF ChainInv

LEMMA NextChain ==
  ASSUME Typed, Alone, Alone', ChainInv, Next, Spared({"torn"})'
  PROVE  ChainInv'
<1>1. ASSUME NEW g \in Threads, HandlingStep(g) PROVE ChainInv'
  BY <1>1, MatchChain, MatchPreviousChain, Turn2Chain, UseSkippedChain, CheckChain, SkipReadChain,
     SkipWriteChain, NextKeyChain, AdvanceChain
  DEF HandlingStep
<1>2. CASE LoginAnswered \/ Fetch \/ Fetched \/ EnterChats \/ PeerSends \/ PeerReads
  <2>1. UNCHANGED <<memory, pc, local, saved>>
    BY <1>2 DEF LoginAnswered, Fetch, Fetched, EnterChats, PeerSends, PeerReads, dbVars
  <2> QED BY <2>1, ElsewhereChain
<1>3. CASE Restart
  <2>1. saved.whole BY <1>3 DEF Restart, Note, Spared, Kinds
  <2> QED BY <1>3, <2>1, RestartChain
<1> QED BY <1>1, <1>2, <1>3, RestingChain, MarshalChain, ExecChain, BeginSendChain,
           EncryptReadChain, EncryptCycleChain, EncryptSealChain
        DEF Next, HandlingStep

(* As long as the goroutines have not met and the client was not started   *)
(* from a torn row: every ratchet in memory that no goroutine is moving,   *)
(* every ratchet put aside and every one in a row that is not torn has its *)
(* chain one step after its last index.                                    *)
ChainSound == Spared({"met", "torn"}) => ChainInv

THEOREM ChainInvHolds == Spec => []ChainSound
<1>1. ASSUME Typed, AloneInv, AloneInv', ChainSound, [Next]_vars PROVE ChainSound'
  <2> SUFFICES ASSUME Spared({"met", "torn"})' PROVE ChainInv' BY DEF ChainSound
  <2>1. Spared({"met", "torn"}) BY <1>1, SparedBefore
  <2>2. ChainInv BY <1>1, <2>1 DEF ChainSound
  <2>3. Alone /\ Alone' /\ Spared({"torn"})' BY <1>1, <2>1 DEF AloneInv, Spared
  <2>4. CASE Next BY <1>1, <2>2, <2>3, <2>4, NextChain
  <2>5. CASE UNCHANGED vars BY <2>2, <2>5, ElsewhereChain DEF vars, dbVars
  <2> QED BY <1>1, <2>4, <2>5
<1>2. Init => ChainSound BY InitChain DEF ChainSound
<1> QED BY <1>1, <1>2, TypesHold, AloneInvHolds, PTL DEF Spec

(* Property ChainFollowsIndex: whenever no goroutine is at work, the chain *)
(* key and the index of the last message of each ratchet name the same     *)
(* position of its chain, for any interleaving in which the two have not   *)
(* met and any stops but those that leave a torn row to start from.        *)
THEOREM ChainAndIndexAgree == Spec => []ChainFollowsIndex
<1>1. ChainSound => ChainFollowsIndex
  BY DEF ChainSound, ChainInv, ObjectsEven, ChainFollowsIndex, Idle, Busy, Working, Even
<1> QED BY <1>1, ChainInvHolds, PTL

-----------------------------------------------------------------------------
(* Roots and keys.                                                         *)

Known(w, n) == {k \in Pairs : k[1] = w => k[2] <= n}
NewTo(root, pub) == \A j \in 1..Len(root) : pub \notin root[j]

(* A root to write on: the key pair was not met before, the other's was in *)
(* the secret before.                                                      *)
Shape(root, pub) ==
  /\ Len(root) > 1
  /\ \E f \in root[Len(root) - 1] : root[Len(root)] = {pub, f}
  /\ \A j \in 1..(Len(root) - 1) : pub \notin root[j]

(* The root, the key pair and the other's key of one who has made n.       *)
Sound(w, n, root, keyPair, foreign) ==
  /\ root \in Roots /\ Len(root) > 0 /\ \A j \in 1..Len(root) : root[j] \subseteq Known(w, n)
  /\ keyPair \in Pairs /\ keyPair[1] = w /\ keyPair[2] <= n
  /\ foreign \in Pairs /\ foreign[1] # w /\ foreign \in root[Len(root)]

(* The chain in use has gone past the messages written on it.              *)
Ahead(ms, state, keyPair, root, last) ==
  state = "Sending" =>
    \A i \in 1..Len(ms) : ms[i].pub = keyPair => ms[i].key[1] = root /\ ms[i].index <= last

OneKeyEach(ms) == \A i, j \in 1..Len(ms) : ms[i].key = ms[j].key => i = j

PeerPub(m) == m.pub[1] = "peer" /\ m.pub[2] <= peer.made
PeerWrote(m) ==
  PeerPub(m) /\ m.key[2] = m.index /\ (Shape(m.key[1], m.pub) \/ (m.key[1] = First /\ m.pub = <<"peer", 0>>))
UsWrote(m) == m.pub[1] = "us" /\ m.pub[2] <= sends /\ m.key[2] = m.index /\ Shape(m.key[1], m.pub)

(* The messages, and the contact's ratchet.                                *)
MessageKeys ==
  /\ \A i \in 1..Len(box) : PeerWrote(box[i])
  /\ \A i \in 1..Len(outbox) : UsWrote(outbox[i])
  /\ \A i \in 1..Len(pushed) : PeerPub(pushed[i])
  /\ \A i \in 1..Len(todo) : PeerPub(todo[i])
  /\ OneKeyEach(box) /\ OneKeyEach(outbox)

PeerKeys ==
  LET r == peer.ratchet IN
  /\ Sound("peer", peer.made, r.cur.root, r.keyPair, r.cur.foreign)
  /\ r.state = "Sending" => Shape(r.cur.root, r.keyPair) \/ (r.cur.root = First /\ r.keyPair = <<"peer", 0>>)
  /\ Ahead(box, r.state, r.keyPair, r.cur.root, r.cur.next - 1)

(* The client's ratchet in memory.                                         *)
Turning == pc["main"] = "turn" /\ local["main"].msg = NoMessage
MemoryKeys ==
  /\ dh.root = obj[dh.cur].root
  /\ Sound("us", sends, dh.root, dh.keyPair, obj[dh.cur].foreign)
  /\ Turning => /\ dh.state = "Sending" /\ NewTo(dh.root, dh.keyPair)
                /\ \A i \in 1..Len(outbox) : outbox[i].pub # dh.keyPair
  /\ ~ Turning => /\ dh.state = "Sending" => Shape(dh.root, dh.keyPair)
                  /\ Ahead(outbox, dh.state, dh.keyPair, dh.root, obj[dh.cur].last)

(* What a goroutine at a place has in hand.                                *)
Holds(place, l) ==
  /\ place \in Matching => PeerPub(l.msg)
  /\ place = "turn" => /\ l.root = Append(dh.root, Secret(dh.keyPair, l.foreign)) /\ l.foreign[1] # "us"
                       /\ l.msg = NoMessage => l.foreign = obj[dh.cur].foreign
                       /\ l.msg # NoMessage => PeerPub(l.msg)
  /\ place \in Sealing => dh.state = "Sending"
  /\ place \in {"cycle", "seal"} => l.mr = dh.cur
  /\ place = "post" => /\ UsWrote(l.msg) /\ Ahead(<<l.msg>>, dh.state, dh.keyPair, dh.root, obj[dh.cur].last)
                       /\ \A i \in 1..Len(outbox) : outbox[i].key # l.msg.key

(* A row that is not torn, with what the server had by then.               *)
SnapSound(s) ==
  /\ s.root = s.cur.root /\ Sound("us", sends, s.root, s.keyPair, s.cur.foreign)
  /\ s.state = "Sending" => Shape(s.root, s.keyPair)
PastPosted(s, n) ==
  s.state = "Sending" =>
    \A i \in 1..n : outbox[i].pub = s.keyPair => outbox[i].key[1] = s.root /\ outbox[i].index <= s.cur.last
RowKeys(row) ==
  row.whole => SnapSound(row.ratchet) /\ row.posted \in 0..Len(outbox) /\ PastPosted(row.ratchet, row.posted)
SavedKeys == RowKeys(saved) /\ \A g \in Threads : pc[g] = "exec" => RowKeys(local[g].row)

KeyInv ==
  /\ MessageKeys /\ PeerKeys /\ MemoryKeys /\ SavedKeys
  /\ \A g \in Threads : Holds(pc[g], local[g])

LEMMA Appended ==
  ASSUME NEW C, NEW s \in Seq(C), NEW x \in C, NEW t, t = Append(s, x)
  PROVE  /\ t \in Seq(C) /\ Len(s) \in Nat /\ Len(t) = Len(s) + 1 /\ t[Len(s) + 1] = x
         /\ \A i \in 1..Len(s) : t[i] = s[i]
         /\ \A i \in 1..Len(t) : i \in 1..Len(s) \/ i = Len(s) + 1
OBVIOUS

LEMMA KnownMore ==
  ASSUME NEW w, NEW n \in Nat, NEW n2 \in Nat, n <= n2, NEW root, NEW keyPair, NEW foreign,
         Sound(w, n, root, keyPair, foreign)
  PROVE  Sound(w, n2, root, keyPair, foreign)
<1>1. \A k \in Known(w, n) : k \in Known(w, n2) BY DEF Known, Pairs
<1>2. keyPair[2] <= n2 BY DEF Sound, Pairs
<1> QED BY <1>1, <1>2 DEF Sound

(* The root moved on by the secret with another key of the other's.        *)
LEMMA SoundExtends ==
  ASSUME NEW w, NEW n \in Nat, NEW root, NEW keyPair, NEW foreign, Sound(w, n, root, keyPair, foreign),
         NEW f \in Pairs, f[1] # w, NEW root2, root2 = Append(root, Secret(keyPair, f))
  PROVE  Sound(w, n, root2, keyPair, f)
<1>1. PICK x : x = Secret(keyPair, f) OBVIOUS
<1>2. x \in SUBSET Pairs /\ x \subseteq Known(w, n) /\ f \in x BY <1>1 DEF Secret, Sound, Known
<1>3. /\ root2 \in Roots /\ Len(root2) = Len(root) + 1 /\ Len(root) \in Nat /\ root2[Len(root) + 1] = x
      /\ \A i \in 1..Len(root) : root2[i] = root[i]
      /\ \A i \in 1..Len(root2) : i \in 1..Len(root) \/ i = Len(root) + 1
  <2>1. root \in Seq(SUBSET Pairs) /\ root2 = Append(root, x) BY <1>1 DEF Sound, Roots
  <2> QED BY <1>2, <2>1, Appended DEF Roots
<1>4. \A j \in 1..Len(root2) : root2[j] \subseteq Known(w, n) BY <1>2, <1>3 DEF Sound
<1> QED BY <1>2, <1>3, <1>4 DEF Sound

(* A fresh key pair is in none of the secrets.                             *)
LEMMA SoundFresh ==
  ASSUME NEW w \in Who, NEW n \in Nat, NEW root, NEW keyPair, NEW foreign, Sound(w, n, root, keyPair, foreign)
  PROVE  Sound(w, n + 1, root, <<w, n + 1>>, foreign) /\ NewTo(root, <<w, n + 1>>)
<1>1. PICK fresh : fresh = <<w, n + 1>> OBVIOUS
<1>2. fresh \in Pairs /\ fresh[1] = w /\ fresh[2] = n + 1 /\ fresh \notin Known(w, n) BY <1>1 DEF Pairs, Known
<1>3. Sound(w, n + 1, root, keyPair, foreign) BY KnownMore
<1>4. Sound(w, n + 1, root, fresh, foreign) BY <1>2, <1>3 DEF Sound
<1>5. NewTo(root, fresh) BY <1>2 DEF Sound, NewTo
<1> QED BY <1>1, <1>4, <1>5

(* A root made with it is one to write on.                                 *)
LEMMA ShapeMade ==
  ASSUME NEW w, NEW n \in Nat, NEW root, NEW keyPair, NEW foreign, Sound(w, n, root, keyPair, foreign),
         NewTo(root, keyPair), NEW root2, root2 = Append(root, Secret(keyPair, foreign))
  PROVE  Shape(root2, keyPair)
<1>1. PICK x : x = Secret(keyPair, foreign) OBVIOUS
<1>2. x \in SUBSET Pairs /\ x = {keyPair, foreign} BY <1>1 DEF Secret, Sound
<1>3. /\ Len(root2) = Len(root) + 1 /\ Len(root) \in Nat /\ root2[Len(root) + 1] = x
      /\ \A i \in 1..Len(root) : root2[i] = root[i]
  <2>1. root \in Seq(SUBSET Pairs) /\ root2 = Append(root, x) BY <1>1 DEF Sound, Roots
  <2> QED BY <1>2, <2>1, Appended
<1>4. Len(root) > 0 /\ foreign \in root[Len(root)] BY DEF Sound
<1>5. Len(root2) > 1 /\ Len(root2) - 1 = Len(root) /\ root2[Len(root)] = root[Len(root)] BY <1>3, <1>4
<1>6. \E f \in root2[Len(root2) - 1] : root2[Len(root2)] = {keyPair, f} BY <1>2, <1>3, <1>4, <1>5
<1>7. \A j \in 1..(Len(root2) - 1) : keyPair \notin root2[j] BY <1>3, <1>5 DEF NewTo
<1> QED BY <1>5, <1>6, <1>7 DEF Shape

(* A root tells the key pair of who writes on it.                          *)
LEMMA ShapeTells ==
  ASSUME NEW root \in Roots, NEW x, NEW y, Shape(root, x), Shape(root, y)
  PROVE  x = y
<1>1. /\ Len(root) > 1 /\ Len(root) \in Nat
      /\ \E f \in root[Len(root) - 1] : root[Len(root)] = {x, f}
      /\ \E f \in root[Len(root) - 1] : root[Len(root)] = {y, f}
      /\ \A j \in 1..(Len(root) - 1) : x \notin root[j] /\ y \notin root[j]
  BY DEF Shape, Roots
<1>2. Len(root) - 1 \in 1..(Len(root) - 1) BY <1>1
<1>3. x \notin root[Len(root) - 1] /\ y \notin root[Len(root) - 1] BY <1>1, <1>2
<1> QED BY <1>1, <1>3

LEMMA FirstShape ==
  /\ \A x : ~ Shape(First, x)
  /\ \A n \in Nat : Sound("us", n, First, <<"us", 0>>, <<"peer", 0>>)
                    /\ Sound("peer", n, First, <<"peer", 0>>, <<"us", 0>>)
<1>1. PICK a, b : a = <<"us", 0>> /\ b = <<"peer", 0>> OBVIOUS
<1>2. a \in Pairs /\ b \in Pairs /\ a[1] = "us" /\ b[1] = "peer" /\ a[2] = 0 /\ b[2] = 0 BY <1>1 DEF Pairs, Who
<1>3. First = <<{a, b}>> BY <1>1 DEF First, Secret, Key
<1>4. First \in Roots /\ Len(First) = 1 /\ First[1] = {a, b} BY <1>2, <1>3 DEF Roots
<1>5. \A x : ~ Shape(First, x) BY <1>4 DEF Shape
<1>6. ASSUME NEW n \in Nat
      PROVE  Sound("us", n, First, a, b) /\ Sound("peer", n, First, b, a)
  <2>1. \A w : {a, b} \subseteq Known(w, n) BY <1>2 DEF Known
  <2> QED BY <1>2, <1>4, <2>1 DEF Sound
<1> QED BY <1>1, <1>5, <1>6

(* The chain goes on.                                                      *)
LEMMA AheadMore ==
  ASSUME NEW ms \in Seq(Messages), NEW state, NEW keyPair, NEW root, NEW last \in Int, NEW more \in Int, last <= more,
         Ahead(ms, state, keyPair, root, last)
  PROVE  Ahead(ms, state, keyPair, root, more)
<1>1. \A i \in 1..Len(ms) : ms[i].index \in Nat BY MessageShape
<1> QED BY <1>1 DEF Ahead

LEMMA AheadAppends ==
  ASSUME NEW ms \in Seq(Messages), NEW m \in Messages, NEW state, NEW keyPair, NEW root, NEW last \in Int,
         Ahead(ms, state, keyPair, root, last), Ahead(<<m>>, state, keyPair, root, last)
  PROVE  Ahead(Append(ms, m), state, keyPair, root, last)
<1>1. PICK t : t = Append(ms, m) OBVIOUS
<1>2. /\ t[Len(ms) + 1] = m /\ \A i \in 1..Len(ms) : t[i] = ms[i]
      /\ \A i \in 1..Len(t) : i \in 1..Len(ms) \/ i = Len(ms) + 1
  BY <1>1, Appended
<1>3. state = "Sending" => (m.pub = keyPair => m.key[1] = root /\ m.index <= last)
  <2>1. 1 \in 1..Len(<<m>>) /\ <<m>>[1] = m OBVIOUS
  <2> QED BY <2>1 DEF Ahead
<1>4. Ahead(t, state, keyPair, root, last) BY <1>2, <1>3 DEF Ahead
<1> QED BY <1>1, <1>4

LEMMA OneKeyAppends ==
  ASSUME NEW ms \in Seq(Messages), NEW m \in Messages, OneKeyEach(ms), \A i \in 1..Len(ms) : ms[i].key # m.key
  PROVE  OneKeyEach(Append(ms, m))
<1>1. PICK t : t = Append(ms, m) OBVIOUS
<1>2. /\ t[Len(ms) + 1] = m /\ \A i \in 1..Len(ms) : t[i] = ms[i]
      /\ \A i \in 1..Len(t) : i \in 1..Len(ms) \/ i = Len(ms) + 1
  BY <1>1, Appended
<1>3. OneKeyEach(t) BY <1>2 DEF OneKeyEach
<1> QED BY <1>1, <1>3

(* The key for the place after the last one is on none of the messages     *)
(* written on the chain, nor on another's.                                 *)
LEMMA NextIsFresh ==
  ASSUME NEW ms \in Seq(Messages), NEW keyPair, NEW root \in Roots, NEW last \in Int, NEW index \in Nat, last < index,
         Ahead(ms, "Sending", keyPair, root, last), NEW i \in 1..Len(ms), ms[i].key[2] = ms[i].index,
         ms[i].key[1] = root => ms[i].pub = keyPair
  PROVE  ms[i].key # <<root, index>>
<1> SUFFICES ASSUME ms[i].key = <<root, index>> PROVE FALSE OBVIOUS
<1>1. ms[i].key[1] = root /\ ms[i].key[2] = index OBVIOUS
<1>2. ms[i].index <= last BY <1>1 DEF Ahead
<1> QED BY <1>1, <1>2

(* A step that leaves the client's ratchet as it is, but for the chain.    *)
SameRatchet ==
  /\ dh'.keyPair = dh.keyPair /\ dh'.root = dh.root /\ dh'.state = dh.state /\ dh'.cur = dh.cur
  /\ obj'[dh.cur].root = obj[dh.cur].root /\ obj'[dh.cur].foreign = obj[dh.cur].foreign
  /\ obj[dh.cur].last <= obj'[dh.cur].last
  /\ obj[dh.cur].last \in Int /\ obj'[dh.cur].last \in Int

More == sends \in Nat /\ sends' \in Nat /\ sends <= sends' /\ peer.made \in Nat /\ peer'.made \in Nat /\ peer.made <= peer'.made

LEMMA LastAt == Typed => obj[dh.cur].last \in Int
BY MemoryShape, ObjectShape, LastsAre DEF Typed

LEMMA PubMore ==
  ASSUME More, NEW m, m.pub \in Pairs
  PROVE  (PeerPub(m) => PeerPub(m)') /\ (UsWrote(m) => UsWrote(m)')
BY DEF More, PeerPub, UsWrote, Pairs

LEMMA HoldsStays ==
  ASSUME SameRatchet, More, NEW place, NEW l, Holds(place, l), l.msg \in Messages \cup {NoMessage},
         place = "post" => l.msg \in Messages /\ UNCHANGED outbox
  PROVE  Holds(place, l)'
<1>1. l.msg.pub \in Pairs BY MessageShape
<1>2. (PeerPub(l.msg) => PeerPub(l.msg)') /\ (UsWrote(l.msg) => UsWrote(l.msg)') BY <1>1, PubMore
<1>3. ASSUME place = "post"
      PROVE  Ahead(<<l.msg>>, dh'.state, dh'.keyPair, dh'.root, obj'[dh'.cur].last)
  <2>1. Ahead(<<l.msg>>, dh.state, dh.keyPair, dh.root, obj[dh.cur].last) BY <1>3 DEF Holds
  <2>2. <<l.msg>> \in Seq(Messages) BY <1>3
  <2>3. Ahead(<<l.msg>>, dh.state, dh.keyPair, dh.root, obj'[dh.cur].last) BY <2>1, <2>2, AheadMore DEF SameRatchet
  <2> QED BY <2>3 DEF SameRatchet
<1>4. place = "turn" => /\ l.root = Append(dh'.root, Secret(dh'.keyPair, l.foreign)) /\ l.foreign[1] # "us"
                        /\ l.msg = NoMessage => l.foreign = obj'[dh'.cur].foreign
                        /\ l.msg # NoMessage => PeerPub(l.msg)'
  BY <1>2 DEF Holds, SameRatchet
<1>5. /\ place \in Sealing => dh'.state = "Sending"
      /\ place \in {"cycle", "seal"} => l.mr = dh'.cur
      /\ place \in Matching => PeerPub(l.msg)'
      /\ place = "post" => UsWrote(l.msg)' /\ \A i \in 1..Len(outbox') : outbox'[i].key # l.msg.key
  BY <1>2 DEF Holds, SameRatchet
<1> QED BY <1>3, <1>4, <1>5 DEF Holds, Ahead

LEMMA MemoryKeysStay ==
  ASSUME Typed, SameRatchet, More, UNCHANGED outbox, MemoryKeys, Turning' <=> Turning
  PROVE  MemoryKeys'
<1>1. Sound("us", sends', dh'.root, dh'.keyPair, obj'[dh'.cur].foreign)
  <2>1. Sound("us", sends', dh.root, dh.keyPair, obj[dh.cur].foreign) BY KnownMore DEF MemoryKeys, More
  <2> QED BY <2>1 DEF SameRatchet
<1>2. ~ Turning => Ahead(outbox, dh'.state, dh'.keyPair, dh'.root, obj'[dh'.cur].last)
  <2>1. ASSUME ~ Turning PROVE Ahead(outbox, dh.state, dh.keyPair, dh.root, obj'[dh.cur].last)
    BY <2>1, AheadMore DEF MemoryKeys, SameRatchet, Typed, NetTyped
  <2> QED BY <2>1 DEF SameRatchet
<1>3. dh'.root = obj'[dh'.cur].root BY DEF MemoryKeys, SameRatchet
<1>4. Turning => /\ dh'.state = "Sending" /\ NewTo(dh'.root, dh'.keyPair)
                 /\ \A i \in 1..Len(outbox) : outbox[i].pub # dh'.keyPair
  BY DEF MemoryKeys, SameRatchet
<1>5. ~ Turning => (dh'.state = "Sending" => Shape(dh'.root, dh'.keyPair)) BY DEF MemoryKeys, SameRatchet
<1>6. outbox' = outbox OBVIOUS
<1> QED BY <1>1, <1>2, <1>3, <1>4, <1>5, <1>6 DEF MemoryKeys, Sound, Ahead

(* The server keeps what it has.                                           *)
Grown == /\ Len(outbox) \in Nat /\ Len(outbox') \in Nat /\ Len(outbox) <= Len(outbox')
         /\ \A i \in 1..Len(outbox) : outbox'[i] = outbox[i]

LEMMA RowMore ==
  ASSUME More, Grown, NEW row, RowKeys(row)
  PROVE  RowKeys(row)'
<1> SUFFICES ASSUME row.whole
             PROVE  SnapSound(row.ratchet)' /\ row.posted \in 0..Len(outbox') /\ PastPosted(row.ratchet, row.posted)'
  BY DEF RowKeys
<1>1. PICK s, n : s = row.ratchet /\ n = row.posted OBVIOUS
<1>2. SnapSound(s) /\ n \in 0..Len(outbox) /\ PastPosted(s, n) BY <1>1 DEF RowKeys
<1>3. Sound("us", sends', s.root, s.keyPair, s.cur.foreign) BY <1>2, KnownMore DEF SnapSound, More
<1>4. SnapSound(s)' BY <1>2, <1>3 DEF SnapSound, Sound
<1>5. n \in 0..Len(outbox') /\ \A i \in 1..n : outbox'[i] = outbox[i] BY <1>2 DEF Grown
<1>6. PastPosted(s, n)' BY <1>2, <1>5 DEF PastPosted
<1> QED BY <1>1, <1>4, <1>5, <1>6

LEMMA SavedKeysStay ==
  ASSUME SavedKeys, More, Grown, saved' = saved \/ \E g \in Threads : pc[g] = "exec" /\ saved' = local[g].row,
         \A h \in Threads : pc'[h] = "exec" => pc[h] = "exec" /\ local'[h] = local[h]
  PROVE  SavedKeys'
<1>1. ASSUME NEW g \in Threads, pc[g] = "exec" PROVE RowKeys(local[g].row)
  BY <1>1 DEF SavedKeys
<1>2. RowKeys(saved) BY DEF SavedKeys
<1>3. PICK row : row = saved' /\ RowKeys(row) BY <1>1, <1>2
<1>4. RowKeys(row)' BY <1>3, RowMore
<1>5. ASSUME NEW h \in Threads, pc'[h] = "exec" PROVE RowKeys(local[h].row)'
  <2>1. PICK x : x = local[h].row OBVIOUS
  <2>2. RowKeys(x)' BY <1>1, <1>5, <2>1, RowMore
  <2>3. local'[h].row = x BY <1>5, <2>1
  <2> QED BY <2>2, <2>3
<1>6. RowKeys(saved)' BY <1>3, <1>4
<1> QED BY <1>5, <1>6 DEF SavedKeys

LEMMA SameGrown == Typed /\ UNCHANGED outbox => Grown
BY DEF Typed, NetTyped, Grown

LEMMA MessageKeysStay ==
  ASSUME MessageKeys, Typed, UNCHANGED <<outbox, box, peer>>, More,
         \A i \in 1..Len(pushed') : PeerPub(pushed'[i]), \A i \in 1..Len(todo') : PeerPub(todo'[i])
  PROVE  MessageKeys'
<1>1. \A i \in 1..Len(outbox) : outbox[i].pub \in Pairs BY MessageShape DEF Typed, NetTyped
<1>2. \A i \in 1..Len(outbox) : UsWrote(outbox[i])' BY <1>1, PubMore DEF MessageKeys
<1> QED BY <1>2 DEF MessageKeys, PeerWrote, PeerPub, OneKeyEach

LEMMA PeerKeysStay == PeerKeys /\ UNCHANGED <<box, peer>> => PeerKeys'
BY DEF PeerKeys, Sound, Ahead

LEMMA OnwardKeys ==
  ASSUME Typed, Typed', KeyInv, SameRatchet, UNCHANGED <<outbox, box, peer, saved>>, sends <= sends',
         \A i \in 1..Len(pushed') : PeerPub(pushed'[i]), \A i \in 1..Len(todo') : PeerPub(todo'[i]),
         NEW g \in Threads, NEW place, NEW l, Goes(g, place, l), Holds(place, l)',
         pc[g] \notin {"turn", "marshal", "exec"}, place # "exec",
         g = "main" /\ place = "turn" => l.msg # NoMessage
  PROVE  KeyInv'
<1>1. More BY DEF More, Typed, DbTyped, NetTyped, PeerTyped
<1>2. MessageKeys' /\ PeerKeys' BY <1>1, MessageKeysStay, PeerKeysStay DEF KeyInv
<1>3. \A h \in Threads \ {g} : pc'[h] = pc[h] /\ local'[h] = local[h] BY DEF Goes
<1>4. pc'[g] = place /\ local'[g] = l BY DEF Goes
<1>5. Turning' <=> Turning BY <1>3, <1>4, TwoThreads DEF Turning
<1>6. MemoryKeys' BY <1>1, <1>5, MemoryKeysStay DEF KeyInv
<1>7. SavedKeys'
  <2>1. \A h \in Threads : pc'[h] = "exec" => pc[h] = "exec" /\ local'[h] = local[h] BY <1>3, <1>4
  <2> QED BY <1>1, <2>1, SameGrown, SavedKeysStay DEF KeyInv
<1>8. ASSUME NEW h \in Threads PROVE Holds(pc[h], local[h])'
  <2>1. CASE h = g BY <1>4, <2>1
  <2>2. CASE h # g
    <3>1. PICK p, w : p = pc[h] /\ w = local[h] OBVIOUS
    <3>2. Holds(p, w) BY <3>1 DEF KeyInv
    <3>3. w.msg \in Messages \cup {NoMessage} /\ (p = "post" => w.msg \in Messages)
      BY <3>1, LocalShape, WorkShape DEF Typed, WorkOK, Sealing
    <3>4. Holds(p, w)' BY <1>1, <3>2, <3>3, HoldsStays
    <3>5. pc'[h] = p /\ local'[h] = w BY <1>3, <2>2, <3>1
    <3> QED BY <3>4, <3>5
  <2> QED BY <2>1, <2>2
<1> QED BY <1>2, <1>6, <1>7, <1>8 DEF KeyInv

LEMMA MovesSame ==
  ASSUME Typed, Typed', UNCHANGED dh, NEW k, NEW chain, NEW last, Moves(k, chain, last), obj[k].last <= last
  PROVE  SameRatchet
<1>1. obj[dh.cur].last \in Int /\ obj'[dh.cur].last \in Int
  <2>1. dh.cur \in 1..Len(obj) BY MemoryShape DEF Typed
  <2>2. obj'[dh.cur] \in Objects BY <2>1 DEF Moves
  <2> QED BY <2>2, LastAt, ObjectShape, LastsAre
<1>2. dh.cur \in 1..Len(obj) BY MemoryShape DEF Typed
<1>3. dh' = dh OBVIOUS
<1> QED BY <1>1, <1>2, <1>3 DEF SameRatchet, Moves

LEMMA StandsSame ==
  ASSUME Typed, UNCHANGED <<dh, obj>>
  PROVE  SameRatchet
BY LastAt DEF SameRatchet

(* The surroundings of a handled message.                                  *)
Aside == UNCHANGED <<outbox, box, peer, saved, sends, pushed, todo>>

LEMMA HandlingAside ==
  ASSUME NEW g \in Threads, HandlingStep(g)
  PROVE  Aside
BY DEF HandlingStep, Match, MatchPrevious, Turn2, UseSkipped, Check, SkipRead, SkipWrite, NextKey, Advance, Aside,
       netVars, dbVars

LEMMA HandledKeys ==
  ASSUME Typed, Typed', KeyInv, SameRatchet, Aside, NEW g \in Threads, pc[g] \in Matching,
         NEW place, NEW l, Goes(g, place, l), place \in Matching \cup {"idle", "record"},
         place # "idle" => l.msg = local[g].msg
  PROVE  KeyInv'
<1>1. PeerPub(local[g].msg) BY DEF KeyInv, Holds
<1>2. Holds(place, l)' BY <1>1 DEF Holds, PeerPub, Matching, Sealing, Aside
<1>3. pc[g] \notin {"turn", "marshal", "exec", "await", "record"} /\ place \notin {"exec", "turn"} BY DEF Matching
<1>4. /\ \A i \in 1..Len(pushed') : PeerPub(pushed'[i])
      /\ \A i \in 1..Len(todo') : PeerPub(todo'[i])
  BY DEF Aside, KeyInv, MessageKeys
<1>5. UNCHANGED <<outbox, box, peer, saved>> /\ sends <= sends' BY DEF Aside, Typed, DbTyped
<1> QED BY <1>2, <1>3, <1>4, <1>5, OnwardKeys

LEMMA EndsKeys ==
  ASSUME Typed, Typed', KeyInv, SameRatchet, Aside, NEW g \in Threads, pc[g] \in Matching, Ends(g)
  PROVE  KeyInv'
BY HandledKeys DEF Ends

LEMMA LastMoves ==
  ASSUME Typed, NEW k \in 1..Len(obj)
  PROVE  obj[k].last \in Int
BY MemoryShape, ObjectShape, LastsAre DEF Typed

LEMMA NoMessageIs == /\ \A m : PeerPub(m) => m # NoMessage
                     /\ NoMessage \notin Messages
<1>1. \A m : PeerPub(m) => m # NoMessage BY DEF PeerPub, NoMessage, Key
<1>2. NoMessage \notin Messages
  <2>1. NoMessage.key = <<>> BY DEF NoMessage
  <2>2. <<>> \notin Roots \X Nat OBVIOUS
  <2> QED BY <2>1, <2>2 DEF Messages
<1> QED BY <1>1, <1>2

LEMMA MatchKeys ==
  ASSUME Typed, Typed', KeyInv, NEW g \in Threads, Match(g)
  PROVE  KeyInv'
<1>1. pc[g] = "match" /\ UNCHANGED obj BY DEF Match
<1>2. pc[g] \in Matching BY <1>1 DEF Matching
<1>3. Aside BY HandlingAside DEF HandlingStep
<1>4. CASE UNCHANGED dh /\ \E l : Goes(g, "check", l) /\ Has(l, local[g], dh.cur, local[g].pos, local[g].i)
  <2>1. PICK l : Goes(g, "check", l) /\ l.msg = local[g].msg BY <1>4 DEF Has
  <2>2. SameRatchet BY <1>1, <1>4, StandsSame
  <2>3. "check" \in Matching BY DEF Matching
  <2> QED BY <1>2, <1>3, <2>1, <2>2, <2>3, HandledKeys
<1>5. CASE StartTurn(g, dh, local[g].msg.pub) /\ dh \in DHs(Len(obj)) /\ local[g].msg.pub \in Pairs
  <2>1. PICK l : /\ Goes(g, "turn", l) /\ l.msg = local[g].msg
                 /\ l.root = Append(dh.root, Secret(dh.keyPair, local[g].msg.pub)) /\ l.foreign = local[g].msg.pub
    BY <1>5, StartTurnGoes
  <2>2. dh'.keyPair = dh.keyPair /\ dh'.root = dh.root /\ dh'.cur = dh.cur /\ dh'.state = dh.state
    BY <1>5, StartTurnGoes
  <2>3. SameRatchet BY <1>1, <2>2, LastAt DEF SameRatchet
  <2>4. PeerPub(local[g].msg) BY <1>2 DEF KeyInv, Holds
  <2>5. local[g].msg # NoMessage BY <2>4, NoMessageIs
  <2>6. Holds("turn", l)' BY <1>3, <2>1, <2>2, <2>4, <2>5 DEF Holds, Matching, Sealing, PeerPub, Aside
  <2>7. /\ \A i \in 1..Len(pushed') : PeerPub(pushed'[i])
        /\ \A i \in 1..Len(todo') : PeerPub(todo'[i])
    BY <1>3 DEF Aside, KeyInv, MessageKeys
  <2>8. UNCHANGED <<outbox, box, peer, saved>> /\ sends <= sends' BY <1>3 DEF Aside, Typed, DbTyped
  <2> QED BY <1>1, <2>1, <2>3, <2>5, <2>6, <2>7, <2>8, OnwardKeys
<1> QED BY <1>4, <1>5, MatchGoes

LEMMA MatchPreviousKeys ==
  ASSUME Typed, Typed', KeyInv, NEW g \in Threads, MatchPrevious(g)
  PROVE  KeyInv'
<1>1. pc[g] \in Matching /\ UNCHANGED dh BY DEF MatchPrevious, Matching
<1>2. Aside BY HandlingAside DEF HandlingStep
<1>3. PICK k : Moves(k, obj[k].chain, obj[k].last) BY MatchPreviousMoves DEF Typed
<1>4. obj[k].last <= obj[k].last BY <1>3, LastMoves DEF Moves
<1>5. SameRatchet BY <1>1, <1>3, <1>4, MovesSame
<1> QED BY <1>1, <1>2, <1>5, MatchPreviousGoes, EndsKeys

LEMMA UseSkippedKeys ==
  ASSUME Typed, Typed', KeyInv, NEW g \in Threads, UseSkipped(g)
  PROVE  KeyInv'
<1>1. pc[g] \in Matching /\ UNCHANGED dh BY DEF UseSkipped, Matching
<1>2. Aside BY HandlingAside DEF HandlingStep
<1>3. PICK k : Moves(k, obj[k].chain, obj[k].last) BY UseSkippedMoves DEF Typed
<1>4. obj[k].last <= obj[k].last BY <1>3, LastMoves DEF Moves
<1>5. SameRatchet BY <1>1, <1>3, <1>4, MovesSame
<1> QED BY <1>1, <1>2, <1>5, UseSkippedGoes, EndsKeys

LEMMA AdvanceKeys ==
  ASSUME Typed, Typed', ChainInv, KeyInv, NEW g \in Threads, Advance(g)
  PROVE  KeyInv'
<1>1. pc[g] \in Matching /\ UNCHANGED dh /\ pc[g] = "advance" BY DEF Advance, Matching
<1>2. Aside BY HandlingAside DEF HandlingStep
<1>3. PICK k : k = local[g].mr /\ Moves(k, local[g].pos + 1, local[g].msg.index) BY AdvanceMoves DEF Typed
<1>4. obj[k].last <= local[g].msg.index
  <2>1. obj[k].last < local[g].msg.index BY <1>1, <1>3 DEF ChainInv, Progress
  <2>2. local[g].msg.index \in Nat BY LocalShape, WorkShape, MessageShape DEF Typed
  <2> QED BY <1>3, <2>1, <2>2, LastMoves DEF Moves
<1>5. SameRatchet BY <1>1, <1>3, <1>4, MovesSame
<1> QED BY <1>1, <1>2, <1>5, AdvanceGoes, EndsKeys

LEMMA CheckKeys ==
  ASSUME Typed, Typed', KeyInv, NEW g \in Threads, Check(g)
  PROVE  KeyInv'
<1>1. pc[g] \in Matching /\ UNCHANGED <<dh, obj>> BY DEF Check, Matching, memory
<1>2. Aside BY HandlingAside DEF HandlingStep
<1>3. SameRatchet BY <1>1, StandsSame
<1>4. PICK place, l : Goes(g, place, l) /\ place \in {"next", "skip", "idle"} /\ (place # "idle" => l.msg = local[g].msg)
  BY CheckGoes DEF Has
<1>5. place \in Matching \cup {"idle", "record"} BY <1>4 DEF Matching
<1> QED BY <1>1, <1>2, <1>3, <1>4, <1>5, HandledKeys

LEMMA SkipReadKeys ==
  ASSUME Typed, Typed', KeyInv, NEW g \in Threads, SkipRead(g)
  PROVE  KeyInv'
<1>1. pc[g] \in Matching /\ UNCHANGED <<dh, obj>> BY DEF SkipRead, Matching, memory
<1>2. Aside BY HandlingAside DEF HandlingStep
<1>3. SameRatchet BY <1>1, StandsSame
<1>4. PICK l : Goes(g, "skipping", l) /\ l.msg = local[g].msg BY SkipReadGoes DEF Has
<1>5. "skipping" \in Matching BY DEF Matching
<1> QED BY <1>1, <1>2, <1>3, <1>4, <1>5, HandledKeys

LEMMA SkipWriteKeys ==
  ASSUME Typed, Typed', KeyInv, NEW g \in Threads, SkipWrite(g)
  PROVE  KeyInv'
<1>1. pc[g] \in Matching /\ UNCHANGED dh BY DEF SkipWrite, Matching
<1>2. Aside BY HandlingAside DEF HandlingStep
<1>3. PICK k, c : Moves(k, c, obj[k].last) BY SkipWriteMoves DEF Typed
<1>4. obj[k].last <= obj[k].last BY <1>3, LastMoves DEF Moves
<1>5. SameRatchet BY <1>1, <1>3, <1>4, MovesSame
<1>6. PICK place, l : Goes(g, place, l) /\ place \in {"next", "skip"} /\ l.msg = local[g].msg
  BY SkipWriteGoes DEF Has
<1>7. place \in Matching BY <1>6 DEF Matching
<1> QED BY <1>1, <1>2, <1>5, <1>6, <1>7, HandledKeys

LEMMA NextKeyKeys ==
  ASSUME Typed, Typed', KeyInv, NEW g \in Threads, NextKey(g)
  PROVE  KeyInv'
<1>1. pc[g] \in Matching /\ UNCHANGED <<dh, obj>> BY DEF NextKey, Matching, memory
<1>2. Aside BY HandlingAside DEF HandlingStep
<1>3. SameRatchet BY <1>1, StandsSame
<1>4. PICK place, l : Goes(g, place, l) /\ place \in {"advance", "idle"} /\ (place # "idle" => l.msg = local[g].msg)
  BY NextKeyGoes DEF Has
<1>5. place \in Matching \cup {"idle", "record"} BY <1>4 DEF Matching
<1> QED BY <1>1, <1>2, <1>3, <1>4, <1>5, HandledKeys

LEMMA AcceptGoes ==
  ASSUME Typed, NEW g \in Threads, NEW m \in Messages, Accept(g, m)
  PROVE  \E l : Goes(g, "match", l) /\ l.msg = m
<1>1. PICK l : l = [NoWork EXCEPT !.msg = m] OBVIOUS
<1>2. l.msg = m BY <1>1, NoWorkTyped
<1>3. Goes(g, "match", l) BY <1>1, SetGoes DEF Accept, Typed
<1> QED BY <1>2, <1>3

LEMMA TailOf ==
  ASSUME NEW T, NEW s \in Seq(T), s # <<>>
  PROVE  /\ Head(s) = s[1] /\ 1 \in 1..Len(s) /\ Len(Tail(s)) = Len(s) - 1 /\ Len(s) \in Nat
         /\ \A i \in 1..Len(Tail(s)) : i + 1 \in 1..Len(s) /\ Tail(s)[i] = s[i + 1]
OBVIOUS

LEMMA ReadPushKeys ==
  ASSUME Typed, Typed', KeyInv, ReadPush
  PROVE  KeyInv'
<1>1. PICK s, m, t : s = pushed /\ m = Head(s) /\ t = Tail(s) OBVIOUS
<1>2. s \in Seq(Messages) /\ s # <<>> BY <1>1 DEF Typed, NetTyped, ReadPush
<1>3. /\ m = s[1] /\ 1 \in 1..Len(s) /\ m \in Messages
      /\ \A i \in 1..Len(t) : i + 1 \in 1..Len(s) /\ t[i] = s[i + 1]
  BY <1>1, <1>2, TailOf
<1>4. PICK l : Goes("listener", "match", l) /\ l.msg = m BY <1>1, <1>3, AcceptGoes, TwoThreads DEF ReadPush
<1>5. /\ pushed' = t /\ UNCHANGED <<todo, dh, obj, sends, outbox, box, peer, saved>> /\ pc["listener"] = "idle"
  BY <1>1 DEF ReadPush, memory, dbVars, Busy
<1>6. Holds("match", l)' BY <1>1, <1>3, <1>4, <1>5 DEF KeyInv, MessageKeys, Holds, PeerPub, Sealing
<1>7. /\ \A i \in 1..Len(pushed') : PeerPub(pushed'[i])
      /\ \A i \in 1..Len(todo') : PeerPub(todo'[i])
  BY <1>1, <1>3, <1>5 DEF KeyInv, MessageKeys
<1>8. SameRatchet /\ sends <= sends' BY <1>5, StandsSame DEF Typed, DbTyped
<1> QED BY <1>4, <1>5, <1>6, <1>7, <1>8, OnwardKeys, TwoThreads

LEMMA TakeFetchedKeys ==
  ASSUME Typed, Typed', KeyInv, TakeFetched
  PROVE  KeyInv'
<1>1. PICK s, m, t : s = todo /\ m = Head(s) /\ t = Tail(s) OBVIOUS
<1>2. s \in Seq(Messages) /\ s # <<>> BY <1>1 DEF Typed, NetTyped, TakeFetched
<1>3. /\ m = s[1] /\ 1 \in 1..Len(s) /\ m \in Messages
      /\ \A i \in 1..Len(t) : i + 1 \in 1..Len(s) /\ t[i] = s[i + 1]
  BY <1>1, <1>2, TailOf
<1>4. PICK l : Goes("main", "match", l) /\ l.msg = m BY <1>1, <1>3, AcceptGoes, TwoThreads DEF TakeFetched
<1>5. /\ todo' = t /\ UNCHANGED <<pushed, dh, obj, sends, outbox, box, peer, saved>> /\ pc["main"] = "idle"
  BY <1>1 DEF TakeFetched, memory, dbVars, Busy
<1>6. Holds("match", l)' BY <1>1, <1>3, <1>4, <1>5 DEF KeyInv, MessageKeys, Holds, PeerPub, Sealing
<1>7. /\ \A i \in 1..Len(pushed') : PeerPub(pushed'[i])
      /\ \A i \in 1..Len(todo') : PeerPub(todo'[i])
  BY <1>1, <1>3, <1>5 DEF KeyInv, MessageKeys
<1>8. SameRatchet /\ sends <= sends' BY <1>5, StandsSame DEF Typed, DbTyped
<1> QED BY <1>4, <1>5, <1>6, <1>7, <1>8, OnwardKeys, TwoThreads

(* The message goes on to be recorded, and saved, or not.                  *)
LEMMA OnToRecordKeys ==
  ASSUME Typed, Typed', KeyInv,
         Answered \/ NotAnswered \/ \E g \in Threads : Record(g) \/ RecordFails(g)
  PROVE  KeyInv'
<1>1. PICK g, place, l :
        /\ g \in Threads /\ Goes(g, place, l) /\ place \in {"record", "marshal", "idle"}
        /\ pc[g] \in {"await", "record"} /\ UNCHANGED <<memory, netVars, saved, sends>>
  <2>1. CASE Answered
    <3>1. Goes("main", "record", local["main"]) BY <2>1, SetGoes, TwoThreads DEF Answered, Typed
    <3> QED BY <2>1, <3>1, TwoThreads DEF Answered, dbVars
  <2>2. CASE NotAnswered
    <3>1. Goes("main", "idle", NoWork) BY <2>2, FinishGoes, TwoThreads DEF NotAnswered, Typed
    <3> QED BY <2>2, <3>1, TwoThreads DEF NotAnswered, dbVars
  <2>3. ASSUME NEW g \in Threads, Record(g)
        PROVE  Goes(g, "marshal", local[g]) /\ pc[g] = "record" /\ UNCHANGED <<memory, netVars, saved, sends>>
    BY <2>3, SetGoes DEF Record, Typed
  <2>4. ASSUME NEW g \in Threads, RecordFails(g)
        PROVE  /\ Goes(g, "marshal", local[g]) \/ Goes(g, "idle", NoWork)
               /\ pc[g] = "record" /\ UNCHANGED <<memory, netVars, saved, sends>>
    <3>1. Go(g, "marshal", local[g]) \/ Go(g, "idle", NoWork) BY <2>4 DEF RecordFails
    <3>2. Goes(g, "marshal", local[g]) \/ Goes(g, "idle", NoWork) BY <3>1, SetsOut DEF Typed
    <3> QED BY <2>4, <3>2 DEF RecordFails, dbVars
  <2> QED BY <2>1, <2>2, <2>3, <2>4
<1>2. UNCHANGED <<todo, pushed, dh, obj, sends, outbox, box, peer, saved>> BY <1>1 DEF memory, netVars
<1>3. Holds(place, l)' BY <1>1 DEF Holds, Matching, Sealing
<1>4. SameRatchet /\ sends <= sends' BY <1>2, StandsSame DEF Typed, DbTyped
<1>5. /\ \A i \in 1..Len(pushed') : PeerPub(pushed'[i])
      /\ \A i \in 1..Len(todo') : PeerPub(todo'[i])
  BY <1>2 DEF KeyInv, MessageKeys
<1> QED BY <1>1, <1>2, <1>3, <1>4, <1>5, OnwardKeys

LEMMA EncryptReadKeys ==
  ASSUME Typed, Typed', KeyInv, EncryptRead
  PROVE  KeyInv'
<1>1. PICK l : Goes("main", "cycle", l) /\ l.mr = dh.cur BY EncryptReadGoes DEF Has
<1>2. pc["main"] = "encrypt" /\ UNCHANGED <<todo, pushed, dh, obj, sends, outbox, box, peer, saved>>
  BY DEF EncryptRead, memory, netVars, dbVars
<1>3. dh.state = "Sending" BY <1>2, TwoThreads DEF KeyInv, Holds, Sealing
<1>4. Holds("cycle", l)' BY <1>1, <1>2, <1>3 DEF Holds, Matching, Sealing
<1>5. SameRatchet /\ sends <= sends' BY <1>2, StandsSame DEF Typed, DbTyped
<1>6. /\ \A i \in 1..Len(pushed') : PeerPub(pushed'[i])
      /\ \A i \in 1..Len(todo') : PeerPub(todo'[i])
  BY <1>2 DEF KeyInv, MessageKeys
<1> QED BY <1>1, <1>2, <1>4, <1>5, <1>6, OnwardKeys, TwoThreads

LEMMA EncryptCycleKeys ==
  ASSUME Typed, Typed', KeyInv, EncryptCycle
  PROVE  KeyInv'
<1>1. PICK l : Goes("main", "seal", l) /\ l.mr = local["main"].mr BY EncryptCycleGoes DEF Has
<1>2. pc["main"] = "cycle" /\ UNCHANGED <<todo, pushed, dh, sends, outbox, box, peer, saved>>
  BY DEF EncryptCycle, memory, netVars, dbVars
<1>3. dh.state = "Sending" /\ local["main"].mr = dh.cur BY <1>2, TwoThreads DEF KeyInv, Holds, Sealing
<1>4. Holds("seal", l)' BY <1>1, <1>2, <1>3 DEF Holds, Matching, Sealing
<1>5. PICK k, c : Moves(k, c, obj[k].last) BY EncryptCycleMoves DEF Typed
<1>6. obj[k].last <= obj[k].last BY <1>5, LastMoves DEF Moves
<1>7. SameRatchet /\ sends <= sends' BY <1>2, <1>5, <1>6, MovesSame DEF Typed, DbTyped
<1>8. /\ \A i \in 1..Len(pushed') : PeerPub(pushed'[i])
      /\ \A i \in 1..Len(todo') : PeerPub(todo'[i])
  BY <1>2 DEF KeyInv, MessageKeys
<1> QED BY <1>1, <1>2, <1>4, <1>7, <1>8, OnwardKeys, TwoThreads

(* What is sealed is on the chain, past all there is.                      *)
LEMMA SealedIsFresh ==
  ASSUME Typed, ChainInv, KeyInv, EncryptSeal
  PROVE  /\ Sealed \in Messages /\ UsWrote(Sealed) /\ \A i \in 1..Len(outbox) : outbox[i].key # Sealed.key
         /\ Sealed.pub = dh.keyPair /\ Sealed.key[1] = dh.root /\ Sealed.index = local["main"].i
         /\ local["main"].i = obj[dh.cur].last + 1 /\ local["main"].mr = dh.cur
<1>1. pc["main"] = "seal" BY DEF EncryptSeal
<1>2. dh.state = "Sending" /\ local["main"].mr = dh.cur BY <1>1, TwoThreads DEF KeyInv, Holds, Sealing
<1>3. Progress("seal", local["main"], obj[dh.cur]) BY <1>1, <1>2, TwoThreads DEF ChainInv
<1>4. PICK n : n = local["main"].i OBVIOUS
<1>5. n \in Nat /\ local["main"].pos = n /\ n = obj[dh.cur].last + 1 /\ obj[dh.cur].last \in Int
  <2>1. n \in Nat BY <1>4, TwoThreads, LocalShape, WorkShape DEF Typed
  <2> QED BY <1>3, <1>4, <2>1, LastAt DEF Progress
<1>6. ~ Turning BY <1>1 DEF Turning
<1>7. /\ Shape(dh.root, dh.keyPair) /\ Ahead(outbox, "Sending", dh.keyPair, dh.root, obj[dh.cur].last)
      /\ obj[dh.cur].root = dh.root /\ Sound("us", sends, dh.root, dh.keyPair, obj[dh.cur].foreign)
  BY <1>2, <1>6 DEF KeyInv, MemoryKeys
<1>8. /\ Sealed.pub = dh.keyPair /\ Sealed.index = n /\ Sealed.key = <<dh.root, n>>
  BY <1>2, <1>4, <1>5, <1>7 DEF Sealed
<1>9. UsWrote(Sealed) BY <1>7, <1>8 DEF UsWrote, Sound
<1>10. ASSUME NEW i \in 1..Len(outbox) PROVE outbox[i].key # Sealed.key
  <2>1. PICK m : m = outbox[i] OBVIOUS
  <2>2. UsWrote(m) BY <2>1 DEF KeyInv, MessageKeys
  <2>3. dh.root \in Roots BY <1>7 DEF Sound
  <2>4. m.key[1] = dh.root => m.pub = dh.keyPair BY <1>7, <2>2, <2>3, ShapeTells DEF UsWrote
  <2>5. outbox \in Seq(Messages) /\ obj[dh.cur].last < n BY <1>5 DEF Typed, NetTyped
  <2> QED BY <1>5, <1>7, <1>8, <2>1, <2>2, <2>3, <2>4, <2>5, NextIsFresh DEF UsWrote
<1> QED BY <1>2, <1>4, <1>5, <1>8, <1>9, <1>10, EncryptSealSets

LEMMA EncryptSealKeys ==
  ASSUME Typed, Typed', ChainInv, KeyInv, EncryptSeal
  PROVE  KeyInv'
<1>1. PICK m, l : m = Sealed /\ Goes("main", "post", l) /\ l.msg = m
  BY EncryptSealSets, SetGoes, TwoThreads DEF Typed
<1>2. pc["main"] = "seal" /\ UNCHANGED <<todo, pushed, dh, sends, outbox, box, peer, saved>>
  BY DEF EncryptSeal, netVars, dbVars
<1>3. /\ m \in Messages /\ UsWrote(m) /\ \A i \in 1..Len(outbox) : outbox[i].key # m.key
      /\ m.pub = dh.keyPair /\ m.key[1] = dh.root /\ m.index = local["main"].i
      /\ local["main"].i = obj[dh.cur].last + 1 /\ local["main"].mr = dh.cur
  BY <1>1, SealedIsFresh
<1>4. Moves(dh.cur, obj[dh.cur].chain, local["main"].i) BY <1>3, EncryptSealMoves DEF Typed
<1>5. SameRatchet
  <2>1. obj[dh.cur].last <= local["main"].i BY <1>3, LastAt
  <2> QED BY <1>2, <1>4, <2>1, MovesSame
<1>6. Holds("post", l)'
  <2>1. UsWrote(m)' BY <1>2, <1>3 DEF UsWrote
  <2>2. obj'[dh.cur].last = m.index /\ m.index \in Nat BY <1>3, <1>4, MessageShape DEF Moves
  <2>3. m.index <= obj'[dh'.cur].last BY <1>2, <2>2
  <2>4. Ahead(<<m>>, dh'.state, dh'.keyPair, dh'.root, obj'[dh'.cur].last)
    BY <1>2, <1>3, <2>3 DEF Ahead
  <2> QED BY <1>1, <1>2, <1>3, <2>1, <2>4 DEF Holds, Matching, Sealing, Ahead
<1>7. /\ \A i \in 1..Len(pushed') : PeerPub(pushed'[i])
      /\ \A i \in 1..Len(todo') : PeerPub(todo'[i])
  BY <1>2 DEF KeyInv, MessageKeys
<1>8. sends <= sends' BY <1>2 DEF Typed, DbTyped
<1> QED BY <1>1, <1>2, <1>5, <1>6, <1>7, <1>8, OnwardKeys, TwoThreads

LEMMA OthersHold ==
  ASSUME Typed, KeyInv, SameRatchet, More, NEW g \in Threads, NEW place, NEW l, Goes(g, place, l), Holds(place, l)',
         \A h \in Threads \ {g} : pc[h] = "post" => UNCHANGED outbox
  PROVE  \A h \in Threads : Holds(pc[h], local[h])'
<1> SUFFICES ASSUME NEW h \in Threads PROVE Holds(pc[h], local[h])' OBVIOUS
<1>1. CASE h = g BY <1>1 DEF Goes
<1>2. CASE h # g
  <2>1. PICK p, w : p = pc[h] /\ w = local[h] OBVIOUS
  <2>2. Holds(p, w) BY <2>1 DEF KeyInv
  <2>3. w.msg \in Messages \cup {NoMessage} /\ (p = "post" => w.msg \in Messages /\ UNCHANGED outbox)
    BY <1>2, <2>1, LocalShape, WorkShape DEF Typed, WorkOK, Sealing
  <2>4. Holds(p, w)' BY <2>2, <2>3, HoldsStays
  <2>5. pc'[h] = p /\ local'[h] = w BY <1>2, <2>1 DEF Goes
  <2> QED BY <2>4, <2>5
<1> QED BY <1>1, <1>2

(* The listener has no message of the client's to post.                    *)
LEMMA OnlyMainPosts ==
  ASSUME Typed
  PROVE  pc["listener"] \notin {"post", "await"} \cup Sealing
BY TwoThreads DEF Typed, WorkTyped, WorkOK, Sealing

LEMMA PostKeys ==
  ASSUME Typed, Typed', KeyInv, Post
  PROVE  KeyInv'
<1>1. /\ pc["main"] = "post" /\ UNCHANGED <<todo, pushed, dh, obj, sends, box, peer, saved>>
  BY DEF Post, memory, dbVars
<1>2. SameRatchet /\ More BY <1>1, StandsSame DEF More, Typed, DbTyped, NetTyped, PeerTyped
<1>3. CASE Finish("main") /\ UNCHANGED outbox
  <2>1. Goes("main", "idle", NoWork) BY <1>3, FinishGoes, TwoThreads DEF Typed
  <2>2. Holds("idle", NoWork)' BY DEF Holds, Matching, Sealing
  <2>3. /\ \A i \in 1..Len(pushed') : PeerPub(pushed'[i])
        /\ \A i \in 1..Len(todo') : PeerPub(todo'[i])
    BY <1>1 DEF KeyInv, MessageKeys
  <2>4. sends <= sends' BY <1>2 DEF More
  <2> QED BY <1>1, <1>2, <1>3, <2>1, <2>2, <2>3, <2>4, OnwardKeys, TwoThreads
<1>4. CASE outbox' = Append(outbox, local["main"].msg) /\ Set("main", "await", local["main"])
  <2>1. PICK w, m, s : w = local["main"] /\ m = w.msg /\ s = outbox OBVIOUS
  <2>2. Goes("main", "await", w) BY <1>4, <2>1, SetGoes, TwoThreads DEF Typed
  <2>3. m \in Messages /\ s \in Seq(Messages)
    BY <1>1, <2>1, TwoThreads, LocalShape DEF Typed, NetTyped, WorkOK, Sealing
  <2>4. /\ UsWrote(m) /\ Ahead(<<m>>, dh.state, dh.keyPair, dh.root, obj[dh.cur].last)
        /\ \A i \in 1..Len(s) : s[i].key # m.key
    <3>1. Holds("post", w) BY <1>1, <2>1, TwoThreads DEF KeyInv
    <3> QED BY <2>1, <3>1 DEF Holds
  <2>5. outbox' = Append(s, m) BY <1>4, <2>1
  <2>6. /\ outbox'[Len(s) + 1] = m /\ \A i \in 1..Len(s) : outbox'[i] = s[i]
        /\ \A i \in 1..Len(outbox') : i \in 1..Len(s) \/ i = Len(s) + 1
    BY <2>3, <2>5, Appended
  <2>7. OneKeyEach(outbox') BY <2>1, <2>3, <2>4, <2>5, OneKeyAppends DEF KeyInv, MessageKeys
  <2>8. MessageKeys'
    <3>1. \A i \in 1..Len(outbox') : UsWrote(outbox'[i]) BY <2>1, <2>4, <2>6 DEF KeyInv, MessageKeys
    <3> QED BY <1>1, <2>7, <3>1 DEF KeyInv, MessageKeys, UsWrote, PeerWrote, PeerPub, OneKeyEach
  <2>9. PeerKeys' BY <1>1, PeerKeysStay DEF KeyInv
  <2>10. ~ Turning /\ ~ Turning' BY <1>1, <2>2 DEF Turning, Goes
  <2>11. MemoryKeys'
    <3>1. Ahead(s, dh.state, dh.keyPair, dh.root, obj[dh.cur].last) BY <2>1, <2>10 DEF KeyInv, MemoryKeys
    <3>2. Ahead(outbox', dh.state, dh.keyPair, dh.root, obj[dh.cur].last)
      BY <2>3, <2>4, <2>5, <3>1, AheadAppends, LastAt
    <3> QED BY <1>1, <2>10, <3>2 DEF KeyInv, MemoryKeys, Ahead, Sound
  <2>12. SavedKeys'
    <3>1. \A h \in Threads : pc'[h] = "exec" => pc[h] = "exec" /\ local'[h] = local[h] BY <2>2 DEF Goes
    <3>2. Grown BY <2>1, <2>3, <2>5, Appended DEF Grown
    <3> QED BY <1>1, <1>2, <3>1, <3>2, SavedKeysStay DEF KeyInv
  <2>13. \A h \in Threads : Holds(pc[h], local[h])'
    <3>1. Holds("await", w)' BY DEF Holds, Matching, Sealing
    <3>2. \A h \in Threads \ {"main"} : pc[h] # "post" BY OnlyMainPosts, TwoThreads
    <3> QED BY <1>2, <2>2, <3>1, <3>2, OthersHold, TwoThreads
  <2> QED BY <2>8, <2>9, <2>11, <2>12, <2>13 DEF KeyInv
<1> QED BY <1>3, <1>4 DEF Post

(* A goroutine that is not amid its work and does not post has nothing in  *)
(* hand that a turn would spoil.                                           *)
LEMMA HoldsNothing ==
  ASSUME More, NEW place, place \notin Touching \cup {"post"}, NEW l, Holds(place, l),
         l.msg \in Messages \cup {NoMessage}
  PROVE  Holds(place, l)'
<1>1. place = "match" => PeerPub(l.msg)' BY MessageShape, PubMore DEF Holds, Matching
<1> QED BY <1>1 DEF Holds, Touching, Matching, Sealing

(* The new ratchet is in use.                                              *)
LEMMA Turn2Keys ==
  ASSUME Typed, Typed', Alone, KeyInv, NEW g \in Threads, Turn2(g)
  PROVE  KeyInv'
<1>1. pc[g] = "turn" BY DEF Turn2
<1>2. Aside BY HandlingAside DEF HandlingStep
<1>3. More BY <1>2 DEF Aside, More, Typed, DbTyped, NetTyped, PeerTyped
<1>4. PICK w : w = local[g] OBVIOUS
<1>5. PICK place, l : /\ place = (IF w.msg # NoMessage THEN "check" ELSE "encrypt") /\ Goes(g, place, l) /\ l.msg = w.msg
  BY <1>4, Turn2Goes DEF Has
<1>6. PICK root, f : root = w.root /\ f = w.foreign OBVIOUS
<1>7. /\ dh'.keyPair = dh.keyPair /\ dh'.root = root
      /\ dh'.state = (IF w.msg # NoMessage THEN "Receiving" ELSE dh.state)
      /\ obj'[dh'.cur] = NewObject(root, f)
  BY <1>4, <1>6, Turn2Goes
<1>8. obj'[dh'.cur].root = root /\ obj'[dh'.cur].foreign = f /\ obj'[dh'.cur].last = -1 BY <1>7 DEF NewObject
<1>9. /\ root = Append(dh.root, Secret(dh.keyPair, f)) /\ f[1] # "us" /\ f \in Pairs
      /\ w.msg = NoMessage => f = obj[dh.cur].foreign
      /\ w.msg # NoMessage => PeerPub(w.msg)
  <2>1. Holds("turn", w) BY <1>1, <1>4 DEF KeyInv
  <2>2. f \in Pairs BY <1>4, <1>6, LocalShape, WorkShape DEF Typed
  <2> QED BY <1>6, <2>1, <2>2 DEF Holds
<1>10. Sound("us", sends, dh.root, dh.keyPair, obj[dh.cur].foreign) /\ sends \in Nat
  BY DEF KeyInv, MemoryKeys, Typed, DbTyped
<1>11. Sound("us", sends, root, dh.keyPair, f) BY <1>9, <1>10, SoundExtends
<1>12. \A h \in Threads \ {g} : pc[h] \notin Touching /\ pc'[h] = pc[h] /\ local'[h] = local[h]
  BY <1>1, <1>5, OtherRests DEF Goes, Touching
<1>13. ~ Turning' BY <1>5, <1>12, TwoThreads DEF Turning, Goes, Touching
<1>14. w.msg = NoMessage => g = "main"
  <2>1. ASSUME g = "listener" PROVE w.msg \in Messages BY <1>1, <1>4, <2>1, LocalShape DEF Typed, WorkOK
  <2> QED BY <2>1, TwoThreads, NoMessageIs
<1>15. /\ dh'.state = "Sending" => Shape(root, dh.keyPair)
       /\ Ahead(outbox, dh'.state, dh.keyPair, root, -1)
       /\ w.msg = NoMessage => dh'.state = "Sending"
  <2>1. CASE w.msg # NoMessage BY <1>7, <2>1 DEF Ahead
  <2>2. CASE w.msg = NoMessage
    <3>1. Turning BY <1>1, <1>4, <1>14, <2>2 DEF Turning
    <3>2. /\ dh.state = "Sending" /\ NewTo(dh.root, dh.keyPair)
          /\ \A i \in 1..Len(outbox) : outbox[i].pub # dh.keyPair
      BY <3>1 DEF KeyInv, MemoryKeys
    <3>3. Shape(root, dh.keyPair) BY <1>9, <1>10, <2>2, <3>2, ShapeMade
    <3> QED BY <1>7, <2>2, <3>2, <3>3 DEF Ahead
  <2> QED BY <2>1, <2>2
<1>16. MemoryKeys' BY <1>2, <1>7, <1>8, <1>11, <1>13, <1>15 DEF MemoryKeys, Aside, Sound, Ahead
<1>17. MessageKeys' /\ PeerKeys'
  <2>1. /\ \A i \in 1..Len(pushed') : PeerPub(pushed'[i])
        /\ \A i \in 1..Len(todo') : PeerPub(todo'[i])
    BY <1>2 DEF Aside, KeyInv, MessageKeys
  <2> QED BY <1>2, <1>3, <2>1, MessageKeysStay, PeerKeysStay DEF KeyInv, Aside
<1>18. SavedKeys'
  <2>1. \A h \in Threads : pc'[h] = "exec" => pc[h] = "exec" /\ local'[h] = local[h] BY <1>5, <1>12 DEF Goes
  <2> QED BY <1>2, <1>3, <2>1, SameGrown, SavedKeysStay DEF KeyInv, Aside
<1>19. ASSUME NEW h \in Threads PROVE Holds(pc[h], local[h])'
  <2>1. CASE h = g
    <3>1. w.msg # NoMessage => PeerPub(l.msg)' BY <1>2, <1>5, <1>9 DEF Aside, PeerPub
    <3>2. Holds(place, l)' BY <1>5, <1>15, <3>1 DEF Holds, Matching, Sealing
    <3> QED BY <1>5, <2>1, <3>2 DEF Goes
  <2>2. CASE h # g /\ pc[h] # "post"
    <3>1. PICK p, x : p = pc[h] /\ x = local[h] OBVIOUS
    <3>2. Holds(p, x) /\ x.msg \in Messages \cup {NoMessage} /\ p \notin Touching \cup {"post"}
      BY <1>12, <2>2, <3>1, LocalShape, WorkShape DEF KeyInv, Typed
    <3>3. Holds(p, x)' BY <1>3, <3>2, HoldsNothing
    <3> QED BY <1>12, <2>2, <3>1, <3>3
  <2>3. CASE h # g /\ pc[h] = "post"
    <3>1. h = "main" /\ g = "listener" BY <2>3, OnlyMainPosts, TwoThreads
    <3>2. dh'.state = "Receiving" BY <1>7, <1>14, <3>1
    <3>3. PICK x : x = local[h] OBVIOUS
    <3>4. Holds("post", x) BY <2>3, <3>3 DEF KeyInv
    <3>5. UsWrote(x.msg)' /\ \A i \in 1..Len(outbox') : outbox'[i].key # x.msg.key
      BY <1>2, <3>4 DEF Holds, UsWrote, Aside
    <3>6. Holds("post", x)' BY <3>2, <3>5 DEF Holds, Matching, Sealing, Ahead
    <3> QED BY <1>12, <2>3, <3>3, <3>6
  <2> QED BY <2>1, <2>2, <2>3
<1> QED BY <1>16, <1>17, <1>18, <1>19 DEF KeyInv

LEMMA BeginSendKeys ==
  ASSUME Typed, Typed', Alone', KeyInv, BeginSend
  PROVE  KeyInv'
<1>1. /\ pc["main"] = "idle" /\ UNCHANGED <<obj, todo, pushed, box, outbox, peer, saved>>
      /\ sends' = sends + 1 /\ sends \in Nat
  BY DEF BeginSend, Busy, netVars, dbVars, Typed, DbTyped
<1>2. More BY <1>1 DEF More, Typed, NetTyped, PeerTyped
<1>3. /\ \A i \in 1..Len(pushed') : PeerPub(pushed'[i])
      /\ \A i \in 1..Len(todo') : PeerPub(todo'[i])
  BY <1>1 DEF KeyInv, MessageKeys
<1>4. CASE UNCHANGED dh /\ dh.state = "Sending" /\ \E l : Goes("main", "encrypt", l)
  <2>1. PICK l : Goes("main", "encrypt", l) BY <1>4
  <2>2. Holds("encrypt", l)' BY <1>4 DEF Holds, Matching, Sealing
  <2>3. SameRatchet /\ sends <= sends' BY <1>1, <1>4, StandsSame
  <2> QED BY <1>1, <1>3, <2>1, <2>2, <2>3, OnwardKeys, TwoThreads
<1>5. CASE \E d : /\ d \in DHs(Len(obj)) /\ d.cur = dh.cur /\ d.keyPair = <<"us", sends + 1>> /\ d.root = dh.root
                  /\ d.prev = dh.prev /\ d.state = "Sending" /\ dh.state = "Receiving"
                  /\ obj[dh.cur].foreign \in Pairs /\ StartTurn("main", d, obj[dh.cur].foreign)
                  /\ local["main"].msg = NoMessage
  <2>1. PICK d, f, fresh :
           /\ d \in DHs(Len(obj)) /\ d.cur = dh.cur /\ d.keyPair = fresh /\ d.root = dh.root
           /\ d.state = "Sending" /\ f = obj[dh.cur].foreign /\ fresh = <<"us", sends + 1>>
           /\ f \in Pairs /\ StartTurn("main", d, f) /\ local["main"].msg = NoMessage
    BY <1>5
  <2>2. PICK l : /\ Goes("main", "turn", l) /\ l.msg = NoMessage
                 /\ l.root = Append(d.root, Secret(d.keyPair, f)) /\ l.foreign = f
    <3>1. PICK g \in Threads : g = "main" BY TwoThreads
    <3>2. d \in DHs(Len(obj)) /\ d.cur = dh.cur /\ f \in Pairs /\ StartTurn(g, d, f) BY <2>1, <3>1
    <3>3. \E l : /\ Goes(g, "turn", l) /\ l.msg = local[g].msg
                 /\ l.root = Append(d.root, Secret(d.keyPair, f)) /\ l.foreign = f
      BY ONLY Typed, <3>2, StartTurnGoes, Zenon
    <3> QED BY <2>1, <3>1, <3>3
  <2>3. dh'.keyPair = fresh /\ dh'.root = dh.root /\ dh'.cur = dh.cur /\ dh'.state = "Sending"
    BY <2>1, StartTurnGoes, TwoThreads
  <2>4. /\ dh.root = obj[dh.cur].root /\ Sound("us", sends, dh.root, dh.keyPair, f)
    BY <2>1 DEF KeyInv, MemoryKeys
  <2>5. Sound("us", sends', dh.root, fresh, f) /\ NewTo(dh.root, fresh)
    BY <1>1, <2>1, <2>4, SoundFresh DEF Who
  <2>6. \A i \in 1..Len(outbox) : outbox[i].pub # fresh
    <3>1. ASSUME NEW i \in 1..Len(outbox), outbox[i].pub = fresh PROVE FALSE
      <4>1. outbox[i].pub[2] <= sends BY DEF KeyInv, MessageKeys, UsWrote
      <4> QED BY <1>1, <2>1, <3>1, <4>1
    <3> QED BY <3>1
  <2>7. Turning' BY <2>2 DEF Turning, Goes
  <2>8. MemoryKeys' BY <1>1, <2>1, <2>3, <2>4, <2>5, <2>6, <2>7 DEF MemoryKeys, Sound, NewTo
  <2>9. MessageKeys' /\ PeerKeys' BY <1>1, <1>2, <1>3, MessageKeysStay, PeerKeysStay DEF KeyInv
  <2>10. SavedKeys'
    <3>1. \A h \in Threads : pc'[h] = "exec" => pc[h] = "exec" /\ local'[h] = local[h] BY <2>2 DEF Goes
    <3> QED BY <1>1, <1>2, <3>1, SameGrown, SavedKeysStay DEF KeyInv
  <2>11. ASSUME NEW h \in Threads PROVE Holds(pc[h], local[h])'
    <3>1. CASE h = "main"
      <4>1. f[1] # "us" BY <2>4 DEF Sound
      <4>2. Holds("turn", l)' BY <1>1, <2>1, <2>2, <2>3, <4>1 DEF Holds, Matching, Sealing
      <4> QED BY <2>2, <3>1, <4>2 DEF Goes
    <3>2. CASE h = "listener"
      <4>1. pc'[h] = pc[h] /\ local'[h] = local[h] /\ pc[h] \notin Touching \cup {"post"}
        BY <2>2, <3>2, OnlyMainPosts, TwoThreads DEF Alone, Goes, Touching
      <4>2. PICK p, x : p = pc[h] /\ x = local[h] OBVIOUS
      <4>3. Holds(p, x) /\ x.msg \in Messages \cup {NoMessage}
        BY <4>2, LocalShape, WorkShape DEF KeyInv, Typed
      <4>4. Holds(p, x)' BY <1>2, <4>1, <4>2, <4>3, HoldsNothing
      <4> QED BY <4>1, <4>2, <4>4
    <3> QED BY <3>1, <3>2, TwoThreads
  <2> QED BY <2>8, <2>9, <2>10, <2>11 DEF KeyInv
<1> QED BY <1>4, <1>5, BeginSendGoes

(* A row made while the other is not amid its work.                        *)
LEMMA RowSound ==
  ASSUME Typed, MemoryKeys, NEW g \in Threads, pc[g] = "marshal"
  PROVE  RowKeys(RowFor(g))
<1> SUFFICES ASSUME \A h \in Threads \ {g} : pc[h] \notin Touching
             PROVE  SnapSound(Snapshot) /\ Len(outbox) \in Nat /\ PastPosted(Snapshot, Len(outbox))
  BY DEF RowKeys, RowFor
<1>1. ~ Turning BY TwoThreads DEF Turning, Touching
<1>2. PICK s : s = Snapshot OBVIOUS
<1>3. s.keyPair = dh.keyPair /\ s.root = dh.root /\ s.cur = obj[dh.cur] /\ s.state = dh.state
  BY <1>2, SnapshotTyped DEF Typed
<1>4. SnapSound(s) BY <1>1, <1>3 DEF MemoryKeys, SnapSound
<1>5. PastPosted(s, Len(outbox)) BY <1>1, <1>3 DEF MemoryKeys, PastPosted, Ahead
<1> QED BY <1>2, <1>4, <1>5 DEF Typed, NetTyped

(* Steps of saving leave the rest alone.                                   *)
SavingStep(g) == Marshal(g) \/ Exec(g)

LEMMA SavingKeys ==
  ASSUME Typed, Typed', KeyInv, NEW g \in Threads, SavingStep(g)
  PROVE  KeyInv'
<1>1. /\ UNCHANGED <<dh, obj, todo, pushed, box, outbox, peer, sends>> /\ pc[g] \in {"marshal", "exec"}
  BY DEF SavingStep, Marshal, Exec, memory, netVars
<1>2. More /\ SameRatchet BY <1>1, StandsSame DEF More, Typed, DbTyped, NetTyped, PeerTyped
<1>3. PICK place, l : /\ Goes(g, place, l)
                      /\ \/ place = "exec" /\ l.row = RowFor(g) /\ pc[g] = "marshal" /\ UNCHANGED saved
                         \/ place = "idle" /\ pc[g] = "exec" /\ saved' \in {local[g].row, saved}
  <2>1. CASE Marshal(g)
    <3>1. \E l : Goes(g, "exec", l) /\ l.row = RowFor(g) BY <2>1, MarshalSets, SetGoes DEF Typed
    <3> QED BY <2>1, <3>1 DEF Marshal, dbVars
  <2>2. CASE Exec(g)
    <3>1. Goes(g, "idle", NoWork) BY <2>2, FinishGoes DEF Exec, Typed
    <3> QED BY <2>2, <3>1 DEF Exec
  <2> QED BY <2>1, <2>2 DEF SavingStep
<1>4. Turning' <=> Turning BY <1>1, <1>3, TwoThreads DEF Turning, Goes
<1>5. MemoryKeys' BY <1>1, <1>2, <1>4, MemoryKeysStay DEF KeyInv
<1>6. MessageKeys' /\ PeerKeys' BY <1>1, <1>2, MessageKeysStay, PeerKeysStay DEF KeyInv, MessageKeys
<1>8. Holds(place, l)' BY <1>3 DEF Holds, Matching, Sealing
<1>9. \A h \in Threads : Holds(pc[h], local[h])' BY <1>1, <1>2, <1>3, <1>8, OthersHold
<1>10. Grown BY <1>1, SameGrown
<1>11. \A h \in Threads \ {g} : pc'[h] = pc[h] /\ local'[h] = local[h] BY <1>3 DEF Goes
<1>12. SavedKeys'
  <2>1. CASE place = "idle"
    <3>1. \A h \in Threads : pc'[h] = "exec" => pc[h] = "exec" /\ local'[h] = local[h]
      BY <1>3, <1>11, <2>1 DEF Goes
    <3> QED BY <1>2, <1>3, <1>10, <2>1, <3>1, SavedKeysStay DEF KeyInv
  <2>2. CASE place = "exec" /\ l.row = RowFor(g) /\ pc[g] = "marshal" /\ UNCHANGED saved
    <3>1. PICK row : row = RowFor(g) OBVIOUS
    <3>2. RowKeys(row)' BY <1>2, <1>10, <2>2, <3>1, RowSound, RowMore DEF KeyInv
    <3>3. local'[g].row = row BY <1>3, <2>2, <3>1 DEF Goes
    <3>4. ASSUME NEW h \in Threads \ {g}, pc'[h] = "exec" PROVE RowKeys(local[h].row)'
      <4>1. PICK x : x = local[h].row OBVIOUS
      <4>2. RowKeys(x)' BY <1>2, <1>10, <1>11, <3>4, <4>1, RowMore DEF KeyInv, SavedKeys
      <4> QED BY <1>11, <4>1, <4>2
    <3>5. PICK x : x = saved OBVIOUS
    <3>6. RowKeys(x)' BY <1>2, <1>10, <3>5, RowMore DEF KeyInv, SavedKeys
    <3>7. RowKeys(saved)' BY <2>2, <3>5, <3>6
    <3>8. ASSUME NEW h \in Threads, pc'[h] = "exec" PROVE RowKeys(local[h].row)'
      BY <3>2, <3>3, <3>4, <3>8
    <3> QED BY <3>7, <3>8 DEF SavedKeys
  <2> QED BY <1>3, <2>1, <2>2
<1> QED BY <1>5, <1>6, <1>9, <1>12 DEF KeyInv

(* A start from a row that is neither torn nor behind.                     *)
LEMMA RestartKeys ==
  ASSUME Typed, Typed', KeyInv, Restart, saved.whole, ~ saved.posted < Len(outbox)
  PROVE  KeyInv'
<1>1. /\ \A g \in Threads : pc'[g] = "idle"
      /\ UNCHANGED <<saved, box, outbox, peer, sends>> /\ pushed' = <<>> /\ todo' = <<>>
  BY DEF Restart, dbVars
<1>2. PICK r, n : r = saved.ratchet /\ n = saved.posted OBVIOUS
<1>3. SnapSound(r) /\ n \in 0..Len(outbox) /\ PastPosted(r, n) BY <1>2 DEF KeyInv, SavedKeys, RowKeys
<1>4. n = Len(outbox) BY <1>2, <1>3 DEF Typed, NetTyped
<1>5. /\ obj'[dh'.cur] = r.cur
      /\ dh'.keyPair = r.keyPair /\ dh'.root = r.root /\ dh'.state = r.state
  BY <1>2, Restored
<1>6. ~ Turning' BY <1>1, TwoThreads DEF Turning
<1>7. MemoryKeys' BY <1>1, <1>3, <1>4, <1>5, <1>6 DEF MemoryKeys, SnapSound, PastPosted, Sound, Ahead
<1>8. More BY <1>1 DEF More, Typed, DbTyped, NetTyped, PeerTyped
<1>9. MessageKeys' /\ PeerKeys' BY <1>1, <1>8, MessageKeysStay, PeerKeysStay DEF KeyInv, MessageKeys
<1>10. SavedKeys' BY <1>1, <1>8, SameGrown, SavedKeysStay DEF KeyInv
<1>11. \A g \in Threads : Holds(pc[g], local[g])' BY <1>1 DEF Holds, Matching, Sealing
<1> QED BY <1>7, <1>9, <1>10, <1>11 DEF KeyInv

(* Steps of the contact's, and of the login.                               *)
ElsewhereKept == UNCHANGED <<dh, obj, pc, local, outbox, sends, saved>>

LEMMA ElsewhereKeys ==
  ASSUME Typed, Typed', KeyInv, ElsewhereKept, peer.made <= peer'.made, MessageKeys', PeerKeys'
  PROVE  KeyInv'
<1>1. More /\ SameRatchet
  <2>1. SameRatchet BY StandsSame DEF ElsewhereKept
  <2>2. sends \in Nat /\ sends' = sends BY DEF ElsewhereKept, Typed, DbTyped
  <2>3. peer.made \in Nat /\ peer'.made \in Nat BY DEF Typed, NetTyped, PeerTyped
  <2> QED BY <2>1, <2>2, <2>3 DEF More
<1>2. Turning' <=> Turning BY DEF Turning, ElsewhereKept
<1>3. MemoryKeys' BY <1>1, <1>2, MemoryKeysStay DEF KeyInv, ElsewhereKept
<1>4. SavedKeys'
  <2>1. Grown BY SameGrown DEF ElsewhereKept
  <2> QED BY <1>1, <2>1, SavedKeysStay DEF KeyInv, ElsewhereKept
<1>5. ASSUME NEW h \in Threads PROVE Holds(pc[h], local[h])'
  <2>1. PICK p, w : p = pc[h] /\ w = local[h] OBVIOUS
  <2>2. Holds(p, w) BY <2>1 DEF KeyInv
  <2>3. w.msg \in Messages \cup {NoMessage} /\ (p = "post" => w.msg \in Messages)
    BY <2>1, LocalShape, WorkShape DEF Typed, WorkOK, Sealing
  <2>4. Holds(p, w)' BY <1>1, <2>2, <2>3, HoldsStays DEF ElsewhereKept
  <2> QED BY <2>1, <2>4 DEF ElsewhereKept
<1> QED BY <1>3, <1>4, <1>5 DEF KeyInv

(* What the contact's Encrypt makes of its ratchet.                        *)
PeerEncrypted(e, made) ==
  /\ Sound("peer", made, e.ratchet.cur.root, e.pub, e.ratchet.cur.foreign)
  /\ Shape(e.ratchet.cur.root, e.pub) \/ (e.ratchet.cur.root = First /\ e.pub = <<"peer", 0>>)
  /\ Ahead(box, "Sending", e.pub, e.ratchet.cur.root, e.index - 1)
  /\ e.ratchet.state = "Sending" /\ e.pub = e.ratchet.keyPair /\ e.ratchet.cur.next = e.index + 1
  /\ e.key = <<e.ratchet.cur.root, e.index>> /\ e.index \in Nat

LEMMA PeerEncryptsKeys ==
  ASSUME Typed, KeyInv, NEW e, e = PeerEncrypts,
         NEW made, made = IF peer.ratchet.state = "Receiving" THEN peer.made + 1 ELSE peer.made
  PROVE  PeerEncrypted(e, made)
<1>1. PICK r, n, fresh : r = peer.ratchet /\ n = peer.made /\ fresh = <<"peer", n + 1>> OBVIOUS
<1>2. r \in Ratchets(Pairs) /\ n \in Nat /\ fresh \in Pairs /\ e = Encrypt(r, fresh)
  BY <1>1, PeerShape DEF Typed, NetTyped, PeerEncrypts, Key, Pairs, Who
<1>3. /\ e.ratchet.state = "Sending" /\ e.ratchet.cur.foreign = r.cur.foreign
      /\ e.index \in Nat /\ e.ratchet.cur.next = e.index + 1
      /\ e.pub = e.ratchet.keyPair /\ e.key = <<e.ratchet.cur.root, e.index>>
      /\ \/ /\ r.state = "Sending" /\ e.ratchet.keyPair = r.keyPair
            /\ e.ratchet.cur.root = r.cur.root /\ e.index = r.cur.next
         \/ /\ r.state = "Receiving" /\ e.ratchet.keyPair = fresh /\ e.index = 0
            /\ e.ratchet.cur.root = Append(r.cur.root, Secret(fresh, r.cur.foreign))
  BY <1>2, Encrypts
<1>4. /\ Sound("peer", n, r.cur.root, r.keyPair, r.cur.foreign)
      /\ r.state = "Sending" => Shape(r.cur.root, r.keyPair) \/ (r.cur.root = First /\ r.keyPair = <<"peer", 0>>)
      /\ Ahead(box, r.state, r.keyPair, r.cur.root, r.cur.next - 1)
  BY <1>1 DEF KeyInv, PeerKeys
<1>5. CASE /\ r.state = "Sending" /\ e.ratchet.keyPair = r.keyPair
           /\ e.ratchet.cur.root = r.cur.root /\ e.index = r.cur.next
  BY <1>1, <1>3, <1>4, <1>5 DEF PeerEncrypted
<1>6. CASE /\ r.state = "Receiving" /\ e.ratchet.keyPair = fresh
           /\ e.ratchet.cur.root = Append(r.cur.root, Secret(fresh, r.cur.foreign))
  <2>1. PICK root, f : root = r.cur.root /\ f = r.cur.foreign OBVIOUS
  <2>2. Sound("peer", n + 1, root, fresh, f) /\ NewTo(root, fresh) BY <1>1, <1>2, <1>4, <2>1, SoundFresh DEF Who
  <2>3. f \in Pairs /\ f[1] # "peer" /\ n + 1 \in Nat BY <1>2, <2>2 DEF Sound
  <2>4. PICK root2 : root2 = Append(root, Secret(fresh, f)) OBVIOUS
  <2>5. Sound("peer", n + 1, root2, fresh, f) BY <2>2, <2>3, <2>4, SoundExtends
  <2>6. Shape(root2, fresh) BY <2>2, <2>3, <2>4, ShapeMade
  <2>7. \A i \in 1..Len(box) : box[i].pub # fresh
    <3>1. ASSUME NEW i \in 1..Len(box), box[i].pub = fresh PROVE FALSE
      <4>1. box[i].pub[2] <= n BY <1>1 DEF KeyInv, MessageKeys, PeerWrote, PeerPub
      <4> QED BY <1>1, <1>2, <3>1, <4>1
    <3> QED BY <3>1
  <2>8. e.ratchet.cur.root = root2 /\ e.pub = fresh /\ e.ratchet.cur.foreign = f /\ made = n + 1
    BY <1>1, <1>3, <1>6, <2>1, <2>4
  <2> QED BY <1>3, <2>5, <2>6, <2>7, <2>8 DEF PeerEncrypted, Ahead
<1> QED BY <1>3, <1>5, <1>6

LEMMA PeerSendsKeys ==
  ASSUME Typed, Typed', KeyInv, PeerSends
  PROVE  KeyInv'
<1>1. PICK e, m, made : e = PeerEncrypts /\ m = PeerMessage /\ made = PeerAfter.made OBVIOUS
<1>2. made = (IF peer.ratchet.state = "Receiving" THEN peer.made + 1 ELSE peer.made) /\ peer.made \in Nat
  BY <1>1, PeerShape DEF PeerAfter, Typed, NetTyped
<1>3. PeerEncrypted(e, made) BY <1>1, <1>2, PeerEncryptsKeys
<1>4. peer' = PeerAfter /\ m \in Messages
      /\ \/ box' = Append(box, m) /\ pushed' = (IF phase = "offline" THEN pushed ELSE Append(pushed, m))
         \/ UNCHANGED <<box, pushed>>
  BY <1>1, PeerSendsShape DEF Typed, NetTyped
<1>5. peer'.ratchet = e.ratchet /\ peer'.made = made BY <1>1, <1>4 DEF PeerAfter
<1>6. m.pub = e.pub /\ m.index = e.index /\ m.key = e.key BY <1>1 DEF PeerMessage
<1>7. peer.made <= made BY <1>2
<1>8. PICK root : root = e.ratchet.cur.root OBVIOUS
<1>9. /\ Sound("peer", made, root, m.pub, e.ratchet.cur.foreign)
      /\ Shape(root, m.pub) \/ (root = First /\ m.pub = <<"peer", 0>>)
      /\ Ahead(box, "Sending", m.pub, root, m.index - 1)
      /\ e.ratchet.state = "Sending" /\ m.pub = e.ratchet.keyPair /\ e.ratchet.cur.next = m.index + 1
      /\ m.key = <<root, m.index>> /\ m.index \in Nat /\ root \in Roots
  BY <1>3, <1>6, <1>8 DEF PeerEncrypted, Sound
<1>10. /\ PeerWrote(m)'
       /\ \A x \in Messages : (PeerPub(x) => PeerPub(x)') /\ (PeerWrote(x) => PeerWrote(x)')
       /\ \A i \in 1..Len(box) : box[i] \in Messages /\ PeerWrote(box[i])
       /\ \A i \in 1..Len(pushed) : pushed[i] \in Messages /\ PeerPub(pushed[i])
       /\ \A i \in 1..Len(todo) : todo[i] \in Messages /\ PeerPub(todo[i])
  <2>1. PeerPub(m)' BY <1>5, <1>9 DEF PeerPub, Sound
  <2>2. PeerWrote(m)' BY <1>9, <2>1 DEF PeerWrote
  <2>3. \A x \in Messages : PeerPub(x) => PeerPub(x)' BY <1>2, <1>5, MessageShape DEF PeerPub, Pairs
  <2>4. /\ \A i \in 1..Len(box) : box[i] \in Messages
        /\ \A i \in 1..Len(pushed) : pushed[i] \in Messages
        /\ \A i \in 1..Len(todo) : todo[i] \in Messages
    BY DEF Typed, NetTyped
  <2>5. \A x \in Messages : PeerWrote(x) => PeerWrote(x)' BY <2>3 DEF PeerWrote
  <2> QED BY <2>2, <2>3, <2>4, <2>5 DEF KeyInv, MessageKeys
<1>11. ASSUME NEW i \in 1..Len(box) PROVE box[i].key # m.key
  <2>1. PICK x : x = box[i] OBVIOUS
  <2>2. PeerWrote(x) BY <2>1 DEF KeyInv, MessageKeys
  <2>3. x.key[1] = root => x.pub = m.pub
    BY <1>9, <2>2, ShapeTells, FirstShape DEF PeerWrote
  <2>4. box \in Seq(Messages) /\ m.index - 1 \in Int /\ m.index - 1 < m.index BY SMTT(30), <1>9 DEF Typed, NetTyped
  <2>5. x.key[2] = x.index BY <2>2 DEF PeerWrote
  <2> QED BY <1>9, <2>1, <2>3, <2>4, <2>5, NextIsFresh
<1>12. ElsewhereKept /\ UNCHANGED todo BY DEF ElsewhereKept, PeerSends, dbVars, memory
<1>13. box \in Seq(Messages) /\ pushed \in Seq(Messages) BY DEF Typed, NetTyped
<1>14. MessageKeys'
  <2>1. \A i \in 1..Len(box') : box'[i] = m \/ \E k \in 1..Len(box) : box'[i] = box[k]
    BY <1>4, <1>13, Appended
  <2>2. \A i \in 1..Len(pushed') : pushed'[i] = m \/ \E k \in 1..Len(pushed) : pushed'[i] = pushed[k]
    <3>1. CASE pushed' = pushed BY <3>1
    <3>2. CASE pushed' = Append(pushed, m) BY <1>4, <1>13, <3>2, Appended
    <3> QED BY <1>4, <3>1, <3>2
  <2>3. (\A i \in 1..Len(box) : PeerWrote(box[i]))'
    <3>1. ASSUME NEW i \in 1..Len(box') PROVE PeerWrote(box[i])'
      <4>1. PICK x : x = box'[i] OBVIOUS
      <4>2. PeerWrote(x)' BY <1>10, <2>1, <4>1
      <4> QED BY <4>1, <4>2 DEF PeerWrote, PeerPub
    <3> QED BY <3>1
  <2>4. (\A i \in 1..Len(pushed) : PeerPub(pushed[i]))'
    <3>1. ASSUME NEW i \in 1..Len(pushed') PROVE PeerPub(pushed[i])'
      <4>1. PICK x : x = pushed'[i] OBVIOUS
      <4>2. PeerPub(x)' BY <1>10, <2>2, <4>1 DEF PeerWrote
      <4> QED BY <4>1, <4>2 DEF PeerPub
    <3> QED BY <3>1
  <2>5. (\A i \in 1..Len(todo) : PeerPub(todo[i]))' BY <1>10, <1>12 DEF PeerPub
  <2>6. OneKeyEach(box')
    <3>1. CASE box' = box BY <3>1 DEF KeyInv, MessageKeys
    <3>2. CASE box' = Append(box, m) BY <1>4, <1>11, <1>13, <3>2, OneKeyAppends DEF KeyInv, MessageKeys
    <3> QED BY <1>4, <3>1, <3>2
  <2> QED BY <1>12, <2>3, <2>4, <2>5, <2>6 DEF KeyInv, MessageKeys, OneKeyEach, UsWrote, ElsewhereKept
<1>15. PeerKeys'
  <2>1. Ahead(box, "Sending", m.pub, root, m.index) BY <1>9, <1>13, AheadMore
  <2>2. Ahead(<<m>>, "Sending", m.pub, root, m.index) BY <1>9 DEF Ahead
  <2>3. Ahead(box', "Sending", m.pub, root, m.index)
    <3>1. CASE box' = box BY <2>1, <3>1
    <3>2. CASE box' = Append(box, m) BY <1>4, <1>9, <1>13, <2>1, <2>2, <3>2, AheadAppends
    <3> QED BY <1>4, <3>1, <3>2
  <2>4. m.index = e.ratchet.cur.next - 1 BY <1>9
  <2> QED BY <1>5, <1>8, <1>9, <2>3, <2>4 DEF PeerKeys, Sound, Ahead
<1>16. peer.made <= peer'.made BY <1>5, <1>7
<1> QED BY <1>12, <1>14, <1>15, <1>16, ElsewhereKeys

LEMMA PeerReadsKeys ==
  ASSUME Typed, Typed', KeyInv, PeerReads
  PROVE  KeyInv'
<1>1. PICK m, d, r : m = outbox[peer.seen + 1] /\ d = PeerDecrypts /\ r = peer.ratchet OBVIOUS
<1>2. peer.seen + 1 \in 1..Len(outbox) /\ outbox \in Seq(Messages)
  BY PeerShape DEF PeerReads, Typed, NetTyped
<1>3. m \in Messages /\ UsWrote(m) BY <1>1, <1>2 DEF KeyInv, MessageKeys
<1>4. m.pub \in Pairs /\ m.index \in Nat /\ m.pub[1] = "us" BY <1>3, MessageShape DEF UsWrote
<1>5. r \in Ratchets(Pairs) /\ d = Decrypt(r, m) /\ peer.made \in Nat
  BY <1>1, PeerShape DEF Typed, NetTyped, PeerDecrypts
<1>6. /\ d.ratchet \in Ratchets(Pairs) /\ d.ratchet.keyPair = r.keyPair
      /\ \/ /\ d.ratchet.state = r.state /\ d.ratchet.cur.root = r.cur.root
            /\ d.ratchet.cur.foreign = r.cur.foreign /\ d.ratchet.cur.next >= r.cur.next
         \/ /\ d.ratchet.state = "Receiving" /\ d.ratchet.cur.foreign = m.pub
            /\ d.ratchet.cur.root = Append(r.cur.root, Secret(r.keyPair, m.pub))
  BY <1>4, <1>5, Decrypts
<1>7. peer'.ratchet = d.ratchet /\ peer'.made = peer.made
  <2>1. PICK y : peer' = [ratchet |-> PeerDecrypts.ratchet, sends |-> peer.sends, made |-> peer.made,
                          seen |-> peer.seen + 1, read |-> y]
    BY PeerReadsShape DEF Typed, NetTyped
  <2> QED BY <1>1, <2>1
<1>8. /\ Sound("peer", peer.made, r.cur.root, r.keyPair, r.cur.foreign)
      /\ r.state = "Sending" => Shape(r.cur.root, r.keyPair) \/ (r.cur.root = First /\ r.keyPair = <<"peer", 0>>)
      /\ Ahead(box, r.state, r.keyPair, r.cur.root, r.cur.next - 1)
  BY <1>1 DEF KeyInv, PeerKeys
<1>9. ElsewhereKept /\ UNCHANGED <<box, pushed, todo>> BY DEF ElsewhereKept, PeerReads, dbVars, memory
<1>10. PeerKeys'
  <2>1. CASE /\ d.ratchet.state = r.state /\ d.ratchet.cur.root = r.cur.root
             /\ d.ratchet.cur.foreign = r.cur.foreign /\ d.ratchet.cur.next >= r.cur.next
    <3>1. PICK n, k : n = r.cur.next /\ k = d.ratchet.cur.next OBVIOUS
    <3>2. n \in Nat /\ k \in Nat BY <1>5, <1>6, <3>1, RatchetShape
    <3>3. n - 1 \in Int /\ k - 1 \in Int /\ n - 1 <= k - 1 BY <2>1, <3>1, <3>2
    <3>4. Ahead(box, r.state, r.keyPair, r.cur.root, k - 1)
      BY <1>8, <3>1, <3>3, AheadMore DEF Typed, NetTyped
    <3> QED BY <1>6, <1>7, <1>8, <1>9, <2>1, <3>1, <3>4 DEF PeerKeys, Sound, Ahead
  <2>2. CASE /\ d.ratchet.state = "Receiving" /\ d.ratchet.cur.foreign = m.pub
             /\ d.ratchet.cur.root = Append(r.cur.root, Secret(r.keyPair, m.pub))
    <3>1. Sound("peer", peer.made, d.ratchet.cur.root, r.keyPair, m.pub)
      BY <1>4, <1>5, <1>8, <2>2, SoundExtends
    <3> QED BY <1>6, <1>7, <2>2, <3>1 DEF PeerKeys, Sound, Ahead
  <2> QED BY <1>6, <2>1, <2>2
<1>11. MessageKeys'
  BY <1>7, <1>9 DEF KeyInv, MessageKeys, PeerWrote, PeerPub, UsWrote, OneKeyEach, ElsewhereKept
<1> QED BY <1>5, <1>7, <1>9, <1>10, <1>11, ElsewhereKeys

LEMMA LoginKeys ==
  ASSUME Typed, Typed', KeyInv, LoginAnswered \/ Fetch \/ Fetched \/ EnterChats
  PROVE  KeyInv'
<1>1. ElsewhereKept /\ UNCHANGED <<box, pushed, peer>> /\ todo' \in {todo, box, <<>>}
  BY DEF LoginAnswered, Fetch, Fetched, EnterChats, ElsewhereKept, dbVars, memory
<1>2. MessageKeys'
  BY <1>1 DEF KeyInv, MessageKeys, PeerWrote, PeerPub, UsWrote, OneKeyEach, ElsewhereKept
<1>3. PeerKeys' BY <1>1, PeerKeysStay DEF KeyInv
<1>4. peer.made <= peer'.made BY <1>1, PeerShape DEF Typed, NetTyped
<1> QED BY <1>1, <1>2, <1>3, <1>4, ElsewhereKeys

LEMMA InitKeys ==
  ASSUME Init
  PROVE  KeyInv
<1>1. Typed BY InitTyped
<1>2. /\ pc = [g \in Threads |-> "idle"] /\ local = [g \in Threads |-> NoWork]
      /\ todo = <<>> /\ pushed = <<>> /\ box = <<>> /\ outbox = <<>> /\ sends = 0 /\ saved = RowFor("main")
      /\ peer.ratchet = NewDHRatchet(Key("peer", 0), Key("us", 0), "Sending") /\ peer.made = 0
  BY DEF Init
<1>3. PICK a, b : a = <<"us", 0>> /\ b = <<"peer", 0>> OBVIOUS
<1>4. /\ dh.keyPair = a /\ dh.root = First /\ dh.cur = 1 /\ dh.state = "Receiving"
      /\ obj = <<NewObject(First, b)>>
  BY <1>3, InitMemory
<1>5. obj[dh.cur].root = First /\ obj[dh.cur].foreign = b BY <1>4 DEF NewObject
<1>6. Sound("us", 0, First, a, b) /\ Sound("peer", 0, First, b, a) BY <1>3, FirstShape
<1>7. ~ Turning BY <1>2, TwoThreads DEF Turning
<1>8. MemoryKeys
  <2>1. Ahead(outbox, dh.state, dh.keyPair, dh.root, obj[dh.cur].last) BY <1>4 DEF Ahead
  <2>2. Sound("us", sends, dh.root, dh.keyPair, obj[dh.cur].foreign) BY <1>2, <1>4, <1>5, <1>6
  <2> QED BY <1>4, <1>5, <1>7, <2>1, <2>2 DEF MemoryKeys
<1>9. MessageKeys BY <1>2 DEF MessageKeys, OneKeyEach
<1>10. PeerKeys
  <2>1. /\ peer.ratchet.cur.root = First /\ peer.ratchet.cur.foreign = a /\ peer.ratchet.keyPair = b
    BY <1>2, <1>3 DEF NewDHRatchet, NewMessageRatchet, Secret, First, Key
  <2>2. Len(box) = 0 BY <1>2
  <2>3. \A state, keyPair, root, last : Ahead(box, state, keyPair, root, last) BY <2>2 DEF Ahead
  <2> QED BY <1>2, <1>3, <1>6, <2>1, <2>3 DEF PeerKeys
<1>11. SavedKeys
  <2>1. PICK s : s = Snapshot OBVIOUS
  <2>2. s.keyPair = dh.keyPair /\ s.root = dh.root /\ s.cur = obj[dh.cur] /\ s.state = dh.state
    BY <1>1, <2>1, SnapshotTyped DEF Typed
  <2>3. SnapSound(s) BY <1>7, <1>8, <2>2 DEF MemoryKeys, SnapSound
  <2>4. RowKeys(saved) BY <1>2, <1>4, <2>1, <2>2, <2>3 DEF RowKeys, RowFor, PastPosted
  <2> QED BY <1>2, <2>4 DEF SavedKeys
<1>12. \A g \in Threads : Holds(pc[g], local[g]) BY <1>2 DEF Holds, Matching, Sealing
<1> QED BY <1>8, <1>9, <1>10, <1>11, <1>12 DEF KeyInv

LEMMA StaysKeys ==
  ASSUME Typed, KeyInv, UNCHANGED vars
  PROVE  KeyInv'
<1>1. ElsewhereKept /\ UNCHANGED <<box, pushed, todo, peer>>
  BY DEF vars, ElsewhereKept, memory, dbVars, netVars
<1>2. Typed' BY StaysTyped
<1>3. MessageKeys'
  BY <1>1 DEF KeyInv, MessageKeys, PeerWrote, PeerPub, UsWrote, OneKeyEach, ElsewhereKept
<1>4. PeerKeys' BY <1>1, PeerKeysStay DEF KeyInv
<1>5. peer.made <= peer'.made BY <1>1, PeerShape DEF Typed, NetTyped
<1> QED BY <1>1, <1>2, <1>3, <1>4, <1>5, ElsewhereKeys

LEMMA NextKeys ==
  ASSUME Typed, Typed', Alone, Alone', ChainInv, KeyInv, Next, Spared({"torn", "behind"})'
  PROVE  KeyInv'
<1>1. ASSUME NEW g \in Threads, HandlingStep(g) PROVE KeyInv'
  BY <1>1, MatchKeys, MatchPreviousKeys, Turn2Keys, UseSkippedKeys, CheckKeys, SkipReadKeys,
     SkipWriteKeys, NextKeyKeys, AdvanceKeys
  DEF HandlingStep
<1>2. ASSUME NEW g \in Threads, SavingStep(g) PROVE KeyInv' BY <1>2, SavingKeys
<1>3. CASE BeginSend \/ EncryptRead \/ EncryptCycle \/ EncryptSeal \/ Post
  BY <1>3, BeginSendKeys, EncryptReadKeys, EncryptCycleKeys, EncryptSealKeys, PostKeys
<1>4. CASE Answered \/ NotAnswered \/ \E g \in Threads : Record(g) \/ RecordFails(g) BY <1>4, OnToRecordKeys
<1>5. CASE ReadPush \/ TakeFetched \/ PeerSends \/ PeerReads \/ LoginAnswered \/ Fetch \/ Fetched \/ EnterChats
  BY <1>5, ReadPushKeys, TakeFetchedKeys, PeerSendsKeys, PeerReadsKeys, LoginKeys
<1>6. CASE Restart
  <2>1. saved.whole /\ ~ saved.posted < Len(outbox) BY <1>6 DEF Restart, Note, Spared, Kinds
  <2> QED BY <1>6, <2>1, RestartKeys
<1> QED BY <1>1, <1>2, <1>3, <1>4, <1>5, <1>6 DEF Next, HandlingStep, SavingStep

(* As long as the goroutines have not met and the client was not started   *)
(* from a row that was torn or older than a message of its own: a root key *)
(* the client or the contact writes on has a key pair in it that was made  *)
(* for it and was in no secret before; the chain of a ratchet that is      *)
(* written on has gone past the messages written on it, in memory, and in  *)
(* a row past those the server had when it was made.                       *)
KeysSound == Spared({"met", "torn", "behind"}) => KeyInv

THEOREM KeyInvHolds == Spec => []KeysSound
<1>1. ASSUME Typed, Typed', AloneInv, AloneInv', ChainSound, KeysSound, [Next]_vars PROVE KeysSound'
  <2> SUFFICES ASSUME Spared({"met", "torn", "behind"})' PROVE KeyInv' BY DEF KeysSound
  <2>1. Spared({"met", "torn", "behind"}) BY <1>1, SparedBefore
  <2>2. KeyInv BY <1>1, <2>1 DEF KeysSound
  <2>3. Alone /\ Alone' /\ ChainInv /\ Spared({"torn", "behind"})'
    BY <1>1, <2>1 DEF AloneInv, ChainSound, Spared
  <2>4. CASE Next BY <1>1, <2>2, <2>3, <2>4, NextKeys
  <2>5. CASE UNCHANGED vars BY <1>1, <2>2, <2>5, StaysKeys
  <2> QED BY <1>1, <2>4, <2>5
<1>2. Init => KeysSound BY InitKeys DEF KeysSound
<1> QED BY <1>1, <1>2, TypesHold, AloneInvHolds, ChainInvHolds, PTL DEF Spec

(* Messages with keys of the two sides have no key in common, nor do those *)
(* of one side.                                                            *)
LEMMA SidesApart ==
  ASSUME Typed, KeyInv, NEW i \in 1..Len(box), NEW j \in 1..Len(outbox)
  PROVE  box[i].key # outbox[j].key
<1>1. PICK x, y : x = box[i] /\ y = outbox[j] OBVIOUS
<1>2. x \in Messages /\ y \in Messages /\ PeerWrote(x) /\ UsWrote(y)
  BY <1>1 DEF KeyInv, MessageKeys, Typed, NetTyped
<1>3. ASSUME x.key = y.key PROVE FALSE
  <2>1. PICK root : root = y.key[1] OBVIOUS
  <2>2. root \in Roots /\ Shape(root, y.pub) /\ root = x.key[1] BY <1>2, <1>3, <2>1, MessageShape DEF UsWrote
  <2>3. x.pub[1] = "peer" /\ y.pub[1] = "us" BY <1>2 DEF PeerWrote, PeerPub, UsWrote
  <2>4. root # First BY <2>2, FirstShape
  <2>5. Shape(root, x.pub) BY <1>2, <2>2, <2>4 DEF PeerWrote
  <2> QED BY <2>2, <2>3, <2>5, ShapeTells
<1> QED BY <1>1, <1>3

(* Property KeysAreFresh, but after a start from a torn row, which the run *)
(* covers and this proof does not: no two of the messages the server has,  *)
(* of either side, were encrypted with the same key, for any number of     *)
(* messages, stops, kept ratchets and skips.                               *)
THEOREM KeysStayFresh == Spec => [](Spared({"torn"}) => KeysAreFresh)
<1>1. ASSUME Typed, KeysSound, Spared({"torn"}) PROVE KeysAreFresh
  <2> SUFFICES ASSUME Spared({"met", "behind"})
               PROVE  LET all == box \o outbox IN \A i, j \in 1..Len(all) : all[i].key = all[j].key => i = j
    BY DEF KeysAreFresh
  <2>0. KeyInv BY <1>1 DEF KeysSound, Spared
  <2>1. PICK m, n, all : m = Len(box) /\ n = Len(outbox) /\ all = box \o outbox OBVIOUS
  <2>2. box \in Seq(Messages) /\ outbox \in Seq(Messages) BY <1>1 DEF Typed, NetTyped
  <2>3. /\ m \in Nat /\ n \in Nat /\ Len(all) = m + n
        /\ \A i \in 1..m : all[i] = box[i]
        /\ \A i \in 1..n : all[m + i] = outbox[i]
    BY <2>1, <2>2
  <2>4. OneKeyEach(box) /\ OneKeyEach(outbox) BY <2>0 DEF KeyInv, MessageKeys
  <2>5. ASSUME NEW i \in 1..Len(all), NEW j \in 1..Len(all), all[i].key = all[j].key PROVE i = j
    <3>1. CASE i \in 1..m /\ j \in 1..m BY <2>1, <2>3, <2>4, <2>5, <3>1 DEF OneKeyEach
    <3>2. CASE i \in (m + 1)..(m + n) /\ j \in (m + 1)..(m + n)
      <4>1. i - m \in 1..n /\ j - m \in 1..n /\ i = m + (i - m) /\ j = m + (j - m) BY <2>3, <3>2
      <4>2. all[i] = outbox[i - m] /\ all[j] = outbox[j - m] BY <2>3, <4>1
      <4>3. i - m = j - m BY <2>1, <2>4, <2>5, <4>1, <4>2 DEF OneKeyEach
      <4> QED BY <4>1, <4>3
    <3>3. ASSUME NEW k \in 1..m, NEW l \in (m + 1)..(m + n), all[k].key = all[l].key PROVE FALSE
      <4>1. l - m \in 1..n /\ l = m + (l - m) BY <2>3, <3>3
      <4>2. all[l] = outbox[l - m] /\ all[k] = box[k] BY <2>3, <4>1
      <4> QED BY <1>1, <2>0, <2>1, <3>3, <4>1, <4>2, SidesApart
    <3>4. \A k \in 1..Len(all) : k \in 1..m \/ k \in (m + 1)..(m + n) BY <2>3
    <3> QED BY <2>5, <3>1, <3>2, <3>3, <3>4
  <2> QED BY <2>1, <2>5
<1> QED BY <1>1, TypesHold, KeyInvHolds, PTL

=============================================================================
