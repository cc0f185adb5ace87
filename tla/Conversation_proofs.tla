-------------------------- MODULE Conversation_proofs ---------------------------
(***************************************************************************)
(* Proofs about module Conversation, for any limits of the ratchet and any *)
(* number of messages and restarts: its types; for peers that take turns   *)
(* and whose acknowledgements arrive, that no key encrypts two messages;   *)
(* and, until a client is given again a message whose chain it has         *)
(* forgotten or a chain outgrows what Decrypt skips, that their ratchets   *)
(* agree, that every message that is handled is read and that whoever      *)
(* writes next can be read.  Login handles every stored message in turn;   *)
(* what it does is proved by induction on the length of the mailbox.       *)
(***************************************************************************)
EXTENDS Conversation, FiniteSetTheorems, WellFoundedInduction, TLAPS

-----------------------------------------------------------------------------
(* The fold of Login, unfolded.                                            *)

Less == {ss \in Nat \X Nat : ss[1] < ss[2]}
LEMMA LessIsWellFounded == IsWellFoundedOn(Less, Nat)
<1>1. IsWellFoundedOn({ss \in Nat \X Nat : ss[1] < ss[2]}, Nat) BY Zenon, NatLessThanWellFounded DEF OpToRel
<1> QED BY <1>1 DEF Less

(* Induction over a set of numbers.                                        *)
LEMMA AllNumbers ==
  ASSUME NEW T \in SUBSET Nat, 0 \in T, \A n \in T : n + 1 \in T
  PROVE  T = Nat
<1> SUFFICES ASSUME Nat \ T # {} PROVE FALSE OBVIOUS
<1>1. PICK n \in Nat \ T : \A k \in Nat \ T : ~ (<<k, n>> \in Less)
  BY WFMin, LessIsWellFounded
<1>2. \A k \in Nat : k < n => <<k, n>> \in Less BY DEF Less
<1>3. n - 1 \in Nat /\ n - 1 < n BY <1>1
<1>4. n - 1 \in T BY <1>1, <1>2, <1>3
<1>5. n - 1 + 1 = n BY <1>1
<1> QED BY <1>1, <1>4, <1>5

LEMMA MaxOfLast ==
  ASSUME NEW k \in Nat, NEW s \in SUBSET (1..(k + 1)), k + 1 \in s
  PROVE  Max(s) = k + 1 /\ s \ {Max(s)} \in SUBSET (1..k)
<1>1. \A x \in s : (\A y \in s : x >= y) => x = k + 1 OBVIOUS
<1>2. \A y \in s : k + 1 >= y OBVIOUS
<1>3. Max(s) = k + 1 BY <1>1, <1>2 DEF Max
<1> QED BY <1>3

(* One step of the fold, over a set of positions.                          *)
FoldStep(p, at, ms, g, s) == IF s = {} THEN at ELSE Handle(p, g[s \ {Max(s)}], ms[Max(s)])
FoldsOver(p, at, ms, k, g) == g = [s \in SUBSET (1..k) |-> FoldStep(p, at, ms, g, s)]

LEMMA FoldExists ==
  ASSUME NEW p, NEW at, NEW ms, NEW n \in Nat
  PROVE  \E g : FoldsOver(p, at, ms, n, g)
<1> DEFINE T == {k \in Nat : \E g : FoldsOver(p, at, ms, k, g)}
<1>1. 0 \in T
  <2> DEFINE g == [s \in SUBSET (1..0) |-> at]
  <2>1. \A s \in SUBSET (1..0) : s = {} OBVIOUS
  <2>2. FoldsOver(p, at, ms, 0, g) BY <2>1 DEF FoldsOver, FoldStep
  <2> HIDE DEF g
  <2> QED BY <2>2
<1>2. ASSUME NEW k \in T PROVE k + 1 \in T
  <2>1. PICK g : FoldsOver(p, at, ms, k, g) BY <1>2
  <2> DEFINE h == [s \in SUBSET (1..(k + 1)) |-> IF k + 1 \in s THEN Handle(p, g[s \ {k + 1}], ms[k + 1]) ELSE g[s]]
  <2>2. ASSUME NEW s \in SUBSET (1..(k + 1)) PROVE h[s] = FoldStep(p, at, ms, h, s)
    <3>1. CASE k + 1 \in s
      <4>1. Max(s) = k + 1 /\ s \ {Max(s)} \in SUBSET (1..k) BY <3>1, <1>2, MaxOfLast
      <4>2. k + 1 \notin s \ {k + 1} /\ s \ {k + 1} \in SUBSET (1..(k + 1)) OBVIOUS
      <4>3. h[s \ {k + 1}] = g[s \ {k + 1}] BY <4>2
      <4>4. h[s] = Handle(p, g[s \ {k + 1}], ms[k + 1]) BY <3>1
      <4>5. s # {} BY <3>1
      <4> HIDE DEF h
      <4> QED BY <4>1, <4>3, <4>4, <4>5 DEF FoldStep
    <3>2. CASE k + 1 \notin s
      <4>1. k \in Nat /\ s \in SUBSET (1..k) BY <1>2, <3>2
      <4>2. h[s] = g[s] BY <3>2
      <4>3. g[s] = FoldStep(p, at, ms, g, s) BY <2>1, <4>1 DEF FoldsOver
      <4>4. s \ {Max(s)} \in SUBSET (1..(k + 1)) /\ k + 1 \notin s \ {Max(s)} BY <3>2
      <4>5. h[s \ {Max(s)}] = g[s \ {Max(s)}] BY <4>4
      <4> HIDE DEF h
      <4> QED BY <4>2, <4>3, <4>5 DEF FoldStep
    <3> QED BY <3>1, <3>2
  <2>3. h = [s \in SUBSET (1..(k + 1)) |-> h[s]] OBVIOUS
  <2> HIDE DEF h
  <2>4. FoldsOver(p, at, ms, k + 1, h) BY <2>2, <2>3 DEF FoldsOver
  <2> QED BY <1>2, <2>4
<1> HIDE DEF T
<1>3. T = Nat BY <1>1, <1>2, AllNumbers DEF T
<1> QED BY <1>3 DEF T

HandleAll(p, at, ms) == FoldLeft(LAMBDA a, m : Handle(p, a, m), at, ms)

LEMMA FoldIs ==
  ASSUME NEW p, NEW at, NEW M, NEW ms \in Seq(M)
  PROVE  \E g : FoldsOver(p, at, ms, Len(ms), g) /\ HandleAll(p, at, ms) = g[1..Len(ms)]
<1> DEFINE D == 1..Len(ms)
           iter == CHOOSE g : g = [s \in SUBSET D |-> FoldStep(p, at, ms, g, s)]
<1>1. HandleAll(p, at, ms) = iter[D]
  BY DOMAIN ms = D DEF HandleAll, FoldLeft, MapThenFoldSet, FoldStep
<1>0. Len(ms) \in Nat OBVIOUS
<1>2. PICK h : FoldsOver(p, at, ms, Len(ms), h) BY <1>0, FoldExists
<1>3. iter = [s \in SUBSET D |-> FoldStep(p, at, ms, iter, s)]
  <2> DEFINE P(g) == g = [s \in SUBSET D |-> FoldStep(p, at, ms, g, s)]
  <2>1. P(h) BY <1>2 DEF FoldsOver
  <2>2. iter = CHOOSE g : P(g) OBVIOUS
  <2> HIDE DEF P, iter
  <2>3. P(iter) BY <2>1, <2>2
  <2> QED BY <2>3 DEF P
<1> HIDE DEF iter
<1> QED BY <1>1, <1>3 DEF FoldsOver

(* What each message keeps, all of them keep.                              *)
LEMMA FoldStays ==
  ASSUME NEW p, NEW S, NEW at \in S, NEW M, NEW ms \in Seq(M),
         \A a \in S : \A m \in M : Handle(p, a, m) \in S
  PROVE  HandleAll(p, at, ms) \in S
<1>1. PICK g : FoldsOver(p, at, ms, Len(ms), g) /\ HandleAll(p, at, ms) = g[1..Len(ms)]
  BY FoldIs
<1>2. Len(ms) \in Nat OBVIOUS
<1> DEFINE T == {k \in Nat : k <= Len(ms) => g[1..k] \in S}
<1>3. \A s \in SUBSET (1..Len(ms)) : g[s] = FoldStep(p, at, ms, g, s)
  BY <1>1 DEF FoldsOver
<1>4. 0 \in T
  <2>1. g[1..0] = FoldStep(p, at, ms, g, 1..0) /\ 1..0 = {} BY <1>2, <1>3
  <2> QED BY <2>1 DEF FoldStep
<1>5. ASSUME NEW k \in T PROVE k + 1 \in T
  <2> SUFFICES ASSUME k + 1 <= Len(ms) PROVE g[1..(k + 1)] \in S BY <1>5
  <2>1. g[1..k] \in S BY <1>2, <1>5
  <2>2. k \in Nat /\ k + 1 \in 1..(k + 1) /\ 1..(k + 1) \in SUBSET (1..Len(ms)) BY <1>2, <1>5
  <2>3. Max(1..(k + 1)) = k + 1 BY <2>2, MaxOfLast
  <2>4. (1..(k + 1)) \ {k + 1} = 1..k BY <2>2
  <2>5. g[1..(k + 1)] = Handle(p, g[1..k], ms[k + 1])
    BY <1>3, <2>2, <2>3, <2>4 DEF FoldStep
  <2>6. ms[k + 1] \in M BY <1>2, <2>2
  <2> QED BY <2>1, <2>5, <2>6
<1> HIDE DEF T
<1>6. T = Nat BY <1>4, <1>5, AllNumbers DEF T
<1> QED BY <1>1, <1>2, <1>6 DEF T

-----------------------------------------------------------------------------
(* What the operators of Ratchet keep.                                     *)

(* A chain keeps its key and its root, never moves back, and has passed    *)
(* what it has opened.                                                     *)
ChainOK(c) == \A i \in c.skipped : i < c.next

LEMMA ChainMoves ==
  ASSUME NEW K, NEW c \in Chains(K), ChainOK(c), NEW i \in Nat, NEW key,
         NEW d, d = DecryptChain(c, i, key)
  PROVE  /\ d.mr \in Chains(K) /\ ChainOK(d.mr)
         /\ d.mr.foreign = c.foreign /\ d.mr.root = c.root
         /\ d.mr.next >= c.next
         /\ d.result = "ok" => key = <<c.root, i>> /\ i < d.mr.next
<1>1. c.next \in Nat /\ c.skipped \in SUBSET Nat /\ c = [foreign |-> c.foreign, root |-> c.root, next |-> c.next, skipped |-> c.skipped]
      /\ c.foreign \in K /\ c.root \in Seq(SUBSET K)
  BY DEF Chains
<1>2. CASE i \in c.skipped
  <2>1. d.mr = [foreign |-> c.foreign, root |-> c.root, next |-> c.next, skipped |-> c.skipped \ {i}]
    BY <1>1, <1>2 DEF DecryptChain
  <2>2. d.result = "ok" => key = <<c.root, i>> BY <1>2 DEF DecryptChain, MessageKey
  <2>3. i < c.next BY <1>2 DEF ChainOK
  <2> QED BY <1>1, <2>1, <2>2, <2>3 DEF Chains, ChainOK
<1>3. CASE i \notin c.skipped /\ (i < c.next \/ i - c.next > MaxSkip)
  <2>1. d.mr = c /\ d.result # "ok" BY <1>1, <1>3 DEF DecryptChain
  <2> QED BY <1>1, <2>1
<1>4. CASE i \notin c.skipped /\ ~ (i < c.next \/ i - c.next > MaxSkip)
  <2>1. d.mr = [foreign |-> c.foreign, root |-> c.root, next |-> i + 1,
                skipped |-> c.skipped \cup (c.next..(i - 1))]
    BY <1>1, <1>4 DEF DecryptChain
  <2>2. d.result = "ok" => key = <<c.root, i>> BY <1>4 DEF DecryptChain, MessageKey
  <2>3. i + 1 \in Nat /\ i + 1 >= c.next BY <1>1, <1>4
  <2>4. c.next..(i - 1) \in SUBSET Nat BY <1>1
  <2>5. \A j \in c.skipped \cup (c.next..(i - 1)) : j < i + 1
    BY <1>1, <1>4 DEF ChainOK
  <2> QED BY <1>1, <2>1, <2>2, <2>3, <2>4, <2>5 DEF Chains, ChainOK
<1> QED BY <1>2, <1>3, <1>4

LEMMA Remembered ==
  ASSUME NEW C, NEW prev \in Seq(C), NEW c \in C, Len(prev) <= PrevLimit
  PROVE  Remember(prev, c) \in Seq(C) /\ Len(Remember(prev, c)) <= PrevLimit
<1> DEFINE s == Append(prev, c)
<1>1. s \in Seq(C) /\ Len(s) = Len(prev) + 1 /\ PrevLimit \in Nat /\ Len(prev) \in Nat BY LimitAssumption
<1>2. CASE Len(s) > PrevLimit
  <2>1. Len(s) = PrevLimit + 1 BY <1>1, <1>2
  <2>2. SubSeq(s, Len(s) - PrevLimit + 1, Len(s)) = SubSeq(s, 2, PrevLimit + 1) BY <1>1, <2>1
  <2> HIDE DEF s
  <2>3. SubSeq(s, 2, PrevLimit + 1) \in Seq(C) /\ Len(SubSeq(s, 2, PrevLimit + 1)) = PrevLimit
    BY <1>1, <2>1
  <2> QED BY <1>2, <2>2, <2>3 DEF Remember, s
<1>3. CASE ~ (Len(s) > PrevLimit)
  BY <1>1, <1>3 DEF Remember
<1> QED BY <1>2, <1>3

LEMMA ChainTyped ==
  ASSUME NEW K, NEW c \in Chains(K), NEW i \in Nat, NEW key
  PROVE  DecryptChain(c, i, key).mr \in Chains(K)
<1>1. c.next \in Nat /\ c.skipped \in SUBSET Nat /\ c.foreign \in K /\ c.root \in Seq(SUBSET K)
      /\ c = [foreign |-> c.foreign, root |-> c.root, next |-> c.next, skipped |-> c.skipped]
  BY DEF Chains
<1>2. DecryptChain(c, i, key).mr \in
        {c, [foreign |-> c.foreign, root |-> c.root, next |-> c.next, skipped |-> c.skipped \ {i}],
         [foreign |-> c.foreign, root |-> c.root, next |-> i + 1,
          skipped |-> c.skipped \cup (c.next..(i - 1))]}
  BY <1>1 DEF DecryptChain
<1>3. c.next..(i - 1) \in SUBSET Nat BY <1>1
<1> QED BY <1>1, <1>2, <1>3 DEF Chains

(* The key pairs p can have met when it has generated n of its own.        *)
Known(p, n) == {k \in Keys : k[1] = p => k[2] <= n}

(* The root both clients start from.                                       *)
Root0 == <<{<<q, 0>> : q \in Peers}>>

(* p's ratchet: its root is made of known secrets, the last one of them    *)
(* with the other's key it answers to.                                     *)
RatchetSound(p, r, n) ==
  /\ r \in Ratchets(Keys) /\ ChainOK(r.cur)
  /\ r.cur.root # <<>> /\ r.index = Len(r.cur.root) - 1 /\ Len(r.prev) <= PrevLimit
  /\ r.keyPair \in Known(p, n) /\ r.keyPair[1] = p
  /\ r.cur.foreign[1] # p /\ r.cur.foreign \in r.cur.root[Len(r.cur.root)]
  /\ \A j \in 1..Len(r.cur.root) : r.cur.root[j] \in SUBSET Known(p, n)

RatchetOK(p, r, n) ==
  /\ RatchetSound(p, r, n)
  /\ r.cur.root = Root0 => r.keyPair = Identity(p) /\ r.prev = <<>>

LEMMA RatchetShape ==
  ASSUME NEW r \in Ratchets(Keys)
  PROVE  /\ r = [keyPair |-> r.keyPair, cur |-> r.cur, prev |-> r.prev, index |-> r.index, state |-> r.state]
         /\ r.keyPair \in Keys /\ r.cur \in Chains(Keys) /\ r.prev \in Seq(Chains(Keys)) /\ r.index \in Nat
         /\ r.state \in {"Sending", "Receiving"}
         /\ r.cur = [foreign |-> r.cur.foreign, root |-> r.cur.root, next |-> r.cur.next, skipped |-> r.cur.skipped]
         /\ r.cur.foreign \in Keys /\ r.cur.root \in Seq(SUBSET Keys) /\ r.cur.next \in Nat
         /\ r.cur.skipped \in SUBSET Nat
BY DEF Ratchets, Chains

(* A turn: one secret more, so that the root is not the first one.         *)
LEMMA Turns ==
  ASSUME NEW p \in Peers, NEW n \in Nat, NEW r, RatchetSound(p, r, n),
         NEW foreign \in Keys, foreign[1] # p, NEW t, t = RKCycle(r, foreign)
  PROVE  /\ RatchetOK(p, t, n)
         /\ t.keyPair = r.keyPair /\ t.state = r.state
         /\ t.cur = NewMessageRatchet(Append(r.cur.root, Secret(r.keyPair, foreign)), foreign)
         /\ t.cur.root # Root0
<1>1. r \in Ratchets(Keys) BY DEF RatchetSound
<1> DEFINE root == Append(r.cur.root, Secret(r.keyPair, foreign))
           mr == NewMessageRatchet(root, foreign)
           s == Remember(r.prev, r.cur)
<1>2. t = [keyPair |-> r.keyPair, cur |-> mr, prev |-> s, index |-> r.index + 1, state |-> r.state]
  BY <1>1 DEF RKCycle, Ratchets
<1>3. s \in Seq(Chains(Keys)) /\ Len(s) <= PrevLimit
  BY <1>1, RatchetShape, Remembered DEF RatchetSound
<1>4. Secret(r.keyPair, foreign) \in SUBSET Known(p, n) BY DEF Secret, RatchetSound, Known
<1>5. Secret(r.keyPair, foreign) \in SUBSET Keys BY <1>4 DEF Known
<1>6. /\ root \in Seq(SUBSET Keys) /\ Len(root) = Len(r.cur.root) + 1
      /\ root[Len(root)] = Secret(r.keyPair, foreign)
      /\ \A j \in 1..Len(r.cur.root) : root[j] = r.cur.root[j]
      /\ Len(r.cur.root) \in Nat
  <2>1. r.cur.root \in Seq(SUBSET Keys) BY <1>1, RatchetShape
  <2> HIDE DEF s, mr
  <2> QED BY <2>1, <1>5
<1>7. Len(root) # 1
  BY <1>1, <1>6, RatchetShape DEF RatchetSound
<1>8. root # Root0 BY <1>7 DEF Root0
<1> HIDE DEF s, root
<1>9. mr \in Chains(Keys) /\ ChainOK(mr) /\ mr.root = root /\ mr.foreign = foreign
  BY <1>6 DEF NewMessageRatchet, Chains, ChainOK
<1>10. t \in Ratchets(Keys)
  <2> HIDE DEF mr
  <2> QED BY <1>1, <1>2, <1>3, <1>9, RatchetShape DEF Ratchets
<1>11. root # <<>> /\ r.index + 1 = Len(root) - 1
  BY <1>1, <1>6, RatchetShape DEF RatchetSound
<1>12. foreign \in root[Len(root)] BY <1>6 DEF Secret
<1>13. \A j \in 1..Len(root) : root[j] \in SUBSET Known(p, n)
  <2>1. \A j \in 1..Len(r.cur.root) : r.cur.root[j] \in SUBSET Known(p, n) BY DEF RatchetSound
  <2>2. \A j \in 1..Len(root) : j \in 1..Len(r.cur.root) \/ j = Len(root) BY <1>6
  <2> HIDE DEF mr
  <2> QED BY <1>4, <1>6, <2>1, <2>2
<1> HIDE DEF mr
<1>14. RatchetOK(p, t, n)
  <2>1. t.cur = mr /\ t.prev = s /\ t.index = r.index + 1 /\ t.keyPair = r.keyPair BY <1>2
  <2>2. r.keyPair \in Known(p, n) /\ r.keyPair[1] = p BY DEF RatchetSound
  <2> QED BY <1>3, <1>8, <1>9, <1>10, <1>11, <1>12, <1>13, <2>1, <2>2 DEF RatchetOK, RatchetSound
<1> QED BY <1>2, <1>8, <1>9, <1>14 DEF root, mr

Messages == [name : Peers \X Nat, pub : Keys, index : Nat, key : Seq(SUBSET Keys) \X Nat]

(* A ratchet whose chain has another position is as good as before.        *)
LEMMA ChainReplaced ==
  ASSUME NEW p \in Peers, NEW n \in Nat, NEW r, RatchetOK(p, r, n),
         NEW c \in Chains(Keys), ChainOK(c), c.foreign = r.cur.foreign, c.root = r.cur.root,
         NEW t, t = [r EXCEPT !.cur = c]
  PROVE  RatchetOK(p, t, n) /\ t.cur = c /\ t.keyPair = r.keyPair /\ t.state = r.state
<1>1. r \in Ratchets(Keys) BY DEF RatchetOK, RatchetSound
<1>2. /\ t \in Ratchets(Keys) /\ t.cur = c /\ t.keyPair = r.keyPair /\ t.state = r.state
      /\ t.prev = r.prev /\ t.index = r.index
  BY <1>1 DEF Ratchets
<1> QED BY <1>2 DEF RatchetOK, RatchetSound

LEMMA PlaceReplaced ==
  ASSUME NEW C, NEW s \in Seq(C), NEW x \in C, NEW i \in 1..Len(s)
  PROVE  [s EXCEPT ![i] = x] \in Seq(C) /\ Len([s EXCEPT ![i] = x]) = Len(s)
OBVIOUS

LEMMA Decrypts ==
  ASSUME NEW p \in Peers, NEW n \in Nat, NEW r, RatchetOK(p, r, n),
         NEW m \in Messages, m.pub[1] # p, NEW d, d = Decrypt(r, m)
  PROVE  /\ RatchetOK(p, d.ratchet, n)
         /\ d.ratchet.keyPair = r.keyPair
         /\ \/ d.ratchet.state = "Receiving" /\ d.ratchet.cur.root # Root0
            \/ /\ d.ratchet.state = r.state /\ d.ratchet.cur.root = r.cur.root
               /\ d.ratchet.cur.next >= r.cur.next
         /\ d.result = "ok" /\ d.ratchet.cur.root = Root0 => m.index < d.ratchet.cur.next
<1>1. r \in Ratchets(Keys) /\ ChainOK(r.cur) BY DEF RatchetOK, RatchetSound
<1>2. m.pub \in Keys /\ m.index \in Nat BY DEF Messages
<1>3. r.cur \in Chains(Keys) /\ r.prev \in Seq(Chains(Keys)) /\ r.cur.next \in Nat BY <1>1, RatchetShape
<1>4. CASE r.cur.foreign = m.pub
  <2>1. PICK e : e = DecryptChain(r.cur, m.index, m.key) OBVIOUS
  <2>2. /\ e.mr \in Chains(Keys) /\ ChainOK(e.mr)
        /\ e.mr.foreign = r.cur.foreign /\ e.mr.root = r.cur.root
        /\ e.mr.next >= r.cur.next
        /\ e.result = "ok" => m.index < e.mr.next
    BY <1>1, <1>2, <1>3, <2>1, ChainMoves
  <2>3. d.ratchet = [r EXCEPT !.cur = e.mr] /\ d.result = e.result BY <1>4, <2>1 DEF Decrypt
  <2>4. /\ RatchetOK(p, d.ratchet, n) /\ d.ratchet.cur = e.mr
        /\ d.ratchet.keyPair = r.keyPair /\ d.ratchet.state = r.state
    BY <2>2, <2>3, ChainReplaced
  <2> QED BY <2>2, <2>3, <2>4
<1>5. CASE r.cur.foreign # m.pub /\ Previous(r, m.pub) # {}
  <2>1. PICK i : i = Oldest(Previous(r, m.pub)) OBVIOUS
  <2>2. PICK e : e = DecryptChain(r.prev[i], m.index, m.key) OBVIOUS
  <2>3. d.ratchet = [r EXCEPT !.prev[i].skipped = e.mr.skipped] BY <1>5, <2>1, <2>2 DEF Decrypt
  <2>4. PICK prev : prev = [r.prev EXCEPT ![i].skipped = e.mr.skipped] OBVIOUS
  <2>5. prev \in Seq(Chains(Keys)) /\ Len(prev) = Len(r.prev)
    <3>1. CASE i \in 1..Len(r.prev)
      <4>1. r.prev[i] \in Chains(Keys) BY <1>3, <3>1
      <4>2. e.mr \in Chains(Keys) BY <1>2, <2>2, <4>1, ChainTyped
      <4>3. e.mr.skipped \in SUBSET Nat BY <4>2 DEF Chains
      <4>4. [r.prev[i] EXCEPT !.skipped = e.mr.skipped] \in Chains(Keys) BY <4>1, <4>3 DEF Chains
      <4>5. prev = [r.prev EXCEPT ![i] = [r.prev[i] EXCEPT !.skipped = e.mr.skipped]] BY <2>4
      <4> QED BY <1>3, <3>1, <4>4, <4>5, PlaceReplaced
    <3>2. CASE i \notin 1..Len(r.prev)
      <4>1. prev = r.prev BY <1>3, <2>4, <3>2
      <4> QED BY <1>3, <4>1
    <3> QED BY <3>1, <3>2
  <2>6. /\ d.ratchet \in Ratchets(Keys) /\ d.ratchet.cur = r.cur /\ d.ratchet.keyPair = r.keyPair
        /\ d.ratchet.state = r.state /\ d.ratchet.prev = prev /\ d.ratchet.index = r.index
    BY <1>1, <2>3, <2>4, <2>5 DEF Ratchets
  <2>7. r.cur.root # Root0
    <3>1. Len(r.prev) # 0 BY <1>5 DEF Previous
    <3> QED BY <3>1 DEF RatchetOK, RatchetSound
  <2>8. RatchetOK(p, d.ratchet, n) BY <2>5, <2>6, <2>7 DEF RatchetOK, RatchetSound
  <2> QED BY <1>3, <2>6, <2>7, <2>8
<1>6. CASE r.cur.foreign # m.pub /\ Previous(r, m.pub) = {}
  <2>1. PICK c : c = RKCycle(r, m.pub) OBVIOUS
  <2>2. RatchetOK(p, c, n) /\ c.keyPair = r.keyPair /\ c.cur.root # Root0
    BY <1>2, <2>1, Turns DEF RatchetOK
  <2>3. PICK t : t = [c EXCEPT !.state = "Receiving"] OBVIOUS
  <2>4. /\ t \in Ratchets(Keys) /\ t.cur = c.cur /\ t.keyPair = c.keyPair /\ t.state = "Receiving"
        /\ t.prev = c.prev /\ t.index = c.index
    BY <2>2, <2>3 DEF Ratchets, RatchetOK, RatchetSound
  <2>5. RatchetOK(p, t, n) BY <2>2, <2>4 DEF RatchetOK, RatchetSound
  <2>6. PICK e : e = DecryptChain(t.cur, m.index, m.key) OBVIOUS
  <2>7. t.cur \in Chains(Keys) /\ ChainOK(t.cur) BY <2>4, <2>5, RatchetShape DEF RatchetOK, RatchetSound
  <2>8. /\ e.mr \in Chains(Keys) /\ ChainOK(e.mr)
        /\ e.mr.foreign = t.cur.foreign /\ e.mr.root = t.cur.root
    BY <1>2, <2>6, <2>7, ChainMoves
  <2>9. d.ratchet = [t EXCEPT !.cur = e.mr] BY <1>6, <2>1, <2>3, <2>6 DEF Decrypt
  <2>10. /\ RatchetOK(p, d.ratchet, n) /\ d.ratchet.cur = e.mr
         /\ d.ratchet.keyPair = t.keyPair /\ d.ratchet.state = t.state
    BY <2>5, <2>8, <2>9, ChainReplaced
  <2> QED BY <2>2, <2>4, <2>8, <2>10
<1> QED BY <1>4, <1>5, <1>6

(* How the root of a chain that p writes on was made: it is the first one, *)
(* or its last secret is that of a key pair not met before and the other's *)
(* last key.                                                               *)
Shape(p, root, pub) ==
  \/ root = Root0 /\ pub = Identity(p)
  \/ /\ root \in Seq(SUBSET Keys) /\ Len(root) > 1
     /\ \E f \in root[Len(root) - 1] : root[Len(root)] = Secret(pub, f)
     /\ \A j \in 1..(Len(root) - 1) : pub \notin root[j]

LEMMA KnownMore ==
  ASSUME NEW p \in Peers, NEW n \in Nat, NEW r, RatchetOK(p, r, n)
  PROVE  RatchetOK(p, r, n + 1)
<1>1. \A k \in Known(p, n) : k \in Known(p, n + 1) BY DEF Known, Keys
<1> QED BY <1>1 DEF RatchetOK, RatchetSound

(* A ratchet turned for sending has a root made with the fresh key pair.   *)
LEMMA FreshTurn ==
  ASSUME NEW p \in Peers, NEW n \in Nat, NEW r, RatchetOK(p, r, n), r.state = "Receiving",
         NEW t, t = Turn(r, <<p, n + 1>>)
  PROVE  /\ RatchetOK(p, t, n + 1) /\ t.state = "Sending"
         /\ t.keyPair = <<p, n + 1>> /\ t.cur.next = 0
         /\ Shape(p, t.cur.root, t.keyPair) /\ t.cur.root # Root0
<1> DEFINE fresh == <<p, n + 1>>
<1>1. RatchetOK(p, r, n + 1) /\ r \in Ratchets(Keys) BY KnownMore DEF RatchetOK, RatchetSound
<1>2. PICK s : s = [r EXCEPT !.state = "Sending", !.keyPair = fresh] OBVIOUS
<1>3. fresh \in Keys /\ fresh \in Known(p, n + 1) /\ fresh \notin Known(p, n) /\ fresh[1] = p
  BY DEF Keys, Known
<1> HIDE DEF fresh
<1>4. /\ s \in Ratchets(Keys) /\ s.cur = r.cur /\ s.keyPair = fresh /\ s.state = "Sending"
      /\ s.prev = r.prev /\ s.index = r.index
  BY <1>1, <1>2, <1>3 DEF Ratchets
<1>5. RatchetSound(p, s, n + 1) BY <1>1, <1>3, <1>4 DEF RatchetOK, RatchetSound
<1>6. r.cur.foreign \in Keys /\ r.cur.foreign[1] # p BY <1>1, RatchetShape DEF RatchetOK, RatchetSound
<1>7. t = RKCycle(s, r.cur.foreign) BY <1>2 DEF Turn, fresh
<1>8. /\ RatchetOK(p, t, n + 1) /\ t.keyPair = fresh /\ t.state = "Sending" /\ t.cur.root # Root0
      /\ t.cur = NewMessageRatchet(Append(s.cur.root, Secret(s.keyPair, r.cur.foreign)), r.cur.foreign)
  BY <1>4, <1>5, <1>6, <1>7, Turns
<1>9. t.cur.next = 0 /\ t.cur.root = Append(r.cur.root, Secret(fresh, r.cur.foreign))
  <2>1. t.cur = NewMessageRatchet(Append(r.cur.root, Secret(fresh, r.cur.foreign)), r.cur.foreign)
    BY <1>4, <1>8
  <2>2. PICK x, f : x = Append(r.cur.root, Secret(fresh, r.cur.foreign)) /\ f = r.cur.foreign OBVIOUS
  <2>3. t.cur = [foreign |-> f, root |-> x, next |-> 0, skipped |-> {}] BY <2>1, <2>2 DEF NewMessageRatchet
  <2>4. t.cur.next = 0 /\ t.cur.root = x BY ONLY <2>3
  <2> QED BY ONLY <2>2, <2>4
<1>10. r.cur.root \in Seq(SUBSET Keys) /\ r.cur.root # <<>> BY <1>1, RatchetShape DEF RatchetOK, RatchetSound
<1>11. PICK root : root = r.cur.root OBVIOUS
<1>12. t.cur.root \in Seq(SUBSET Keys)
  BY <1>8, RatchetShape DEF RatchetOK, RatchetSound
<1>13. /\ Len(t.cur.root) = Len(root) + 1 /\ Len(root) > 0 /\ Len(root) \in Nat
       /\ t.cur.root[Len(root) + 1] = Secret(fresh, r.cur.foreign)
       /\ \A j \in 1..Len(root) : t.cur.root[j] = root[j]
  <2>1. PICK x : x = Secret(fresh, r.cur.foreign) OBVIOUS
  <2>2. x \in SUBSET Keys BY <1>3, <1>6, <2>1 DEF Secret
  <2>3. t.cur.root = Append(root, x) BY <1>9, <1>11, <2>1
  <2>4. root \in Seq(SUBSET Keys) /\ root # <<>> BY <1>10, <1>11
  <2> QED BY ONLY <2>1, <2>2, <2>3, <2>4
<1>14. r.cur.foreign \in root[Len(root)] /\ \A j \in 1..Len(root) : root[j] \in SUBSET Known(p, n)
  BY <1>11 DEF RatchetOK, RatchetSound
<1>15. \A j \in 1..Len(root) : fresh \notin t.cur.root[j] BY <1>3, <1>13, <1>14
<1>16. r.cur.foreign \in t.cur.root[Len(root)] BY <1>13, <1>14
<1>17. Shape(p, t.cur.root, fresh)
  <2>1. Len(t.cur.root) > 1 /\ Len(t.cur.root) - 1 = Len(root) BY <1>13
  <2>2. t.cur.root[Len(t.cur.root)] = Secret(fresh, r.cur.foreign) BY <1>13
  <2> QED BY <1>12, <1>15, <1>16, <2>1, <2>2 DEF Shape
<1> QED BY <1>8, <1>9, <1>17 DEF fresh

(* What Encrypt makes of a ratchet r with n key pairs generated, and n2    *)
(* afterwards.                                                             *)
Encrypted(p, r, n, n2, e) ==
  /\ RatchetOK(p, e.ratchet, n2) /\ e.ratchet.state = "Sending" /\ e.ratchet.keyPair = e.pub
  /\ e.pub \in Known(p, n2) /\ e.pub[1] = p
  /\ e.index \in Nat /\ e.ratchet.cur.next = e.index + 1
  /\ e.key = <<e.ratchet.cur.root, e.index>> /\ e.ratchet.cur.root \in Seq(SUBSET Keys)
  /\ Shape(p, e.ratchet.cur.root, e.pub)
  /\ IF r.state = "Sending"
     THEN e.pub = r.keyPair /\ e.ratchet.cur.root = r.cur.root /\ e.index = r.cur.next
     ELSE e.pub = <<p, n + 1>> /\ e.ratchet.cur.root # Root0

LEMMA Encrypts ==
  ASSUME NEW p \in Peers, NEW n \in Nat, NEW r, RatchetOK(p, r, n),
         NEW n2, n2 = IF r.state = "Receiving" THEN n + 1 ELSE n,
         r.state = "Sending" => Shape(p, r.cur.root, r.keyPair),
         NEW e, e = Encrypt(r, <<p, n + 1>>)
  PROVE  Encrypted(p, r, n, n2, e)
<1>1. r \in Ratchets(Keys) /\ r.state \in {"Sending", "Receiving"} BY RatchetShape DEF RatchetOK, RatchetSound
<1>2. PICK t : t = Turn(r, <<p, n + 1>>) OBVIOUS
<1>3. n2 \in Nat OBVIOUS
<1>4. RatchetOK(p, t, n2) /\ t.state = "Sending" /\ Shape(p, t.cur.root, t.keyPair)
      /\ IF r.state = "Sending" THEN t = r ELSE t.keyPair = <<p, n + 1>> /\ t.cur.root # Root0
  <2>1. CASE r.state = "Receiving" BY <1>2, <2>1, FreshTurn
  <2>2. CASE r.state = "Sending"
    <3>1. t = r /\ n2 = n BY <1>2, <2>2 DEF Turn
    <3> QED BY <2>2, <3>1
  <2> QED BY <1>1, <2>1, <2>2
<1>5. PICK c : c = [t.cur EXCEPT !.next = t.cur.next + 1] OBVIOUS
<1>6. t.cur \in Chains(Keys) /\ t.cur.next \in Nat /\ t.cur.root \in Seq(SUBSET Keys) /\ ChainOK(t.cur)
      /\ t.cur.skipped \in SUBSET Nat
  BY <1>4, RatchetShape DEF RatchetOK, RatchetSound
<1>7. c \in Chains(Keys) /\ c.foreign = t.cur.foreign /\ c.root = t.cur.root /\ c.next = t.cur.next + 1
      /\ c.skipped = t.cur.skipped
  BY <1>5, <1>6 DEF Chains
<1>8. ChainOK(c) BY <1>6, <1>7 DEF ChainOK
<1>9. e.ratchet = [t EXCEPT !.cur = c] /\ e.pub = t.keyPair /\ e.index = t.cur.next
      /\ e.key = <<t.cur.root, t.cur.next>>
  <2>1. e.ratchet = [t EXCEPT !.cur.next = t.cur.next + 1] BY <1>2 DEF Encrypt
  <2> QED BY <1>2, <1>5, <2>1 DEF Encrypt, MessageKey
<1>10. /\ RatchetOK(p, e.ratchet, n2) /\ e.ratchet.cur = c
       /\ e.ratchet.keyPair = t.keyPair /\ e.ratchet.state = t.state
  BY <1>3, <1>4, <1>7, <1>8, <1>9, ChainReplaced
<1>11. t.keyPair \in Known(p, n2) /\ t.keyPair[1] = p BY <1>4 DEF RatchetOK, RatchetSound
<1> QED BY <1>1, <1>4, <1>6, <1>7, <1>9, <1>10, <1>11 DEF Encrypted

-----------------------------------------------------------------------------
(* The two peers.                                                          *)

LEMMA TwoPeers ==
  ASSUME NEW p \in Peers
  PROVE  /\ Other(p) \in Peers /\ Other(p) # p /\ Other(Other(p)) = p
         /\ \A q \in Peers : q = p \/ q = Other(p)
<1>1. IsFiniteSet(Peers) /\ Cardinality(Peers) = 2 BY PeersAssumption
<1>2. IsFiniteSet(Peers \ {p}) /\ Cardinality(Peers \ {p}) = 1
  <2>1. Cardinality(Peers \ {p}) = Cardinality(Peers) - 1 BY <1>1, FS_RemoveElement
  <2>2. IsFiniteSet(Peers \ {p}) BY <1>1, FS_RemoveElement
  <2> QED BY <1>1, <2>1, <2>2
<1>3. PICK q : Peers \ {p} = {q} BY <1>2, FS_Singleton
<1>4. Other(p) = q BY <1>3 DEF Other
<1>5. Other(q) = p BY <1>3 DEF Other
<1> QED BY <1>3, <1>4, <1>5

LEMMA FirstRoot ==
  ASSUME NEW p \in Peers
  PROVE  <<Secret(Identity(p), Identity(Other(p)))>> = Root0
<1>1. Peers = {p, Other(p)} BY TwoPeers
<1>2. {<<q, 0>> : q \in Peers} = {<<p, 0>>, <<Other(p), 0>>} BY <1>1
<1> QED BY <1>2 DEF Root0, Secret, Identity

LEMMA FirstRatchet ==
  ASSUME NEW p \in Peers, NEW n \in Nat, NEW state \in {"Sending", "Receiving"},
         NEW r, r = NewDHRatchet(Identity(p), Identity(Other(p)), state)
  PROVE  /\ RatchetOK(p, r, n) /\ Shape(p, r.cur.root, r.keyPair)
         /\ r.keyPair = Identity(p) /\ r.cur.root = Root0 /\ r.cur.next = 0 /\ r.state = state
<1> DEFINE mr == NewMessageRatchet(Root0, Identity(Other(p)))
<1>1. r = [keyPair |-> Identity(p), cur |-> mr, prev |-> <<>>, index |-> 0, state |-> state]
  BY FirstRoot DEF NewDHRatchet
<1>2. Other(p) \in Peers /\ Other(p) # p BY TwoPeers
<1>3. Identity(p) \in Keys /\ Identity(Other(p)) \in Keys /\ Identity(p)[1] = p /\ Identity(Other(p))[1] # p
  BY <1>2 DEF Identity, Keys
<1>4. Identity(p) \in Known(p, n) /\ Identity(Other(p)) \in Known(p, n)
  BY <1>2, <1>3 DEF Known, Identity
<1>5. Root0[1] = {Identity(p), Identity(Other(p))} /\ Len(Root0) = 1 /\ Root0 # <<>>
  <2>1. Root0 = <<Secret(Identity(p), Identity(Other(p)))>> BY FirstRoot
  <2> QED BY <2>1 DEF Secret
<1>6. Root0 \in Seq(SUBSET Keys)
  <2>1. Root0 = <<Secret(Identity(p), Identity(Other(p)))>> BY FirstRoot
  <2>2. Secret(Identity(p), Identity(Other(p))) \in SUBSET Keys BY <1>3 DEF Secret
  <2> QED BY <2>1, <2>2
<1>7. mr = [foreign |-> Identity(Other(p)), root |-> Root0, next |-> 0, skipped |-> {}]
  BY DEF NewMessageRatchet
<1> HIDE DEF mr
<1>8. mr \in Chains(Keys) /\ ChainOK(mr) /\ mr.root = Root0 /\ mr.foreign = Identity(Other(p)) /\ mr.next = 0
  BY <1>3, <1>6, <1>7 DEF Chains, ChainOK
<1>9. r \in Ratchets(Keys)
  <2>1. <<>> \in Seq(Chains(Keys)) /\ 0 \in Nat OBVIOUS
  <2> QED BY <1>1, <1>3, <1>8, <2>1 DEF Ratchets
<1>10. r.cur = mr /\ r.keyPair = Identity(p) /\ r.prev = <<>> /\ r.index = 0 /\ r.state = state BY <1>1
<1>11. \A j \in 1..Len(Root0) : Root0[j] \in SUBSET Known(p, n) BY <1>4, <1>5
<1>12. Identity(Other(p)) \in Root0[Len(Root0)] BY <1>5
<1>13. Len(r.prev) <= PrevLimit BY <1>10, LimitAssumption
<1>14. r.index = Len(Root0) - 1 BY <1>5, <1>10
<1>15. RatchetOK(p, r, n)
  BY <1>3, <1>4, <1>5, <1>8, <1>9, <1>10, <1>11, <1>12, <1>13, <1>14 DEF RatchetOK, RatchetSound
<1> QED BY <1>8, <1>10, <1>15 DEF Shape

-----------------------------------------------------------------------------
(* What a peer keeps while it handles messages.                            *)

PeerRatchet(p, r, n) ==
  RatchetOK(p, r, n) /\ (r.state = "Sending" => Shape(p, r.cur.root, r.keyPair))

(* A peer between two messages, with n key pairs generated and names read. *)
PeerOK(p, at, n, names) ==
  /\ at = [ratchet |-> at.ratchet, saved |-> at.saved, read |-> at.read, forgot |-> at.forgot]
  /\ at.read \in SUBSET names /\ at.forgot \in SUBSET at.read
  /\ at.ratchet = NoContact <=> at.saved = NoContact
  /\ at.ratchet = NoContact => at.read = {}
  /\ at.ratchet # NoContact => PeerRatchet(p, at.ratchet, n) /\ PeerRatchet(p, at.saved, n)

(* The messages p has sent with this key pair are behind its chain, and so *)
(* are those of the other's that p has read on the first chain, which both *)
(* write on.                                                               *)
Passed(r, sent, inbox, names) ==
  /\ r.state = "Sending" =>
       \A m \in sent : m.pub = r.keyPair => m.key[1] = r.cur.root /\ m.index < r.cur.next
  /\ r.cur.root = Root0 =>
       \A m \in inbox : m.key[1] = Root0 /\ m.name \in names => m.index < r.cur.next

PeerPassed(at, sent, inbox) ==
  /\ at.ratchet = NoContact => sent = {}
  /\ at.ratchet # NoContact => Passed(at.ratchet, sent, inbox, at.read) /\ Passed(at.saved, sent, inbox, at.read)

LEMMA RatchetIsContact ==
  ASSUME NEW p, NEW n, NEW r, PeerRatchet(p, r, n)
  PROVE  r # NoContact
BY NoContactAssumption DEF PeerRatchet, RatchetOK, RatchetSound

(* The peer's ratchets before a message: new ones for a new contact.       *)
Handled(p, n, at, m, h) ==
  \E r, sv, d, l :
    /\ l \in SUBSET at.read
    /\ PeerRatchet(p, r, n) /\ PeerRatchet(p, sv, n)
    /\ IF at.ratchet = NoContact
       THEN at.read = {} /\ r.state = "Receiving" /\ sv = r
       ELSE r = at.ratchet /\ sv = at.saved
    /\ d = Decrypt(r, m)
    /\ IF d.result = "ok"
       THEN h = [ratchet |-> d.ratchet, saved |-> d.ratchet, read |-> at.read \cup {m.name},
                 forgot |-> at.forgot \cup l]
       ELSE h = [ratchet |-> d.ratchet, saved |-> sv, read |-> at.read,
                 forgot |-> at.forgot \cup l]

LEMMA HandleShape ==
  ASSUME NEW p \in Peers, NEW n \in Nat, NEW names, NEW at, PeerOK(p, at, n, names),
         NEW m, NEW h, h = Handle(p, at, m)
  PROVE  Handled(p, n, at, m, h)
<1>1. PICK new : new = NewDHRatchet(Identity(p), Identity(Other(p)), "Receiving") OBVIOUS
<1>2. PeerRatchet(p, new, n) /\ new.state = "Receiving" BY <1>1, FirstRatchet DEF PeerRatchet
<1>3. PICK met : met = IF at.ratchet = NoContact THEN [at EXCEPT !.ratchet = new, !.saved = new] ELSE at OBVIOUS
<1>4. PICK d : d = Decrypt(met.ratchet, m) OBVIOUS
<1>5. PICK l : l = IF m.name \in at.read /\ ~ Keeps(met.ratchet, m) THEN {m.name} ELSE {} OBVIOUS
<1>6. l \in SUBSET at.read BY <1>5
<1>7. h = IF d.result = "ok"
          THEN [ratchet |-> d.ratchet, saved |-> d.ratchet, read |-> met.read \cup {m.name},
                forgot |-> met.forgot \cup l]
          ELSE [met EXCEPT !.ratchet = d.ratchet, !.forgot = @ \cup l]
  BY <1>1, <1>3, <1>4, <1>5 DEF Handle
<1>8. PICK rt, svd, rd, fg : at = [ratchet |-> rt, saved |-> svd, read |-> rd, forgot |-> fg] BY DEF PeerOK
<1>9. CASE at.ratchet = NoContact
  <2>1. met = [ratchet |-> new, saved |-> new, read |-> rd, forgot |-> fg] BY <1>3, <1>8, <1>9
  <2>2. h = IF d.result = "ok"
            THEN [ratchet |-> d.ratchet, saved |-> d.ratchet, read |-> rd \cup {m.name}, forgot |-> fg \cup l]
            ELSE [ratchet |-> d.ratchet, saved |-> new, read |-> rd, forgot |-> fg \cup l]
    BY <1>7, <2>1
  <2>3. at.read = {} /\ rd = at.read /\ fg = at.forgot BY <1>8, <1>9 DEF PeerOK
  <2>4. d = Decrypt(new, m) BY <1>4, <2>1
  <2> QED BY <1>2, <1>9, <1>6, <2>2, <2>3, <2>4 DEF Handled
<1>10. CASE at.ratchet # NoContact
  <2>1. met = [ratchet |-> rt, saved |-> svd, read |-> rd, forgot |-> fg] BY <1>3, <1>8, <1>10
  <2>2. h = IF d.result = "ok"
            THEN [ratchet |-> d.ratchet, saved |-> d.ratchet, read |-> rd \cup {m.name}, forgot |-> fg \cup l]
            ELSE [ratchet |-> d.ratchet, saved |-> svd, read |-> rd, forgot |-> fg \cup l]
    BY <1>7, <2>1
  <2>3. rt = at.ratchet /\ svd = at.saved /\ rd = at.read /\ fg = at.forgot BY <1>8
  <2>4. d = Decrypt(rt, m) BY <1>4, <2>1
  <2>5. PeerRatchet(p, at.ratchet, n) /\ PeerRatchet(p, at.saved, n) BY <1>10 DEF PeerOK
  <2> QED BY <1>10, <1>6, <2>2, <2>3, <2>4, <2>5 DEF Handled
<1> QED BY <1>9, <1>10

LEMMA DecryptKeeps ==
  ASSUME NEW p \in Peers, NEW n \in Nat, NEW r, PeerRatchet(p, r, n),
         NEW m \in Messages, m.pub[1] # p, NEW d, d = Decrypt(r, m)
  PROVE  PeerRatchet(p, d.ratchet, n)
<1>1. RatchetOK(p, r, n) BY DEF PeerRatchet
<1>2. /\ RatchetOK(p, d.ratchet, n)
      /\ d.ratchet.keyPair = r.keyPair
      /\ \/ d.ratchet.state = "Receiving" /\ d.ratchet.cur.root # Root0
         \/ d.ratchet.state = r.state /\ d.ratchet.cur.root = r.cur.root
  BY <1>1, Decrypts
<1> QED BY <1>2 DEF PeerRatchet

LEMMA HandleOK ==
  ASSUME NEW p \in Peers, NEW n \in Nat, NEW names, NEW at, PeerOK(p, at, n, names),
         NEW m \in Messages, m.pub[1] # p, m.name \in names, NEW h, h = Handle(p, at, m)
  PROVE  PeerOK(p, h, n, names) /\ h.ratchet # NoContact
<1>0. Handled(p, n, at, m, h) BY HandleShape
<1>1. PICK r, sv, d, l :
           /\ l \in SUBSET at.read
           /\ PeerRatchet(p, r, n) /\ PeerRatchet(p, sv, n)
           /\ IF at.ratchet = NoContact
              THEN at.read = {} /\ r.state = "Receiving" /\ sv = r
              ELSE r = at.ratchet /\ sv = at.saved
           /\ d = Decrypt(r, m)
           /\ IF d.result = "ok"
              THEN h = [ratchet |-> d.ratchet, saved |-> d.ratchet, read |-> at.read \cup {m.name},
                        forgot |-> at.forgot \cup l]
              ELSE h = [ratchet |-> d.ratchet, saved |-> sv, read |-> at.read,
                        forgot |-> at.forgot \cup l]
  BY <1>0 DEF Handled
<1>2. PeerRatchet(p, d.ratchet, n) BY <1>1, DecryptKeeps
<1>3. d.ratchet # NoContact /\ sv # NoContact BY <1>1, <1>2, RatchetIsContact
<1>4. /\ at.read \in SUBSET names /\ at.read \cup {m.name} \in SUBSET names
      /\ at.forgot \cup l \in SUBSET at.read
  BY <1>1 DEF PeerOK
<1>5. CASE d.result = "ok"
  <2>1. h = [ratchet |-> d.ratchet, saved |-> d.ratchet, read |-> at.read \cup {m.name},
             forgot |-> at.forgot \cup l]
    BY <1>1, <1>5
  <2>2. h.ratchet = d.ratchet /\ h.saved = d.ratchet /\ h.read = at.read \cup {m.name}
        /\ h.forgot = at.forgot \cup l
    BY <2>1
  <2> QED BY <1>2, <1>3, <1>4, <2>1, <2>2 DEF PeerOK
<1>6. CASE d.result # "ok"
  <2>1. h = [ratchet |-> d.ratchet, saved |-> sv, read |-> at.read, forgot |-> at.forgot \cup l]
    BY <1>1, <1>6
  <2>2. h.ratchet = d.ratchet /\ h.saved = sv /\ h.read = at.read /\ h.forgot = at.forgot \cup l BY <2>1
  <2> QED BY <1>1, <1>2, <1>3, <1>4, <2>1, <2>2 DEF PeerOK
<1> QED BY <1>5, <1>6

LEMMA HandlePassed ==
  ASSUME NEW p \in Peers, NEW n \in Nat, NEW names, NEW at, PeerOK(p, at, n, names),
         NEW sent \in SUBSET Messages, NEW inbox \in SUBSET Messages, \A a, b \in inbox : a.name = b.name => a = b,
         PeerPassed(at, sent, inbox), at.ratchet # NoContact \/ sent = {},
         NEW m \in inbox, m.pub[1] # p, NEW h, h = Handle(p, at, m)
  PROVE  PeerPassed(h, sent, inbox)
<1>0. Handled(p, n, at, m, h) BY HandleShape
<1>1. PICK r, sv, d, l :
           /\ l \in SUBSET at.read
           /\ PeerRatchet(p, r, n) /\ PeerRatchet(p, sv, n)
           /\ IF at.ratchet = NoContact
              THEN at.read = {} /\ r.state = "Receiving" /\ sv = r
              ELSE r = at.ratchet /\ sv = at.saved
           /\ d = Decrypt(r, m)
           /\ IF d.result = "ok"
              THEN h = [ratchet |-> d.ratchet, saved |-> d.ratchet, read |-> at.read \cup {m.name},
                        forgot |-> at.forgot \cup l]
              ELSE h = [ratchet |-> d.ratchet, saved |-> sv, read |-> at.read,
                        forgot |-> at.forgot \cup l]
  BY <1>0 DEF Handled
<1>2. PeerRatchet(p, d.ratchet, n) BY <1>1, DecryptKeeps
<1>3. d.ratchet # NoContact /\ sv # NoContact BY <1>1, <1>2, RatchetIsContact
<1>4. Passed(r, sent, inbox, at.read) /\ Passed(sv, sent, inbox, at.read)
  <2>1. CASE at.ratchet = NoContact
    <3>1. at.read = {} /\ sent = {} /\ sv = r BY <1>1, <2>1
    <3> QED BY <3>1 DEF Passed
  <2>2. CASE at.ratchet # NoContact BY <1>1, <2>2 DEF PeerPassed
  <2> QED BY <2>1, <2>2
<1>5. /\ d.ratchet.keyPair = r.keyPair
      /\ \/ d.ratchet.state = "Receiving" /\ d.ratchet.cur.root # Root0
         \/ /\ d.ratchet.state = r.state /\ d.ratchet.cur.root = r.cur.root
            /\ d.ratchet.cur.next >= r.cur.next
      /\ d.result = "ok" /\ d.ratchet.cur.root = Root0 => m.index < d.ratchet.cur.next
  BY <1>1, Decrypts DEF PeerRatchet
<1>6. d.ratchet.cur.next \in Nat /\ r.cur.next \in Nat
  BY <1>1, <1>2, RatchetShape DEF PeerRatchet, RatchetOK, RatchetSound
<1>7. \A a \in inbox \cup sent : a.index \in Nat BY DEF Messages
<1>8. Passed(d.ratchet, sent, inbox, at.read)
  <2>1. CASE d.ratchet.state = "Receiving" /\ d.ratchet.cur.root # Root0 BY <2>1 DEF Passed
  <2>2. CASE /\ d.ratchet.state = r.state /\ d.ratchet.cur.root = r.cur.root
             /\ d.ratchet.cur.next >= r.cur.next
    <3>1. ASSUME d.ratchet.state = "Sending", NEW a \in sent, a.pub = d.ratchet.keyPair
          PROVE  a.key[1] = d.ratchet.cur.root /\ a.index < d.ratchet.cur.next
      <4>1. a.key[1] = r.cur.root /\ a.index < r.cur.next BY <1>4, <1>5, <2>2, <3>1 DEF Passed
      <4> QED BY <1>6, <1>7, <2>2, <4>1
    <3>2. ASSUME d.ratchet.cur.root = Root0, NEW a \in inbox, a.key[1] = Root0, a.name \in at.read
          PROVE  a.index < d.ratchet.cur.next
      <4>1. a.index < r.cur.next BY <1>4, <2>2, <3>2 DEF Passed
      <4> QED BY <1>6, <1>7, <2>2, <4>1
    <3> QED BY <3>1, <3>2 DEF Passed
  <2> QED BY <1>5, <2>1, <2>2
<1>9. CASE d.result = "ok"
  <2>1. h.ratchet = d.ratchet /\ h.saved = d.ratchet /\ h.read = at.read \cup {m.name} BY <1>1, <1>9
  <2>2. ASSUME d.ratchet.cur.root = Root0, NEW a \in inbox, a.key[1] = Root0, a.name \in at.read \cup {m.name}
        PROVE  a.index < d.ratchet.cur.next
    <3>1. CASE a.name \in at.read BY <1>8, <2>2, <3>1 DEF Passed
    <3>2. CASE a.name = m.name
      <4>1. a = m BY <2>2, <3>2
      <4> QED BY <1>5, <1>9, <2>2, <4>1
    <3> QED BY <2>2, <3>1, <3>2
  <2>3. Passed(d.ratchet, sent, inbox, at.read \cup {m.name}) BY <1>8, <2>2 DEF Passed
  <2> QED BY <1>3, <2>1, <2>3 DEF PeerPassed
<1>10. CASE d.result # "ok"
  <2>1. h.ratchet = d.ratchet /\ h.saved = sv /\ h.read = at.read BY <1>1, <1>10
  <2> QED BY <1>3, <1>4, <1>8, <2>1 DEF PeerPassed
<1> QED BY <1>9, <1>10

-----------------------------------------------------------------------------
(* The typing invariant.                                                   *)

Inbox(p) == {box[p][i] : i \in 1..Len(box[p])}
Names(p) == {m.name : m \in Inbox(p)}

(* A message has been written by the other, with its key pair, under its   *)
(* next name.                                                              *)
WrittenBy(q, m) ==
  /\ m.name \in {q} \X (1..sends[q])
  /\ m.pub \in Known(q, made[q]) /\ m.pub[1] = q
  /\ m.key[2] = m.index
  /\ Shape(q, m.key[1], m.pub)

Typed ==
  /\ ratchet \in [Peers -> Ratchets(Keys) \cup {NoContact}]
  /\ saved \in [Peers -> Ratchets(Keys) \cup {NoContact}]
  /\ made \in [Peers -> Nat] /\ sends \in [Peers -> 0..MaxSends]
  /\ stuck \subseteq Peers /\ logins \in [Peers -> 0..MaxLogins]
  /\ box \in [Peers -> Seq(Messages)]
  /\ pushed \in [Peers -> Nat] /\ \A p \in Peers : pushed[p] <= Len(box[p])
  /\ read \in [Peers -> SUBSET (Peers \X Nat)] /\ forgot \in [Peers -> SUBSET (Peers \X Nat)]
  /\ \A p \in Peers : PeerOK(p, At(p), made[p], Names(p))
  /\ \A p \in Peers : \A m \in Inbox(p) : WrittenBy(Other(p), m)

LEMMA AtFields ==
  ASSUME NEW p
  PROVE  At(p).ratchet = ratchet[p] /\ At(p).saved = saved[p] /\ At(p).read = read[p] /\ At(p).forgot = forgot[p]
BY DEF At

LEMMA InboxTyped ==
  ASSUME Typed, NEW p \in Peers, NEW m \in Inbox(p)
  PROVE  /\ m \in Messages /\ m.pub[1] # p /\ m.name \in Names(p) /\ WrittenBy(Other(p), m)
<1>1. box[p] \in Seq(Messages) BY DEF Typed
<1>2. m \in Messages BY <1>1 DEF Inbox
<1>3. WrittenBy(Other(p), m) BY DEF Typed
<1> QED BY <1>2, <1>3, TwoPeers DEF WrittenBy, Names

LEMMA InitTyped == Init => Typed
<1> SUFFICES ASSUME Init PROVE Typed OBVIOUS
<1> USE DEF Init
<1>1. \A p \in Peers : At(p) = [ratchet |-> NoContact, saved |-> NoContact, read |-> {}, forgot |-> {}] BY DEF At
<1>2. \A p \in Peers : PeerOK(p, At(p), made[p], Names(p)) BY <1>1 DEF PeerOK
<1>3. \A p \in Peers : Len(box[p]) = 0 /\ box[p] \in Seq(Messages) OBVIOUS
<1>4. \A p \in Peers : Inbox(p) = {} BY <1>3 DEF Inbox
<1>5. 0 \in 0..MaxSends /\ 0 \in 0..MaxLogins BY BoundAssumption
<1>6. \A p \in Peers : pushed[p] <= Len(box[p]) BY <1>3
<1>7. box \in [Peers -> Seq(Messages)] OBVIOUS
<1> QED BY <1>2, <1>4, <1>5, <1>6, <1>7 DEF Typed

(* A step that changes one peer's side, and no box.                        *)
LEMMA SideTyped ==
  ASSUME Typed, NEW p \in Peers, NEW at, Becomes(p, at), PeerOK(p, at, made[p], Names(p)),
         UNCHANGED <<made, sends, box>>,
         stuck' \subseteq Peers, logins' \in [Peers -> 0..MaxLogins],
         pushed' \in [Peers -> Nat], \A q \in Peers : pushed'[q] <= Len(box[q])
  PROVE  Typed'
<1>1. /\ ratchet' = [ratchet EXCEPT ![p] = at.ratchet] /\ saved' = [saved EXCEPT ![p] = at.saved]
      /\ read' = [read EXCEPT ![p] = at.read] /\ forgot' = [forgot EXCEPT ![p] = at.forgot]
  BY DEF Becomes
<1>2. at.ratchet \in Ratchets(Keys) \cup {NoContact} /\ at.saved \in Ratchets(Keys) \cup {NoContact}
  BY DEF PeerOK, PeerRatchet, RatchetOK, RatchetSound
<1>3. at.read \in SUBSET (Peers \X Nat) /\ at.forgot \in SUBSET (Peers \X Nat)
  <2>1. \A m \in Inbox(p) : m.name \in Peers \X Nat BY InboxTyped DEF Messages
  <2>2. Names(p) \in SUBSET (Peers \X Nat) BY <2>1 DEF Names
  <2> QED BY <2>2 DEF PeerOK
<1>4. /\ ratchet' \in [Peers -> Ratchets(Keys) \cup {NoContact}]
      /\ saved' \in [Peers -> Ratchets(Keys) \cup {NoContact}]
      /\ read' \in [Peers -> SUBSET (Peers \X Nat)] /\ forgot' \in [Peers -> SUBSET (Peers \X Nat)]
  BY <1>1, <1>2, <1>3 DEF Typed
<1>5. /\ ratchet'[p] = at.ratchet /\ saved'[p] = at.saved /\ read'[p] = at.read /\ forgot'[p] = at.forgot
      /\ \A q \in Peers \ {p} : /\ ratchet'[q] = ratchet[q] /\ saved'[q] = saved[q]
                                /\ read'[q] = read[q] /\ forgot'[q] = forgot[q]
  BY <1>1 DEF Typed
<1>6. At(p)' = at /\ \A q \in Peers \ {p} : At(q)' = At(q) BY <1>5 DEF At, PeerOK
<1>7. \A q \in Peers : Inbox(q)' = Inbox(q) /\ Names(q)' = Names(q) BY DEF Inbox, Names
<1>8. \A q \in Peers : PeerOK(q, At(q)', made[q], Names(q)) BY <1>6 DEF Typed
<1>9. \A q \in Peers : PeerOK(q, At(q), made[q], Names(q))' BY <1>7, <1>8
<1>10. \A q \in Peers : \A m \in Inbox(q)' : WrittenBy(Other(q), m)' BY <1>7 DEF Typed, WrittenBy
<1> QED BY <1>4, <1>9, <1>10 DEF Typed

Ats(names) == [ratchet : Ratchets(Keys) \cup {NoContact}, saved : Ratchets(Keys) \cup {NoContact},
               read : SUBSET names, forgot : SUBSET names]

LEMMA PeerIsAt ==
  ASSUME NEW p, NEW n, NEW names, NEW at, PeerOK(p, at, n, names)
  PROVE  at \in Ats(names)
<1>1. at.ratchet \in Ratchets(Keys) \cup {NoContact} /\ at.saved \in Ratchets(Keys) \cup {NoContact}
  BY DEF PeerOK, PeerRatchet, RatchetOK, RatchetSound
<1>2. /\ at = [ratchet |-> at.ratchet, saved |-> at.saved, read |-> at.read, forgot |-> at.forgot]
      /\ at.read \in SUBSET names /\ at.forgot \in SUBSET names
  BY DEF PeerOK
<1> QED BY <1>1, <1>2 DEF Ats

(* The state Login starts from: what is saved.                             *)
LEMMA LoginStart ==
  ASSUME NEW p \in Peers, NEW n, NEW names, NEW at, PeerOK(p, at, n, names),
         NEW st, st = [at EXCEPT !.ratchet = at.saved]
  PROVE  /\ PeerOK(p, st, n, names) /\ st.ratchet = at.saved /\ st.saved = at.saved
         /\ st.read = at.read /\ st.forgot = at.forgot
<1>1. PICK rt, svd, rd, fg : at = [ratchet |-> rt, saved |-> svd, read |-> rd, forgot |-> fg] BY DEF PeerOK
<1>2. rt = at.ratchet /\ svd = at.saved /\ rd = at.read /\ fg = at.forgot BY <1>1
<1>3. st = [ratchet |-> svd, saved |-> svd, read |-> rd, forgot |-> fg] BY <1>1, <1>2
<1>4. st.ratchet = svd /\ st.saved = svd /\ st.read = rd /\ st.forgot = fg BY <1>3
<1> QED BY <1>2, <1>3, <1>4 DEF PeerOK

LEMMA BoxIsInbox ==
  ASSUME Typed, NEW p \in Peers
  PROVE  box[p] \in Seq(Inbox(p)) /\ Inbox(p) \in SUBSET Messages
<1>1. box[p] \in Seq(Messages) BY DEF Typed
<1>2. \A i \in 1..Len(box[p]) : box[p][i] \in Inbox(p) BY DEF Inbox
<1>3. Inbox(p) \in SUBSET Messages BY <1>1 DEF Inbox
<1>4. PICK s : s = box[p] OBVIOUS
<1>5. PICK I : I = Inbox(p) OBVIOUS
<1>6. s \in Seq(I) BY ONLY <1>1, <1>2, <1>4, <1>5
<1> QED BY <1>3, <1>4, <1>5, <1>6

LEMMA FetchedOK ==
  ASSUME Typed, NEW p \in Peers, NEW at, PeerOK(p, at, made[p], Names(p)),
         NEW h, h = HandleAll(p, at, box[p])
  PROVE  PeerOK(p, h, made[p], Names(p))
<1>1. PICK n, names, inbox : n = made[p] /\ names = Names(p) /\ inbox = Inbox(p) OBVIOUS
<1>2. n \in Nat BY <1>1 DEF Typed
<1> DEFINE S == {a \in Ats(names) : PeerOK(p, a, n, names)}
<1>3. at \in S BY <1>1, PeerIsAt
<1>4. ASSUME NEW a \in S, NEW m \in inbox PROVE Handle(p, a, m) \in S
  <2>1. m \in Messages /\ m.pub[1] # p /\ m.name \in names BY <1>1, InboxTyped
  <2>2. PICK b : b = Handle(p, a, m) OBVIOUS
  <2>3. PeerOK(p, b, n, names) BY <1>2, <2>1, <2>2, HandleOK
  <2> QED BY <2>2, <2>3, PeerIsAt
<1> HIDE DEF S
<1>5. PICK ms : ms = box[p] OBVIOUS
<1>6. ms \in Seq(inbox) BY <1>1, <1>5, BoxIsInbox
<1>7. HandleAll(p, at, ms) \in S BY <1>3, <1>4, <1>6, FoldStays
<1> QED BY <1>1, <1>5, <1>7 DEF S

LEMMA AddContactTyped ==
  ASSUME Typed, NEW p \in Peers, AddContact(p)
  PROVE  Typed'
<1>1. PICK new : new = NewDHRatchet(Identity(p), Identity(Other(p)), "Sending") OBVIOUS
<1>2. PICK at : at = [ratchet |-> new, saved |-> new, read |-> read[p], forgot |-> forgot[p]] OBVIOUS
<1>3. made[p] \in Nat /\ PeerOK(p, At(p), made[p], Names(p)) BY DEF Typed
<1>4. PeerRatchet(p, new, made[p])
  <2>1. PICK n : n = made[p] OBVIOUS
  <2>2. PeerRatchet(p, new, n) BY <1>1, <1>3, <2>1, FirstRatchet DEF PeerRatchet
  <2> QED BY <2>1, <2>2
<1>5. new # NoContact
  <2>1. PICK n : n = made[p] OBVIOUS
  <2> QED BY <1>4, <2>1, RatchetIsContact
<1>6. at.ratchet = new /\ at.saved = new /\ at.read = read[p] /\ at.forgot = forgot[p] BY <1>2
<1>7. read[p] \in SUBSET Names(p) /\ forgot[p] \in SUBSET read[p] BY <1>3, AtFields DEF PeerOK
<1>8. PeerOK(p, at, made[p], Names(p)) BY <1>2, <1>4, <1>5, <1>6, <1>7 DEF PeerOK
<1>9. Becomes(p, at)
  <2>1. ratchet' = [ratchet EXCEPT ![p] = new] BY <1>1 DEF AddContact
  <2>2. ratchet'[p] = new BY <2>1 DEF Typed
  <2>3. saved' = [saved EXCEPT ![p] = new] BY <2>2 DEF AddContact
  <2>4. read' = [read EXCEPT ![p] = read[p]] /\ forgot' = [forgot EXCEPT ![p] = forgot[p]]
    BY DEF AddContact, Typed
  <2> QED BY <1>6, <2>1, <2>3, <2>4 DEF Becomes
<1>10. UNCHANGED <<made, sends, stuck, box, pushed, logins>> BY DEF AddContact
<1> QED BY <1>8, <1>9, <1>10, SideTyped DEF Typed

LEMMA PushTyped ==
  ASSUME Typed, NEW p \in Peers, ReceivePush(p) \/ MissPush(p)
  PROVE  Typed'
<1>1. /\ pushed[p] < Len(box[p]) /\ pushed' = [pushed EXCEPT ![p] = @ + 1]
      /\ UNCHANGED <<made, sends, stuck, box, logins>>
  BY DEF ReceivePush, MissPush
<1>2. pushed[p] \in Nat /\ Len(box[p]) \in Nat BY BoxIsInbox DEF Typed
<1>3. pushed' \in [Peers -> Nat] BY <1>1, <1>2 DEF Typed
<1>4. \A q \in Peers : pushed'[q] <= Len(box[q])
  <2>1. pushed'[p] = pushed[p] + 1 /\ \A q \in Peers \ {p} : pushed'[q] = pushed[q] BY <1>1 DEF Typed
  <2>2. pushed'[p] <= Len(box[p]) BY <1>1, <1>2, <2>1
  <2> QED BY <2>1, <2>2 DEF Typed
<1>5. PeerOK(p, At(p), made[p], Names(p)) BY DEF Typed
<1>6. CASE ReceivePush(p)
  <2>1. PICK m : m = box[p][pushed[p] + 1] OBVIOUS
  <2>2. m \in Inbox(p) BY <1>1, <1>2, <2>1 DEF Inbox
  <2>3. PICK h : h = Handle(p, At(p), m) OBVIOUS
  <2>4. PeerOK(p, h, made[p], Names(p))
    <3>1. PICK at, n, names : at = At(p) /\ n = made[p] /\ names = Names(p) OBVIOUS
    <3>2. n \in Nat /\ PeerOK(p, at, n, names) BY <1>5, <3>1 DEF Typed
    <3>3. m \in Messages /\ m.pub[1] # p /\ m.name \in names BY <2>2, <3>1, InboxTyped
    <3>4. PeerOK(p, h, n, names) BY <2>3, <3>1, <3>2, <3>3, HandleOK
    <3> QED BY <3>1, <3>4
  <2>5. Becomes(p, h) BY <1>6, <2>1, <2>3 DEF ReceivePush
  <2> QED BY <1>1, <1>3, <1>4, <2>4, <2>5, SideTyped DEF Typed
<1>7. CASE MissPush(p)
  <2>1. PICK at : at = At(p) OBVIOUS
  <2>2. Becomes(p, at) BY <1>7, <2>1 DEF MissPush, Becomes, At, Typed
  <2> QED BY <1>1, <1>3, <1>4, <1>5, <2>1, <2>2, SideTyped DEF Typed
<1> QED BY <1>6, <1>7

LEMMA LoginTyped ==
  ASSUME Typed, NEW p \in Peers, Login(p)
  PROVE  Typed'
<1>1. PICK at : at = At(p) OBVIOUS
<1>2. PICK st : st = [at EXCEPT !.ratchet = at.saved] OBVIOUS
<1>3. PICK h : h = HandleAll(p, st, box[p]) OBVIOUS
<1>4. PeerOK(p, st, made[p], Names(p))
  <2>1. PICK n, names : n = made[p] /\ names = Names(p) OBVIOUS
  <2>2. PeerOK(p, at, n, names) BY <1>1, <2>1 DEF Typed
  <2> QED BY <1>2, <2>1, <2>2, LoginStart
<1>5. PeerOK(p, h, made[p], Names(p)) BY <1>3, <1>4, FetchedOK
<1>6. Becomes(p, h)
  <2>1. st = [At(p) EXCEPT !.ratchet = saved[p]] BY <1>1, <1>2, AtFields
  <2> QED BY <1>3, <2>1 DEF Login, HandleAll
<1>7. UNCHANGED <<made, sends, box, pushed>> /\ stuck' \subseteq Peers /\ logins' \in [Peers -> 0..MaxLogins]
  <2>1. logins' = [logins EXCEPT ![p] = logins[p] + 1] /\ logins[p] < MaxLogins BY DEF Login
  <2>2. logins[p] + 1 \in 0..MaxLogins BY <2>1, BoundAssumption DEF Typed
  <2> QED BY <2>1, <2>2 DEF Login, Typed
<1> QED BY <1>5, <1>6, <1>7, SideTyped DEF Typed

LEMMA SeqAppends ==
  ASSUME NEW C, NEW s \in Seq(C), NEW x \in C, NEW t, t = Append(s, x)
  PROVE  /\ t \in Seq(C) /\ Len(t) = Len(s) + 1 /\ Len(s) \in Nat
         /\ {t[i] : i \in 1..Len(t)} = {s[i] : i \in 1..Len(s)} \cup {x}
<1>1. /\ t \in Seq(C) /\ Len(t) = Len(s) + 1 /\ Len(s) \in Nat /\ t[Len(s) + 1] = x
      /\ \A i \in 1..Len(s) : t[i] = s[i]
  OBVIOUS
<1>2. \A i \in 1..Len(t) : i \in 1..Len(s) \/ i = Len(s) + 1 BY <1>1
<1>3. \A i \in 1..Len(s) : i \in 1..Len(t) BY <1>1
<1>4. Len(s) + 1 \in 1..Len(t) BY <1>1
<1>5. \A i \in 1..Len(t) : t[i] \in {s[j] : j \in 1..Len(s)} \cup {x} BY <1>1, <1>2
<1>6. \A i \in 1..Len(s) : s[i] \in {t[j] : j \in 1..Len(t)} BY <1>1, <1>3
<1>7. x \in {t[j] : j \in 1..Len(t)} BY <1>1, <1>4
<1>8. {t[i] : i \in 1..Len(t)} \subseteq {s[i] : i \in 1..Len(s)} \cup {x} BY <1>5
<1>9. {s[i] : i \in 1..Len(s)} \cup {x} \subseteq {t[i] : i \in 1..Len(t)} BY <1>6, <1>7
<1> QED BY <1>1, <1>8, <1>9

(* The ratchet that SendMessage moves to, the message, and the key pairs    *)
(* generated then.                                                         *)
Writes(p, r, m, n2) ==
  /\ r = Draft(p).ratchet /\ m = Draft(p).message
  /\ made' = [made EXCEPT ![p] = n2] /\ n2 \in {made[p], made[p] + 1}
  /\ PeerRatchet(p, r, n2) /\ r.state = "Sending"
  /\ m = [name |-> <<p, sends[p] + 1>>, pub |-> r.keyPair, index |-> m.index,
          key |-> <<r.cur.root, m.index>>]
  /\ m.index \in Nat /\ r.cur.next = m.index + 1 /\ r.cur.root \in Seq(SUBSET Keys)
  /\ m.pub \in Known(p, n2) /\ m.pub[1] = p
  /\ Shape(p, r.cur.root, m.pub)
  /\ ratchet[p] # NoContact
  /\ IF ratchet[p].state = "Sending"
     THEN m.pub = ratchet[p].keyPair /\ r.cur.root = ratchet[p].cur.root /\ m.index = ratchet[p].cur.next
     ELSE m.pub = <<p, made[p] + 1>> /\ r.cur.root # Root0

LEMMA SendShape ==
  ASSUME Typed, NEW p \in Peers, SendMessage(p)
  PROVE  \E r, m, n2 : Writes(p, r, m, n2)
<1>1. PICK r0, n, n2, e : /\ r0 = ratchet[p] /\ n = made[p]
                          /\ n2 = IF r0.state = "Receiving" THEN n + 1 ELSE n
                          /\ e = Encrypt(r0, <<p, n + 1>>)
  OBVIOUS
<1>2. r0 # NoContact BY <1>1 DEF SendMessage, MayWrite
<1>3. n \in Nat /\ PeerRatchet(p, r0, n)
  <2>1. PeerOK(p, At(p), n, Names(p)) BY <1>1 DEF Typed
  <2>2. At(p).ratchet = r0 BY <1>1, AtFields
  <2> QED BY <1>1, <1>2, <2>1, <2>2 DEF PeerOK, Typed
<1>16. Encrypted(p, r0, n, n2, e)
  <2>1. RatchetOK(p, r0, n) /\ (r0.state = "Sending" => Shape(p, r0.cur.root, r0.keyPair))
    BY <1>3 DEF PeerRatchet
  <2> QED BY <1>1, <1>3, <2>1, Encrypts
<1>4. /\ RatchetOK(p, e.ratchet, n2) /\ e.ratchet.state = "Sending" /\ e.ratchet.keyPair = e.pub
      /\ e.pub \in Known(p, n2) /\ e.pub[1] = p
      /\ e.index \in Nat /\ e.ratchet.cur.next = e.index + 1
      /\ e.key = <<e.ratchet.cur.root, e.index>> /\ e.ratchet.cur.root \in Seq(SUBSET Keys)
      /\ Shape(p, e.ratchet.cur.root, e.pub)
      /\ IF r0.state = "Sending"
         THEN e.pub = r0.keyPair /\ e.ratchet.cur.root = r0.cur.root /\ e.index = r0.cur.next
         ELSE e.pub = <<p, n + 1>> /\ e.ratchet.cur.root # Root0
  BY <1>16 DEF Encrypted
<1>5. PICK m : m = [name |-> <<p, sends[p] + 1>>, pub |-> e.pub, index |-> e.index, key |-> e.key] OBVIOUS
<1>6. Draft(p).ratchet = e.ratchet /\ Draft(p).message = m BY <1>1, <1>5 DEF Draft, Fresh
<1>7. made' = [made EXCEPT ![p] = n2]
  <2>1. CASE r0.state = "Receiving" BY <1>1, <2>1 DEF SendMessage
  <2>2. CASE r0.state # "Receiving" BY <1>1, <2>2 DEF SendMessage, Typed
  <2> QED BY <2>1, <2>2
<1>8. n2 \in {made[p], made[p] + 1} BY <1>1
<1>9. m.index = e.index /\ m.pub = e.pub /\ m.key = e.key BY <1>5
<1>10. PICK r : r = e.ratchet OBVIOUS
<1>11. PeerRatchet(p, r, n2) /\ r.state = "Sending" BY <1>4, <1>10 DEF PeerRatchet
<1>12. m = [name |-> <<p, sends[p] + 1>>, pub |-> r.keyPair, index |-> m.index,
            key |-> <<r.cur.root, m.index>>]
  BY <1>4, <1>5, <1>9, <1>10
<1>13. /\ m.index \in Nat /\ r.cur.next = m.index + 1 /\ r.cur.root \in Seq(SUBSET Keys)
       /\ m.pub \in Known(p, n2) /\ m.pub[1] = p /\ Shape(p, r.cur.root, m.pub)
  BY <1>4, <1>9, <1>10
<1>14. IF ratchet[p].state = "Sending"
       THEN m.pub = ratchet[p].keyPair /\ r.cur.root = ratchet[p].cur.root /\ m.index = ratchet[p].cur.next
       ELSE m.pub = <<p, made[p] + 1>> /\ r.cur.root # Root0
  BY <1>1, <1>4, <1>9, <1>10
<1>15. r = Draft(p).ratchet /\ m = Draft(p).message /\ ratchet[p] # NoContact BY <1>1, <1>2, <1>6, <1>10
<1> QED BY <1>7, <1>8, <1>11, <1>12, <1>13, <1>14, <1>15 DEF Writes

LEMMA SendTyped ==
  ASSUME Typed, NEW p \in Peers, SendMessage(p)
  PROVE  Typed'
<1>0. PICK r, m, n2 : Writes(p, r, m, n2) BY SendShape
<1>1. /\ r = Draft(p).ratchet /\ m = Draft(p).message
      /\ made' = [made EXCEPT ![p] = n2] /\ n2 \in {made[p], made[p] + 1}
      /\ PeerRatchet(p, r, n2) /\ r.state = "Sending"
      /\ m = [name |-> <<p, sends[p] + 1>>, pub |-> r.keyPair, index |-> m.index,
              key |-> <<r.cur.root, m.index>>]
      /\ m.index \in Nat /\ r.cur.next = m.index + 1 /\ r.cur.root \in Seq(SUBSET Keys)
      /\ m.pub \in Known(p, n2) /\ m.pub[1] = p
      /\ Shape(p, r.cur.root, m.pub)
      /\ ratchet[p] # NoContact
  BY <1>0 DEF Writes
<1>2. PICK q : q = Other(p) OBVIOUS
<1>3. q \in Peers /\ q # p /\ Other(q) = p /\ \A x \in Peers : x = p \/ x = q BY <1>2, TwoPeers
<1>4. /\ ratchet' = [ratchet EXCEPT ![p] = r]
      /\ saved' = [saved EXCEPT ![p] = r] \/ UNCHANGED saved
      /\ box' = [box EXCEPT ![q] = Append(box[q], m)] \/ UNCHANGED box
      /\ stuck' \in {stuck \ {p}, stuck \cup {p}}
      /\ sends' = [sends EXCEPT ![p] = sends[p] + 1] /\ sends[p] < MaxSends
      /\ UNCHANGED <<pushed, read, forgot, logins>>
  BY <1>1, <1>2 DEF SendMessage
<1>5. made[p] \in Nat /\ sends[p] \in Nat /\ sends[p] + 1 \in 0..MaxSends /\ n2 \in Nat
  <2>1. made[p] \in Nat /\ sends[p] \in 0..MaxSends BY DEF Typed
  <2>2. sends[p] < MaxSends BY <1>4
  <2>3. n2 \in {made[p], made[p] + 1} BY <1>1
  <2>4. sends[p] \in Nat /\ sends[p] + 1 \in 0..MaxSends BY <2>1, <2>2, BoundAssumption
  <2> QED BY <2>1, <2>3, <2>4
<1>6. r \in Ratchets(Keys) /\ r # NoContact
  BY <1>1, RatchetIsContact DEF PeerRatchet, RatchetOK, RatchetSound
<1>7. m \in Messages
  <2>1. <<p, sends[p] + 1>> \in Peers \X Nat BY <1>5
  <2>2. r.keyPair \in Keys BY <1>6, RatchetShape
  <2>3. <<r.cur.root, m.index>> \in Seq(SUBSET Keys) \X Nat BY <1>1
  <2> QED BY <1>1, <2>1, <2>2, <2>3 DEF Messages
<1>8. /\ ratchet' \in [Peers -> Ratchets(Keys) \cup {NoContact}]
      /\ saved' \in [Peers -> Ratchets(Keys) \cup {NoContact}]
      /\ made' \in [Peers -> Nat] /\ sends' \in [Peers -> 0..MaxSends]
      /\ stuck' \subseteq Peers /\ logins' \in [Peers -> 0..MaxLogins]
      /\ pushed' \in [Peers -> Nat] /\ read' \in [Peers -> SUBSET (Peers \X Nat)]
      /\ forgot' \in [Peers -> SUBSET (Peers \X Nat)]
  BY <1>1, <1>4, <1>5, <1>6 DEF Typed
<1>9. /\ box' \in [Peers -> Seq(Messages)]
      /\ Inbox(q) \subseteq Inbox(q)' /\ Inbox(q)' \subseteq Inbox(q) \cup {m} /\ Inbox(p)' = Inbox(p)
      /\ \A x \in Peers : pushed'[x] <= Len(box'[x])
  <2>0. box[q] \in Seq(Messages) /\ \A x \in Peers : pushed[x] \in Nat /\ pushed[x] <= Len(box[x])
    BY <1>3 DEF Typed
  <2>1. CASE UNCHANGED box BY <1>4, <2>0, <2>1 DEF Inbox, Typed
  <2>2. CASE box' = [box EXCEPT ![q] = Append(box[q], m)]
    <3>1. PICK s, t : s = box[q] /\ t = Append(s, m) OBVIOUS
    <3>2. /\ t \in Seq(Messages) /\ Len(t) = Len(s) + 1 /\ Len(s) \in Nat
          /\ {t[i] : i \in 1..Len(t)} = {s[i] : i \in 1..Len(s)} \cup {m}
      BY <1>7, <2>0, <3>1, SeqAppends
    <3>3. box' = [box EXCEPT ![q] = t] BY <2>2, <3>1
    <3>4. box'[q] = t /\ box'[p] = box[p] BY <1>3, <3>3 DEF Typed
    <3>5. Inbox(q)' = Inbox(q) \cup {m} BY <3>1, <3>2, <3>4 DEF Inbox
    <3>6. Inbox(p)' = Inbox(p) BY <3>4 DEF Inbox
    <3>7. pushed[q] <= Len(t) BY <1>3, <2>0, <3>1, <3>2
    <3>8. \A x \in Peers : pushed'[x] <= Len(box'[x]) BY <1>3, <1>4, <2>0, <3>4, <3>7
    <3>9. box' \in [Peers -> Seq(Messages)] BY <3>2, <3>3 DEF Typed
    <3> QED BY <3>5, <3>6, <3>8, <3>9
  <2> QED BY <1>4, <2>1, <2>2
<1>10. made'[p] = n2 /\ made'[q] = made[q] /\ sends'[p] = sends[p] + 1 /\ sends'[q] = sends[q]
  BY <1>1, <1>3, <1>4 DEF Typed
<1>11. At(q)' = At(q) /\ At(p)'.ratchet = r /\ At(p)'.saved \in {r, saved[p]} /\ At(p)'.read = read[p]
       /\ At(p)'.forgot = forgot[p]
       /\ At(p)' = [ratchet |-> At(p)'.ratchet, saved |-> At(p)'.saved, read |-> At(p)'.read,
                    forgot |-> At(p)'.forgot]
  BY <1>3, <1>4 DEF At, Typed
<1>12. PeerOK(p, At(p), made[p], Names(p))'
  <2>1. PICK at, n : at = At(p) /\ n = made[p] OBVIOUS
  <2>2. PeerOK(p, at, n, Names(p)) /\ n \in Nat BY <2>1 DEF Typed
  <2>3. at.ratchet # NoContact /\ at.saved = saved[p] /\ at.read = read[p] /\ at.forgot = forgot[p]
    BY <1>1, <2>1, AtFields
  <2>4. PeerRatchet(p, at.saved, n) /\ at.saved # NoContact /\ at.read \in SUBSET Names(p)
        /\ at.forgot \in SUBSET at.read
    BY <2>2, <2>3 DEF PeerOK
  <2>5. PeerRatchet(p, at.saved, n2)
    <3>1. PeerRatchet(p, at.saved, n + 1) BY <2>2, <2>4, KnownMore DEF PeerRatchet
    <3> QED BY <1>1, <2>1, <2>4, <3>1
  <2>6. PICK new : new = At(p)' OBVIOUS
  <2>7. new.ratchet = r /\ new.saved \in {r, at.saved} /\ new.read = at.read /\ new.forgot = at.forgot
        /\ new = [ratchet |-> new.ratchet, saved |-> new.saved, read |-> new.read, forgot |-> new.forgot]
    BY <1>11, <2>3, <2>6
  <2>8. PeerOK(p, new, n2, Names(p)) BY <1>1, <1>6, <2>4, <2>5, <2>7 DEF PeerOK
  <2>9. Names(p)' = Names(p) BY <1>9 DEF Names
  <2> QED BY <1>10, <2>6, <2>8, <2>9
<1>13. PeerOK(q, At(q), made[q], Names(q))'
  <2>1. PeerOK(q, At(q), made[q], Names(q)) BY <1>3 DEF Typed
  <2>2. Names(q) \subseteq Names(q)' BY <1>9 DEF Names
  <2>3. PeerOK(q, At(q), made[q], Names(q)') BY <2>1, <2>2 DEF PeerOK
  <2> QED BY <1>10, <1>11, <2>3
<1>14. ASSUME NEW a \in Inbox(p)' PROVE WrittenBy(q, a)'
  <2>1. WrittenBy(q, a) BY <1>2, <1>9, <1>14 DEF Typed
  <2> QED BY <1>10, <2>1 DEF WrittenBy
<1>15. ASSUME NEW a \in Inbox(q)' PROVE WrittenBy(p, a)'
  <2>1. CASE a \in Inbox(q)
    <3>1. WrittenBy(p, a) BY <1>3, <2>1 DEF Typed
    <3>2. a.name \in {p} \X (1..(sends[p] + 1)) BY <1>5, <3>1 DEF WrittenBy
    <3>3. a.pub \in Known(p, n2) BY <1>1, <1>5, <3>1 DEF WrittenBy, Known, Keys
    <3> QED BY <1>10, <3>1, <3>2, <3>3 DEF WrittenBy
  <2>2. CASE a = m
    <3>1. m.name = <<p, sends[p] + 1>> /\ m.key = <<r.cur.root, m.index>> BY <1>1
    <3>2. m.name \in {p} \X (1..(sends[p] + 1)) BY <1>5, <3>1
    <3>3. m.key[2] = m.index /\ m.key[1] = r.cur.root BY <3>1
    <3> QED BY <1>1, <1>10, <2>2, <3>2, <3>3 DEF WrittenBy
  <2> QED BY <1>9, <1>15, <2>1, <2>2
<1>16. \A x \in Peers : PeerOK(x, At(x), made[x], Names(x))' BY <1>3, <1>12, <1>13
<1>17. \A x \in Peers : \A a \in Inbox(x)' : WrittenBy(Other(x), a)' BY <1>2, <1>3, <1>14, <1>15
<1> QED BY <1>8, <1>9, <1>16, <1>17 DEF Typed

LEMMA UnchangedTyped == Typed /\ UNCHANGED vars => Typed'
<1> SUFFICES ASSUME Typed, UNCHANGED vars PROVE Typed' OBVIOUS
<1>1. UNCHANGED <<ratchet, saved, made, sends, stuck, box, pushed, read, forgot, logins>> BY DEF vars
<1>2. \A p \in Peers : At(p)' = At(p) /\ Inbox(p)' = Inbox(p) /\ Names(p)' = Names(p)
  BY <1>1 DEF At, Inbox, Names
<1>3. \A p \in Peers : PeerOK(p, At(p), made[p], Names(p))' BY <1>1, <1>2 DEF Typed
<1>4. \A p \in Peers : \A m \in Inbox(p)' : WrittenBy(Other(p), m)' BY <1>1, <1>2 DEF Typed, WrittenBy
<1> QED BY <1>1, <1>3, <1>4 DEF Typed

(* Every variable keeps to its type, and what a ratchet and a message are  *)
(* made of is known to those that made them.                               *)
THEOREM TypesHold == Spec => []Typed
<1>1. ASSUME Typed, Next PROVE Typed'
  BY <1>1, AddContactTyped, SendTyped, PushTyped, LoginTyped DEF Next
<1> QED BY <1>1, InitTyped, UnchangedTyped, PTL DEF Spec

(* The variables keep their types: chains and ratchets are whole, a saved  *)
(* ratchet is that of a known contact, and only what was written is read.  *)
THEOREM TypeCorrect == Spec => []TypeOK
<1>1. ASSUME Typed PROVE TypeOK
  <2>1. ASSUME NEW p \in Peers, ratchet[p] # NoContact
        PROVE  /\ ratchet[p] \in Ratchets(Keys)
               /\ ratchet[p].index = Len(ratchet[p].cur.root) - 1
               /\ Len(ratchet[p].prev) <= PrevLimit
               /\ \A i \in ratchet[p].cur.skipped : i < ratchet[p].cur.next
    <3>1. PeerRatchet(p, ratchet[p], made[p]) BY <1>1, <2>1, AtFields DEF Typed, PeerOK
    <3> QED BY <3>1 DEF PeerRatchet, RatchetOK, RatchetSound, ChainOK
  <2>2. ASSUME NEW p \in Peers, saved[p] # NoContact PROVE ratchet[p] # NoContact
    BY <1>1, <2>2, AtFields DEF Typed, PeerOK
  <2>3. ASSUME NEW p \in Peers PROVE pushed[p] \in 0..Len(box[p])
    <3>1. pushed[p] \in Nat /\ pushed[p] <= Len(box[p]) /\ box[p] \in Seq(Messages) BY <1>1 DEF Typed
    <3>2. Len(box[p]) \in Nat BY <3>1
    <3> QED BY <3>1, <3>2
  <2>4. ASSUME NEW p \in Peers PROVE read[p] \subseteq {Other(p)} \X (1..MaxSends) /\ forgot[p] \subseteq read[p]
    <3>1. read[p] \subseteq Names(p) /\ forgot[p] \subseteq read[p] BY <1>1, AtFields DEF Typed, PeerOK
    <3>2. sends[Other(p)] \in 0..MaxSends BY <1>1, TwoPeers DEF Typed
    <3>3. 1..sends[Other(p)] \subseteq 1..MaxSends BY <3>2, BoundAssumption
    <3>4. \A m \in Inbox(p) : m.name \in {Other(p)} \X (1..sends[Other(p)]) BY <1>1 DEF Typed, WrittenBy
    <3> QED BY <3>1, <3>3, <3>4 DEF Names
  <2> QED BY <1>1, <2>1, <2>2, <2>3, <2>4 DEF TypeOK, Typed
<1> QED BY <1>1, TypesHold, PTL

-----------------------------------------------------------------------------
(* The message keys.  With the ratchet in memory and with the saved one a   *)
(* peer is past all it has written, so that the next key is a new one.     *)

KeyInv ==
  /\ \A p \in Peers : PeerPassed(At(p), Inbox(Other(p)), Inbox(p))
  /\ \A p \in Peers : \A a, b \in Inbox(p) : a.name = b.name => a = b
  /\ KeysAreFresh

LEMMA StoredIsBoxed == Stored = UNION {Inbox(p) : p \in Peers}
BY DEF Stored, Inbox

(* A root other than the first tells the key pair that made it.            *)
LEMMA ShapeTells ==
  ASSUME NEW p, NEW q, NEW root, NEW x, NEW y, Shape(p, root, x), Shape(q, root, y), root # Root0
  PROVE  x = y
<1>1. /\ Len(root) > 1 /\ root \in Seq(SUBSET Keys)
      /\ \E f \in root[Len(root) - 1] : root[Len(root)] = {x, f}
      /\ \E f \in root[Len(root) - 1] : root[Len(root)] = {y, f}
      /\ \A j \in 1..(Len(root) - 1) : x \notin root[j] /\ y \notin root[j]
  BY DEF Shape, Secret
<1>2. Len(root) - 1 \in 1..(Len(root) - 1) BY <1>1
<1>3. x \notin root[Len(root) - 1] /\ y \notin root[Len(root) - 1] BY <1>1, <1>2
<1> QED BY <1>1, <1>3

LEMMA InitKeys == Init => KeyInv
<1> SUFFICES ASSUME Init PROVE KeyInv OBVIOUS
<1>1. \A p \in Peers : Len(box[p]) = 0 BY DEF Init
<1>2. \A p \in Peers : Inbox(p) = {} BY <1>1 DEF Inbox
<1>3. \A p \in Peers : At(p).ratchet = NoContact BY DEF Init, At
<1>4. \A p \in Peers : PeerPassed(At(p), Inbox(Other(p)), Inbox(p))
  BY <1>2, <1>3, TwoPeers DEF PeerPassed
<1>5. KeysAreFresh BY <1>2, StoredIsBoxed DEF KeysAreFresh
<1> QED BY <1>2, <1>4, <1>5 DEF KeyInv

LEMMA SideKeys ==
  ASSUME Typed, KeyInv, NEW p \in Peers, NEW at, Becomes(p, at), PeerOK(p, at, made[p], Names(p)),
         PeerPassed(at, Inbox(Other(p)), Inbox(p)), UNCHANGED box
  PROVE  KeyInv'
<1>1. /\ ratchet'[p] = at.ratchet /\ saved'[p] = at.saved /\ read'[p] = at.read /\ forgot'[p] = at.forgot
      /\ \A q \in Peers \ {p} : /\ ratchet'[q] = ratchet[q] /\ saved'[q] = saved[q]
                                /\ read'[q] = read[q] /\ forgot'[q] = forgot[q]
  BY DEF Typed, Becomes
<1>2. At(p)' = at /\ \A q \in Peers \ {p} : At(q)' = At(q) BY <1>1 DEF At, PeerOK
<1>3. \A q \in Peers : Inbox(q)' = Inbox(q) BY DEF Inbox
<1>4. \A q \in Peers : PeerPassed(At(q)', Inbox(Other(q)), Inbox(q)) BY <1>2 DEF KeyInv
<1>5. \A q \in Peers : PeerPassed(At(q), Inbox(Other(q)), Inbox(q))' BY <1>3, <1>4, TwoPeers
<1>6. KeysAreFresh' BY DEF KeyInv, KeysAreFresh, Stored
<1> QED BY <1>3, <1>5, <1>6 DEF KeyInv

LEMMA FetchedKeys ==
  ASSUME Typed, KeyInv, NEW p \in Peers, NEW at, PeerOK(p, at, made[p], Names(p)),
         PeerPassed(at, Inbox(Other(p)), Inbox(p)), NEW h, h = HandleAll(p, at, box[p])
  PROVE  PeerPassed(h, Inbox(Other(p)), Inbox(p))
<1>1. PICK n, names, inbox, sent : n = made[p] /\ names = Names(p) /\ inbox = Inbox(p) /\ sent = Inbox(Other(p))
  OBVIOUS
<1>2. n \in Nat /\ inbox \in SUBSET Messages /\ sent \in SUBSET Messages
      /\ \A a, b \in inbox : a.name = b.name => a = b
  BY <1>1, BoxIsInbox, TwoPeers DEF Typed, KeyInv
<1> DEFINE S == {a \in Ats(names) : PeerOK(p, a, n, names) /\ PeerPassed(a, sent, inbox)}
<1>3. at \in S BY <1>1, PeerIsAt
<1>4. ASSUME NEW a \in S, NEW m \in inbox PROVE Handle(p, a, m) \in S
  <2>1. m \in Messages /\ m.pub[1] # p /\ m.name \in names BY <1>1, InboxTyped
  <2>2. PICK b : b = Handle(p, a, m) OBVIOUS
  <2>3. PeerOK(p, b, n, names) BY <1>2, <2>1, <2>2, HandleOK
  <2>4. a.ratchet # NoContact \/ sent = {} BY DEF PeerPassed
  <2>5. PeerPassed(b, sent, inbox) BY <1>2, <2>1, <2>2, <2>4, HandlePassed
  <2> QED BY <2>2, <2>3, <2>5, PeerIsAt
<1> HIDE DEF S
<1>5. PICK ms : ms = box[p] OBVIOUS
<1>6. ms \in Seq(inbox) BY <1>1, <1>5, BoxIsInbox
<1>7. HandleAll(p, at, ms) \in S BY <1>3, <1>4, <1>6, FoldStays
<1> QED BY <1>1, <1>5, <1>7 DEF S

LEMMA AddContactKeys ==
  ASSUME Typed, KeyInv, NEW p \in Peers, AddContact(p)
  PROVE  KeyInv'
<1>1. PICK new : new = NewDHRatchet(Identity(p), Identity(Other(p)), "Sending") OBVIOUS
<1>2. PICK at : at = [ratchet |-> new, saved |-> new, read |-> read[p], forgot |-> forgot[p]] OBVIOUS
<1>3. PICK n, names : n = made[p] /\ names = Names(p) OBVIOUS
<1>4. n \in Nat /\ PeerOK(p, At(p), n, names) BY <1>3 DEF Typed
<1>5. PeerRatchet(p, new, n) /\ new.cur.root = Root0 /\ new.cur.next = 0
  BY <1>1, <1>4, FirstRatchet DEF PeerRatchet
<1>6. new # NoContact BY <1>5, RatchetIsContact
<1>7. at.ratchet = new /\ at.saved = new /\ at.read = read[p] /\ at.forgot = forgot[p] BY <1>2
<1>8. read[p] = {} /\ forgot[p] \in SUBSET read[p] /\ ratchet[p] = NoContact BY <1>4, AtFields DEF PeerOK, AddContact
<1>9. PeerOK(p, at, n, names) BY <1>2, <1>5, <1>6, <1>7, <1>8 DEF PeerOK
<1>10. Inbox(Other(p)) = {} BY <1>8, AtFields DEF KeyInv, PeerPassed
<1>11. Passed(new, Inbox(Other(p)), Inbox(p), {}) BY <1>10 DEF Passed
<1>12. PeerPassed(at, Inbox(Other(p)), Inbox(p)) BY <1>6, <1>7, <1>8, <1>11 DEF PeerPassed
<1>13. Becomes(p, at)
  <2>1. ratchet' = [ratchet EXCEPT ![p] = new] BY <1>1 DEF AddContact
  <2>2. ratchet'[p] = new BY <2>1 DEF Typed
  <2>3. saved' = [saved EXCEPT ![p] = new] BY <2>2 DEF AddContact
  <2>4. read' = [read EXCEPT ![p] = read[p]] /\ forgot' = [forgot EXCEPT ![p] = forgot[p]]
    BY DEF AddContact, Typed
  <2> QED BY <1>7, <2>1, <2>3, <2>4 DEF Becomes
<1>14. UNCHANGED box BY DEF AddContact
<1> QED BY <1>3, <1>9, <1>12, <1>13, <1>14, SideKeys

LEMMA PushKeys ==
  ASSUME Typed, KeyInv, NEW p \in Peers, ReceivePush(p)
  PROVE  KeyInv'
<1>1. PICK m, at, h : m = box[p][pushed[p] + 1] /\ at = At(p) /\ h = Handle(p, at, m) OBVIOUS
<1>2. pushed[p] < Len(box[p]) /\ Becomes(p, h) /\ UNCHANGED box BY <1>1 DEF ReceivePush
<1>3. pushed[p] \in Nat /\ Len(box[p]) \in Nat BY BoxIsInbox DEF Typed
<1>4. m \in Inbox(p) BY <1>1, <1>2, <1>3 DEF Inbox
<1>5. PICK n, names, inbox, sent : n = made[p] /\ names = Names(p) /\ inbox = Inbox(p) /\ sent = Inbox(Other(p))
  OBVIOUS
<1>6. n \in Nat /\ inbox \in SUBSET Messages /\ sent \in SUBSET Messages
      /\ \A a, b \in inbox : a.name = b.name => a = b
  BY <1>5, BoxIsInbox, TwoPeers DEF Typed, KeyInv
<1>7. PeerOK(p, at, n, names) /\ PeerPassed(at, sent, inbox) BY <1>1, <1>5 DEF Typed, KeyInv
<1>8. m \in Messages /\ m.pub[1] # p /\ m.name \in names /\ m \in inbox BY <1>4, <1>5, InboxTyped
<1>9. PeerOK(p, h, n, names) BY <1>1, <1>6, <1>7, <1>8, HandleOK
<1>10. at.ratchet # NoContact \/ sent = {} BY <1>7 DEF PeerPassed
<1>11. PeerPassed(h, sent, inbox) BY <1>1, <1>6, <1>7, <1>8, <1>10, HandlePassed
<1> QED BY <1>2, <1>5, <1>9, <1>11, SideKeys

LEMMA LoginKeys ==
  ASSUME Typed, KeyInv, NEW p \in Peers, Login(p)
  PROVE  KeyInv'
<1>1. PICK at : at = At(p) OBVIOUS
<1>2. PICK st : st = [at EXCEPT !.ratchet = at.saved] OBVIOUS
<1>3. PICK h : h = HandleAll(p, st, box[p]) OBVIOUS
<1>4. PeerOK(p, at, made[p], Names(p)) /\ PeerPassed(at, Inbox(Other(p)), Inbox(p))
  BY <1>1 DEF Typed, KeyInv
<1>5. /\ PeerOK(p, st, made[p], Names(p))
      /\ st.ratchet = at.saved /\ st.saved = at.saved /\ st.read = at.read
  <2>1. PICK n, names : n = made[p] /\ names = Names(p) OBVIOUS
  <2>2. PeerOK(p, at, n, names) BY <1>4, <2>1
  <2> QED BY <1>2, <2>1, <2>2, LoginStart
<1>6. PeerPassed(st, Inbox(Other(p)), Inbox(p)) BY <1>4, <1>5 DEF PeerPassed, PeerOK
<1>7. PeerPassed(h, Inbox(Other(p)), Inbox(p)) BY <1>3, <1>5, <1>6, FetchedKeys
<1>8. PeerOK(p, h, made[p], Names(p)) BY <1>3, <1>5, FetchedOK
<1>9. Becomes(p, h)
  <2>1. st = [At(p) EXCEPT !.ratchet = saved[p]] BY <1>1, <1>2, AtFields
  <2> QED BY <1>3, <2>1 DEF Login, HandleAll
<1>10. UNCHANGED box BY DEF Login
<1> QED BY <1>7, <1>8, <1>9, <1>10, SideKeys

LEMMA QuietKeys ==
  ASSUME KeyInv, UNCHANGED <<ratchet, saved, box, read, forgot>>
  PROVE  KeyInv'
<1>1. \A p \in Peers : At(p)' = At(p) /\ Inbox(p)' = Inbox(p) BY DEF At, Inbox
<1>2. \A p \in Peers : PeerPassed(At(p), Inbox(Other(p)), Inbox(p))' BY <1>1, TwoPeers DEF KeyInv
<1>3. KeysAreFresh' BY DEF KeyInv, KeysAreFresh, Stored
<1> QED BY <1>1, <1>2, <1>3 DEF KeyInv

(* The key of the message p writes has not been used.                      *)
LEMMA DraftIsFresh ==
  ASSUME Typed, KeyInv, TurnTaking, NEW p \in Peers, SendMessage(p),
         NEW m, m = Draft(p).message, NEW a \in Stored
  PROVE  a.key # m.key
<1> SUFFICES ASSUME a.key = m.key PROVE FALSE OBVIOUS
<1>0. PICK r, m1, n2 : Writes(p, r, m1, n2) BY SendShape
<1>1. /\ r = Draft(p).ratchet /\ m1 = Draft(p).message
      /\ made' = [made EXCEPT ![p] = n2] /\ n2 \in {made[p], made[p] + 1}
      /\ PeerRatchet(p, r, n2) /\ r.state = "Sending"
      /\ m1 = [name |-> <<p, sends[p] + 1>>, pub |-> r.keyPair, index |-> m1.index,
               key |-> <<r.cur.root, m1.index>>]
      /\ m1.index \in Nat /\ r.cur.next = m1.index + 1 /\ r.cur.root \in Seq(SUBSET Keys)
      /\ m1.pub \in Known(p, n2) /\ m1.pub[1] = p
      /\ Shape(p, r.cur.root, m1.pub)
      /\ ratchet[p] # NoContact
      /\ IF ratchet[p].state = "Sending"
         THEN m1.pub = ratchet[p].keyPair /\ r.cur.root = ratchet[p].cur.root /\ m1.index = ratchet[p].cur.next
         ELSE m1.pub = <<p, made[p] + 1>> /\ r.cur.root # Root0
  BY <1>0 DEF Writes
<1>2. m1 = m BY <1>1
<1>3. m.key = <<r.cur.root, m.index>> BY <1>1, <1>2
<1>4. PICK q \in Peers : a \in Inbox(q) BY StoredIsBoxed
<1>5. WrittenBy(Other(q), a) /\ a \in Messages /\ Other(q) \in Peers BY <1>4, InboxTyped, TwoPeers
<1>6. a.key[1] = r.cur.root /\ a.index = m.index BY <1>3, <1>5 DEF WrittenBy
<1>7. Shape(Other(q), r.cur.root, a.pub) /\ a.pub[1] = Other(q) /\ a.pub \in Known(Other(q), made[Other(q)])
  BY <1>5, <1>6 DEF WrittenBy
<1>8. m.index \in Nat /\ m.pub[1] = p /\ Shape(p, r.cur.root, m.pub) BY <1>1, <1>2
<1>9. Passed(ratchet[p], Inbox(Other(p)), Inbox(p), read[p]) BY <1>1, AtFields DEF KeyInv, PeerPassed
<1>10. CASE q = Other(p)
  <2>1. Other(q) = p BY <1>10, TwoPeers
  <2>2. a.pub = m.pub
    <3>1. CASE r.cur.root # Root0 BY <1>7, <1>8, <2>1, <3>1, ShapeTells
    <3>2. CASE r.cur.root = Root0
      <4>1. Len(r.cur.root) = 1 BY <3>2 DEF Root0
      <4> QED BY <1>7, <1>8, <2>1, <4>1 DEF Shape
    <3> QED BY <3>1, <3>2
  <2>3. CASE ratchet[p].state = "Sending"
    <3>1. m.pub = ratchet[p].keyPair /\ m.index = ratchet[p].cur.next BY <1>1, <1>2, <2>3
    <3>2. a.index < ratchet[p].cur.next BY <1>4, <1>9, <1>10, <2>2, <2>3, <3>1 DEF Passed
    <3> QED BY <1>6, <1>8, <3>1, <3>2
  <2>4. CASE ratchet[p].state # "Sending"
    <3>1. m.pub = <<p, made[p] + 1>> BY <1>1, <1>2, <2>4
    <3>2. <<p, made[p] + 1>> \notin Known(p, made[p]) BY DEF Known, Typed
    <3> QED BY <1>7, <2>1, <2>2, <3>1, <3>2
  <2> QED BY <2>3, <2>4
<1>11. CASE q = p
  <2>1. Other(q) # p BY <1>11, TwoPeers
  <2>2. a.pub # m.pub BY <1>7, <1>8, <2>1
  <2>3. r.cur.root = Root0 BY <1>7, <1>8, <2>2, ShapeTells
  <2>4. ratchet[p].cur.root = Root0 /\ m.index = ratchet[p].cur.next BY <1>1, <1>2, <2>3
  <2>5. a.name \in read[p]
    <3>1. StoredFor(p) \subseteq read[p] BY DEF SendMessage, MayWrite, CaughtUp
    <3>2. a.name \in StoredFor(p) BY <1>4, <1>11 DEF StoredFor, Inbox
    <3> QED BY <3>1, <3>2
  <2>6. a.index < ratchet[p].cur.next BY <1>4, <1>6, <1>9, <1>11, <2>3, <2>4, <2>5 DEF Passed
  <2> QED BY <1>6, <1>8, <2>4, <2>6
<1> QED BY <1>10, <1>11, TwoPeers

(* The ratchet p has moved to is past the message it has written.          *)
LEMMA DraftPasses ==
  ASSUME Typed, KeyInv, NEW p \in Peers, SendMessage(p),
         NEW r, r = Draft(p).ratchet, NEW m, m = Draft(p).message
  PROVE  /\ Passed(r, Inbox(Other(p)) \cup {m}, Inbox(p), read[p])
         /\ r # NoContact /\ m.name = <<p, sends[p] + 1>>
<1>0. PICK r1, m1, n2 : Writes(p, r1, m1, n2) BY SendShape
<1>1. /\ r1 = Draft(p).ratchet /\ m1 = Draft(p).message
      /\ made' = [made EXCEPT ![p] = n2] /\ n2 \in {made[p], made[p] + 1}
      /\ PeerRatchet(p, r1, n2) /\ r1.state = "Sending"
      /\ m1 = [name |-> <<p, sends[p] + 1>>, pub |-> r1.keyPair, index |-> m1.index,
               key |-> <<r1.cur.root, m1.index>>]
      /\ m1.index \in Nat /\ r1.cur.next = m1.index + 1 /\ r1.cur.root \in Seq(SUBSET Keys)
      /\ m1.pub \in Known(p, n2) /\ m1.pub[1] = p
      /\ Shape(p, r1.cur.root, m1.pub)
      /\ ratchet[p] # NoContact
      /\ IF ratchet[p].state = "Sending"
         THEN m1.pub = ratchet[p].keyPair /\ r1.cur.root = ratchet[p].cur.root /\ m1.index = ratchet[p].cur.next
         ELSE m1.pub = <<p, made[p] + 1>> /\ r1.cur.root # Root0
  BY <1>0 DEF Writes
<1>2. r1 = r /\ m1 = m BY <1>1
<1>3. m.pub = r.keyPair /\ m.key[1] = r.cur.root /\ m.name = <<p, sends[p] + 1>>
      /\ m.index \in Nat /\ m.index < r.cur.next /\ r.cur.next = m.index + 1
  BY <1>1, <1>2
<1>4. Passed(ratchet[p], Inbox(Other(p)), Inbox(p), read[p]) BY <1>1, AtFields DEF KeyInv, PeerPassed
<1>5. \A q \in Peers : \A a \in Inbox(q) : a.index \in Nat BY InboxTyped DEF Messages
<1>6. ASSUME NEW a \in Inbox(Other(p)), a.pub = r.keyPair
      PROVE  a.key[1] = r.cur.root /\ a.index < r.cur.next
  <2>1. a.pub = m.pub BY <1>3, <1>6
  <2>2. CASE ratchet[p].state = "Sending"
    <3>1. m.pub = ratchet[p].keyPair /\ r.cur.root = ratchet[p].cur.root /\ m.index = ratchet[p].cur.next
      BY <1>1, <1>2, <2>2
    <3>2. a.key[1] = ratchet[p].cur.root /\ a.index < ratchet[p].cur.next BY <1>4, <2>1, <2>2, <3>1 DEF Passed
    <3>3. a.index \in Nat BY <1>5, TwoPeers
    <3> QED BY <1>3, <3>1, <3>2, <3>3
  <2>3. CASE ratchet[p].state # "Sending"
    <3>1. m.pub = <<p, made[p] + 1>> BY <1>1, <1>2, <2>3
    <3>2. <<p, made[p] + 1>> \notin Known(p, made[p]) BY DEF Known, Typed
    <3>3. Other(p) \in Peers /\ Other(Other(p)) = p BY TwoPeers
    <3>4. WrittenBy(p, a) BY <3>3, InboxTyped
    <3> QED BY <2>1, <3>1, <3>2, <3>4 DEF WrittenBy
  <2> QED BY <2>2, <2>3
<1>7. ASSUME r.cur.root = Root0, NEW a \in Inbox(p), a.key[1] = Root0, a.name \in read[p]
      PROVE  a.index < r.cur.next
  <2>1. ratchet[p].cur.root = Root0 /\ m.index = ratchet[p].cur.next BY <1>1, <1>2, <1>7
  <2>2. a.index < ratchet[p].cur.next BY <1>4, <1>7, <2>1 DEF Passed
  <2> QED BY <1>3, <1>5, <2>1, <2>2
<1>8. Passed(r, Inbox(Other(p)) \cup {m}, Inbox(p), read[p]) BY <1>3, <1>6, <1>7 DEF Passed
<1>9. r # NoContact BY <1>1, <1>2, RatchetIsContact
<1> QED BY <1>3, <1>8, <1>9

LEMMA SendKeys ==
  ASSUME Typed, KeyInv, TurnTaking, AcksArrive, NEW p \in Peers, SendMessage(p)
  PROVE  KeyInv'
<1>1. PICK r, m, q : r = Draft(p).ratchet /\ m = Draft(p).message /\ q = Other(p) OBVIOUS
<1>2. /\ Passed(r, Inbox(q) \cup {m}, Inbox(p), read[p]) /\ r # NoContact
      /\ m.name = <<p, sends[p] + 1>>
  BY <1>1, DraftPasses
<1>3. q \in Peers /\ q # p /\ Other(q) = p /\ \A x \in Peers : x = p \/ x = q BY <1>1, TwoPeers
<1>4. /\ ratchet' = [ratchet EXCEPT ![p] = r] /\ UNCHANGED <<read, forgot>>
      /\ \/ box' = [box EXCEPT ![q] = Append(box[q], m)] /\ saved' = [saved EXCEPT ![p] = r]
         \/ UNCHANGED <<box, saved>>
  BY <1>1, AcksArrive DEF SendMessage
<1>5. /\ ratchet'[p] = r /\ ratchet'[q] = ratchet[q] /\ saved'[q] = saved[q] /\ saved'[p] \in {saved[p], r}
      /\ read'[p] = read[p] /\ At(q)' = At(q)
  BY <1>3, <1>4 DEF Typed, At
<1>6. /\ At(p)'.ratchet = r /\ At(p)'.saved = saved'[p] /\ At(p)'.read = read[p]
  BY <1>5 DEF At
<1>7. ratchet[p] # NoContact BY DEF SendMessage, MayWrite
<1>8. /\ PeerPassed(At(p), Inbox(q), Inbox(p)) /\ PeerPassed(At(q), Inbox(p), Inbox(q))
      /\ PeerOK(q, At(q), made[q], Names(q))
  BY <1>1, <1>3 DEF KeyInv, Typed
<1>9. Passed(saved[p], Inbox(q), Inbox(p), read[p]) BY <1>7, <1>8, AtFields DEF PeerPassed
<1>10. CASE UNCHANGED <<box, saved>>
  <2>1. Inbox(p)' = Inbox(p) /\ Inbox(q)' = Inbox(q) BY <1>10 DEF Inbox
  <2>2. Passed(r, Inbox(q), Inbox(p), read[p]) BY <1>2 DEF Passed
  <2>3. PeerPassed(At(p)', Inbox(q), Inbox(p)) BY <1>2, <1>6, <1>9, <1>10, <2>2 DEF PeerPassed
  <2>4. PeerPassed(At(p)', Inbox(q)', Inbox(p)') BY <2>1, <2>3
  <2>5. PeerPassed(At(q)', Inbox(p)', Inbox(q)') BY <1>5, <1>8, <2>1
  <2>6. \A x \in Peers : PeerPassed(At(x), Inbox(Other(x)), Inbox(x))' BY <1>1, <1>3, <2>4, <2>5
  <2>7. KeysAreFresh' BY <1>10 DEF KeyInv, KeysAreFresh, Stored
  <2>8. \A x \in Peers : \A a, b \in Inbox(x)' : a.name = b.name => a = b BY <1>3, <2>1 DEF KeyInv
  <2> QED BY <2>6, <2>7, <2>8 DEF KeyInv
<1>11. CASE box' = [box EXCEPT ![q] = Append(box[q], m)] /\ saved' = [saved EXCEPT ![p] = r]
  <2>1. Inbox(p)' = Inbox(p) /\ Inbox(q)' = Inbox(q) \cup {m}
    <3>1. PICK s, t : s = box[q] /\ t = Append(s, m) OBVIOUS
    <3>2. m \in Messages
      <4>1. Typed' BY SendTyped
      <4>2. box' \in [Peers -> Seq(Messages)] BY <4>1 DEF Typed
      <4>3. t \in Seq(Messages) /\ s \in Seq(Messages) BY <1>3, <1>11, <3>1, <4>2 DEF Typed
      <4>4. t[Len(s) + 1] = m /\ Len(t) = Len(s) + 1 /\ Len(s) \in Nat BY <3>1, <4>3
      <4>5. Len(s) + 1 \in 1..Len(t) BY <4>4
      <4> QED BY <4>3, <4>4, <4>5
    <3>3. s \in Seq(Messages) BY <1>3, <3>1 DEF Typed
    <3>4. {t[i] : i \in 1..Len(t)} = {s[i] : i \in 1..Len(s)} \cup {m} BY <3>1, <3>2, <3>3, SeqAppends
    <3>5. box'[q] = t /\ box'[p] = box[p] BY <1>3, <1>11, <3>1 DEF Typed
    <3> QED BY <3>1, <3>4, <3>5 DEF Inbox
  <2>2. saved'[p] = r BY <1>11 DEF Typed
  <2>3. PeerPassed(At(p)', Inbox(q) \cup {m}, Inbox(p)) BY <1>2, <1>6, <2>2 DEF PeerPassed
  <2>4. \A a \in Inbox(q) : a.name # m.name
    <3>1. \A a \in Inbox(q) : a.name \in {p} \X (1..sends[p]) BY <1>3 DEF Typed, WrittenBy
    <3>2. sends[p] \in Nat BY BoundAssumption DEF Typed
    <3>3. m.name \notin {p} \X (1..sends[p]) BY <1>2, <3>2
    <3> QED BY <3>1, <3>3
  <2>5. m.name \notin At(q).read
    <3>1. At(q).read \in SUBSET Names(q) BY <1>8 DEF PeerOK
    <3> QED BY <2>4, <3>1 DEF Names
  <2>6. PeerPassed(At(q), Inbox(p), Inbox(q) \cup {m}) BY <1>8, <2>5 DEF PeerPassed, Passed
  <2>7. PeerPassed(At(p)', Inbox(q)', Inbox(p)') BY <2>1, <2>3
  <2>8. PeerPassed(At(q)', Inbox(p)', Inbox(q)') BY <1>5, <2>1, <2>6
  <2>9. \A x \in Peers : PeerPassed(At(x), Inbox(Other(x)), Inbox(x))' BY <1>1, <1>3, <2>7, <2>8
  <2>10. \A x \in Peers : \A a, b \in Inbox(x)' : a.name = b.name => a = b
    BY <1>3, <2>1, <2>4 DEF KeyInv
  <2>11. Stored' = Stored \cup {m}
    <3>1. Stored = Inbox(p) \cup Inbox(q) BY <1>3, StoredIsBoxed
    <3>2. Stored' = Inbox(p)' \cup Inbox(q)' BY <1>3 DEF Stored, Inbox
    <3> QED BY <2>1, <3>1, <3>2
  <2>12. \A a \in Stored : a.key # m.key BY <1>1, DraftIsFresh
  <2>13. KeysAreFresh' BY <2>11, <2>12 DEF KeyInv, KeysAreFresh
  <2> QED BY <2>9, <2>10, <2>13 DEF KeyInv
<1> QED BY <1>4, <1>10, <1>11

(* When the peers take turns and a stored message is acknowledged, no       *)
(* ratchet, the one in memory or the saved one, is behind what was written  *)
(* with it.                                                                *)
THEOREM ChainsArePassed == TurnTaking /\ AcksArrive => (Spec => []KeyInv)
<1> SUFFICES ASSUME TurnTaking, AcksArrive PROVE Spec => []KeyInv OBVIOUS
<1>1. ASSUME Typed, KeyInv, Next PROVE KeyInv'
  <2>1. ASSUME NEW p \in Peers, MissPush(p) PROVE KeyInv'
    BY <1>1, <2>1, QuietKeys DEF MissPush
  <2> QED BY <1>1, <2>1, AddContactKeys, SendKeys, PushKeys, LoginKeys DEF Next
<1>2. KeyInv /\ UNCHANGED vars => KeyInv' BY QuietKeys DEF vars
<1> QED BY <1>1, <1>2, TypesHold, InitKeys, PTL DEF Spec

(* No message key serves two of the messages the server has, whatever was  *)
(* lost, missed, fetched again or forgotten by a restart.                  *)
THEOREM KeysStayFresh == TurnTaking /\ AcksArrive => (Spec => []KeysAreFresh)
<1>1. KeyInv => KeysAreFresh BY DEF KeyInv
<1> QED BY <1>1, ChainsArePassed, PTL

-----------------------------------------------------------------------------
(* The two ratchets together.  What a peer has saved is even with what the *)
(* other has saved, or one turn ahead of it, and the other has the message *)
(* of that turn before it.  So every message that is not read yet fits.    *)

(* The chains of a ratchet, the oldest first.                              *)
Places(r) == 1..(Len(r.prev) + 1)
ChainAt(r, i) == IF i <= Len(r.prev) THEN r.prev[i] ELSE r.cur

IsFirst(r, i, pub) == ChainAt(r, i).foreign = pub /\ \A j \in 1..(i - 1) : ChainAt(r, j).foreign # pub

(* The chain can still give the key with index i.                          *)
Closed(c, i) == i >= c.next \/ i \in c.skipped

(* The first chain with the message's key pair has opened it.              *)
Seen(r, m) ==
  \E i \in Places(r) : /\ IsFirst(r, i, m.pub)
                       /\ ChainAt(r, i).root = m.key[1] /\ ~ Closed(ChainAt(r, i), m.index)

(* Roots grow from chain to chain.                                         *)
Growing(r) == \A i, j \in Places(r) : i < j => Len(ChainAt(r, i).root) < Len(ChainAt(r, j).root)

(* Every chain that is kept came after the message's.                      *)
Gone(r, m) == \A i \in Places(r) : Len(m.key[1]) < Len(ChainAt(r, i).root)

(* The message was opened, and its chain is kept or was forgotten.         *)
Passes(r, m) == Seen(r, m) \/ Gone(r, m)

(* The same but for the place on the current chain.                        *)
Alike(r, s) ==
  /\ r.keyPair = s.keyPair /\ r.prev = s.prev /\ r.state = s.state
  /\ r.cur.foreign = s.cur.foreign /\ r.cur.root = s.cur.root

(* How the ratchet r in memory differs from s, which is saved: not at all; *)
(* by further steps on the chain p writes on, for messages that did not    *)
(* get out or for old ones that were run against it; or by a turn whose    *)
(* messages did not get out.                                               *)
Ahead(p, waiting, sent, r, s) ==
  \/ r = s
  \/ /\ s.state = "Sending" /\ Alike(r, s) /\ r.cur.next >= s.cur.next
     /\ p \in waiting \/ \E i \in 1..Len(s.prev) : s.prev[i].foreign = s.cur.foreign
  \/ /\ s.state = "Receiving" /\ p \in waiting
     /\ r.state = "Sending" /\ r.prev = Remember(s.prev, s.cur) /\ r.cur.foreign = s.cur.foreign
     /\ r.cur.root = Append(s.cur.root, Secret(r.keyPair, s.cur.foreign))
     /\ r.keyPair # Identity(p) /\ \A m \in sent : m.pub # r.keyPair

(* One peer: r in memory, s saved, names the ones it has read.             *)
SideOK(p, waiting, sent, inbox, r, s, names) ==
  /\ Growing(r) /\ Growing(s) /\ Ahead(p, waiting, sent, r, s)
  /\ \A m \in inbox : m.name \in names => Passes(r, m) /\ Passes(s, m)
  /\ s.state = "Receiving" => \A i \in 1..Len(s.prev) : s.prev[i].foreign # s.cur.foreign
  /\ \A i \in Places(s) : ChainAt(s, i).foreign = Identity(Other(p))
                          \/ \E m \in inbox : m.pub = ChainAt(s, i).foreign
  /\ p \in waiting => \A m \in inbox : m.name \in names

(* Both have the same root, each with the other's key pair.                *)
Even(a, b) == a.cur.root = b.cur.root /\ a.cur.foreign = b.keyPair /\ b.cur.foreign = a.keyPair

(* a has turned with a key pair that b has not met.                        *)
Turned(a, b) ==
  /\ a.state = "Sending" /\ b.state = "Sending"
  /\ a.cur.root = Append(b.cur.root, Secret(a.keyPair, b.keyPair)) /\ a.cur.foreign = b.keyPair
  /\ \A i \in Places(b) : ChainAt(b, i).foreign # a.keyPair

(* The latest message that was written with a is among the unread ones.    *)
LatestIn(a, unread) == \E m \in unread : m.index + 1 = a.cur.next

(* The ratchet a of a peer and b of the other; mine are the messages it    *)
(* has not read, yours those that the other has not read.                  *)
Agree(a, b, mine, yours) ==
  /\ Even(a, b) \/ Turned(a, b) \/ Turned(b, a)
  /\ Even(a, b) => /\ a.state = "Sending" /\ b.state = "Sending" => a.prev = <<>>
                   /\ a.cur.next <= b.cur.next \/ LatestIn(a, yours)
  /\ Turned(a, b) => LatestIn(a, yours)
  /\ mine # {} => b.state = "Sending" /\ yours = {}
  /\ \A m \in mine : /\ m.pub = b.keyPair /\ m.key[1] = b.cur.root /\ m.index < b.cur.next
                     /\ Even(a, b) => Closed(a.cur, m.index)

(* A peer that is no contact yet would start as a receiver.                *)
Base(p, r) == IF r = NoContact THEN NewDHRatchet(Identity(p), Identity(Other(p)), "Receiving") ELSE r
Memory(p) == Base(p, ratchet[p])
Disk(p) == Base(p, saved[p])
UnreadOf(inbox, names) == {m \in inbox : m.name \notin names}
Unread(p) == UnreadOf(Inbox(p), read[p])

PairInv ==
  /\ \A p \in Peers : SideOK(p, stuck, Inbox(Other(p)), Inbox(p), Memory(p), Disk(p), read[p])
  /\ \A p \in Peers : Agree(Disk(p), Disk(Other(p)), Unread(p), Unread(Other(p)))
  /\ \A p \in Peers : Disk(p).state = "Receiving" /\ Disk(Other(p)).state = "Receiving" => saved[p] = NoContact
  /\ \A p \in Peers : p \in stuck => Other(p) \notin stuck /\ ratchet[p] # NoContact

-----------------------------------------------------------------------------
(* What a message that fits does to a ratchet, and one that was seen.      *)

(* The message is the next on the current chain, or one that was skipped;  *)
(* or it begins a new chain, one secret further.                           *)
Fits(r, m) ==
  /\ m.index <= MaxSkip
  /\ \/ r.cur.foreign = m.pub /\ m.key = <<r.cur.root, m.index>> /\ Closed(r.cur, m.index)
     \/ /\ \A i \in Places(r) : ChainAt(r, i).foreign # m.pub
        /\ m.key = <<Append(r.cur.root, Secret(r.keyPair, m.pub)), m.index>>

(* The chain c has become d by opening the key with index i and no other.  *)
Opens(c, i, d) ==
  /\ d \in Chains(Keys) /\ d.foreign = c.foreign /\ d.root = c.root
  /\ d.next >= i + 1 /\ d.next >= c.next /\ (d.next = i + 1 \/ d.next = c.next) /\ i \notin d.skipped
  /\ \A j \in Nat : j # i /\ Closed(c, j) => Closed(d, j)
  /\ \A j \in Nat : Closed(d, j) => Closed(c, j)

LEMMA ChainOpens ==
  ASSUME NEW c \in Chains(Keys), ChainOK(c), NEW i \in Nat, i <= MaxSkip, Closed(c, i),
         NEW d, d = DecryptChain(c, i, <<c.root, i>>)
  PROVE  d.result = "ok" /\ Opens(c, i, d.mr)
<1>1. c.next \in Nat /\ c.skipped \in SUBSET Nat /\ c = [foreign |-> c.foreign, root |-> c.root, next |-> c.next, skipped |-> c.skipped]
      /\ c.foreign \in Keys /\ c.root \in Seq(SUBSET Keys)
  BY DEF Chains
<1>2. MaxSkip \in Nat BY LimitAssumption
<1>3. PICK n, sk : n = c.next /\ sk = c.skipped OBVIOUS
<1>4. \A j \in sk : j < n BY <1>3 DEF ChainOK
<1>5. CASE i \in c.skipped
  <2>1. d.mr = [foreign |-> c.foreign, root |-> c.root, next |-> n, skipped |-> sk \ {i}] /\ d.result = "ok"
    BY <1>1, <1>3, <1>5 DEF DecryptChain, MessageKey
  <2>2. d.mr.next = n /\ d.mr.skipped = sk \ {i} /\ d.mr.foreign = c.foreign /\ d.mr.root = c.root BY <2>1
  <2>3. d.mr \in Chains(Keys) BY SMTT(30), <1>1, <1>3, <2>1 DEF Chains
  <2>4. i < n /\ n \in Nat BY <1>1, <1>3, <1>4, <1>5
  <2> QED BY <1>3, <2>1, <2>2, <2>3, <2>4 DEF Opens, Closed
<1>6. CASE i \notin c.skipped
  <2>1. ~ (i < n) /\ n \in Nat /\ ~ (i - n > MaxSkip) BY <1>1, <1>2, <1>3, <1>6 DEF Closed
  <2>2. d.mr = [foreign |-> c.foreign, root |-> c.root, next |-> i + 1, skipped |-> sk \cup (n..(i - 1))]
        /\ d.result = "ok"
    BY <1>1, <1>3, <1>6, <2>1 DEF DecryptChain, MessageKey
  <2>3. d.mr.next = i + 1 /\ d.mr.skipped = sk \cup (n..(i - 1)) /\ d.mr.foreign = c.foreign /\ d.mr.root = c.root
    BY <2>2
  <2>4. d.mr \in Chains(Keys)
    <3>1. n..(i - 1) \in SUBSET Nat BY <2>1
    <3> QED BY <1>1, <1>3, <2>2, <3>1 DEF Chains
  <2>5. \A j \in Nat : j # i /\ (j >= n \/ j \in sk) => j >= i + 1 \/ j \in sk \cup (n..(i - 1)) BY <2>1
  <2>6. \A j \in Nat : j >= i + 1 \/ j \in sk \cup (n..(i - 1)) => j >= n \/ j \in sk BY <2>1
  <2>7. i \notin n..(i - 1) /\ i \notin sk BY <1>3, <1>6, <2>1
  <2> QED BY <1>3, <2>1, <2>2, <2>3, <2>4, <2>5, <2>6, <2>7 DEF Opens, Closed
<1> QED BY <1>5, <1>6

LEMMA PlacesAre ==
  ASSUME NEW r \in Ratchets(Keys)
  PROVE  /\ Len(r.prev) \in Nat /\ Len(r.prev) + 1 \in Places(r) /\ ChainAt(r, Len(r.prev) + 1) = r.cur
         /\ \A i \in 1..Len(r.prev) : i \in Places(r) /\ ChainAt(r, i) = r.prev[i]
         /\ \A i \in Places(r) : i \in Nat /\ i >= 1 /\ (i \in 1..Len(r.prev) \/ i = Len(r.prev) + 1)
                                 /\ ChainAt(r, i) \in Chains(Keys)
<1>1. r.prev \in Seq(Chains(Keys)) /\ r.cur \in Chains(Keys) BY RatchetShape
<1>2. Len(r.prev) \in Nat BY <1>1
<1>3. \A i \in 1..Len(r.prev) : r.prev[i] \in Chains(Keys) BY <1>1
<1> QED BY <1>1, <1>2, <1>3 DEF Places, ChainAt

(* The current chain has the longest root.                                 *)
LEMMA CurIsLongest ==
  ASSUME NEW r \in Ratchets(Keys), Growing(r)
  PROVE  /\ Len(r.cur.root) \in Nat
         /\ \A i \in Places(r) : Len(ChainAt(r, i).root) \in Nat /\ Len(ChainAt(r, i).root) <= Len(r.cur.root)
         /\ \A i \in 1..Len(r.prev) : Len(r.prev[i].root) < Len(r.cur.root)
<1>1. \A i \in Places(r) : Len(ChainAt(r, i).root) \in Nat
  <2>1. \A i \in Places(r) : ChainAt(r, i).root \in Seq(SUBSET Keys) BY PlacesAre DEF Chains
  <2> QED BY <2>1
<1>2. PICK k : k = Len(r.prev) + 1 OBVIOUS
<1>3. k \in Places(r) /\ ChainAt(r, k) = r.cur BY <1>2, PlacesAre
<1>4. \A i \in 1..Len(r.prev) : i \in Places(r) /\ i < k /\ ChainAt(r, i) = r.prev[i] BY <1>2, PlacesAre
<1>5. \A i \in 1..Len(r.prev) : Len(ChainAt(r, i).root) < Len(r.cur.root) BY <1>3, <1>4 DEF Growing
<1>6. \A i \in Places(r) : i \in 1..Len(r.prev) \/ i = k BY <1>2, PlacesAre
<1>7. Len(r.cur.root) \in Nat BY <1>1, <1>3
<1>8. \A i \in Places(r) : Len(ChainAt(r, i).root) <= Len(r.cur.root) BY <1>1, <1>3, <1>5, <1>6, <1>7
<1> QED BY <1>1, <1>4, <1>5, <1>7, <1>8

(* A turn makes the root one secret longer.                                *)
LEMMA AppendedRoot ==
  ASSUME NEW r \in Ratchets(Keys), NEW k \in Keys, NEW f \in Keys, NEW root, root = Append(r.cur.root, Secret(k, f))
  PROVE  Len(root) = Len(r.cur.root) + 1 /\ Len(r.cur.root) \in Nat
<1>1. PICK x, y : x = r.cur.root /\ y = Secret(k, f) OBVIOUS
<1>2. x \in Seq(SUBSET Keys) /\ y \in SUBSET Keys BY <1>1, RatchetShape DEF Secret
<1>3. Len(Append(x, y)) = Len(x) + 1 /\ Len(x) \in Nat BY <1>2
<1> QED BY <1>1, <1>3

(* A message whose chain is kept is not gone.                              *)
LEMMA KeptIsNotGone ==
  ASSUME NEW r \in Ratchets(Keys), NEW m \in Messages, Keeps(r, m)
  PROVE  ~ Gone(r, m)
<1>1. m.key[1] \in Seq(SUBSET Keys) BY DEF Messages
<1>2. Len(m.key[1]) \in Nat BY <1>1
<1>3. \E i \in Places(r) : ChainAt(r, i).root = m.key[1] BY PlacesAre DEF Keeps
<1> QED BY <1>2, <1>3 DEF Gone

(* What a ratchet becomes when it reads m.                                 *)
ReadsOn(r, m, t) ==
  /\ t \in Ratchets(Keys) /\ t.keyPair = r.keyPair
  /\ \/ /\ r.cur.foreign = m.pub /\ m.key = <<r.cur.root, m.index>> /\ Closed(r.cur, m.index)
        /\ t.state = r.state /\ t.prev = r.prev /\ Opens(r.cur, m.index, t.cur)
     \/ /\ \A i \in Places(r) : ChainAt(r, i).foreign # m.pub
        /\ m.key = <<Append(r.cur.root, Secret(r.keyPair, m.pub)), m.index>>
        /\ t.state = "Receiving" /\ t.prev = Remember(r.prev, r.cur)
        /\ Opens(NewMessageRatchet(Append(r.cur.root, Secret(r.keyPair, m.pub)), m.pub), m.index, t.cur)

LEMMA FitIsRead ==
  ASSUME NEW r \in Ratchets(Keys), ChainOK(r.cur), Len(r.prev) <= PrevLimit,
         NEW m \in Messages, Fits(r, m), NEW d, d = Decrypt(r, m)
  PROVE  d.result = "ok" /\ ReadsOn(r, m, d.ratchet)
<1>1. /\ r = [keyPair |-> r.keyPair, cur |-> r.cur, prev |-> r.prev, index |-> r.index, state |-> r.state]
      /\ r.keyPair \in Keys /\ r.cur \in Chains(Keys) /\ r.prev \in Seq(Chains(Keys)) /\ r.index \in Nat
      /\ r.state \in {"Sending", "Receiving"} /\ r.cur.root \in Seq(SUBSET Keys)
  BY RatchetShape
<1>2. m.index \in Nat /\ m.pub \in Keys /\ m.index <= MaxSkip BY DEF Messages, Fits
<1>3. CASE r.cur.foreign = m.pub
  <2>1. m.key = <<r.cur.root, m.index>> /\ Closed(r.cur, m.index)
    <3>1. ChainAt(r, Len(r.prev) + 1).foreign = m.pub /\ Len(r.prev) + 1 \in Places(r) BY <1>3, PlacesAre
    <3> QED BY <3>1 DEF Fits
  <2>2. PICK e : e = DecryptChain(r.cur, m.index, m.key) OBVIOUS
  <2>3. e.result = "ok" /\ Opens(r.cur, m.index, e.mr)
    BY <1>1, <1>2, <2>1, <2>2, ChainOpens
  <2>4. d.ratchet = [r EXCEPT !.cur = e.mr] /\ d.result = e.result BY <1>3, <2>2 DEF Decrypt
  <2>5. d.ratchet = [keyPair |-> r.keyPair, cur |-> e.mr, prev |-> r.prev, index |-> r.index, state |-> r.state]
    BY <1>1, <2>4
  <2>6. /\ d.ratchet.keyPair = r.keyPair /\ d.ratchet.cur = e.mr /\ d.ratchet.prev = r.prev
        /\ d.ratchet.state = r.state
    BY <2>5
  <2>7. d.ratchet \in Ratchets(Keys) BY <1>1, <2>3, <2>5 DEF Ratchets, Opens
  <2> QED BY <1>3, <2>1, <2>3, <2>4, <2>6, <2>7 DEF ReadsOn
<1>4. CASE r.cur.foreign # m.pub
  <2>1. PICK root : root = Append(r.cur.root, Secret(r.keyPair, m.pub)) OBVIOUS
  <2>2. (\A i \in Places(r) : ChainAt(r, i).foreign # m.pub) /\ m.key = <<root, m.index>>
    BY <1>4, <2>1 DEF Fits
  <2>3. Previous(r, m.pub) = {} BY <2>2, PlacesAre DEF Previous
  <2>4. PICK c : c = NewMessageRatchet(root, m.pub) OBVIOUS
  <2>5. c = [foreign |-> m.pub, root |-> root, next |-> 0, skipped |-> {}] BY <2>4 DEF NewMessageRatchet
  <2>6. c \in Chains(Keys) /\ ChainOK(c) /\ c.root = root /\ c.next = 0
    <3>1. Secret(r.keyPair, m.pub) \in SUBSET Keys BY <1>1, <1>2 DEF Secret
    <3>2. root \in Seq(SUBSET Keys) BY <1>1, <2>1, <3>1
    <3> QED BY <1>2, <2>5, <3>2 DEF Chains, ChainOK
  <2>7. PICK s : s = Remember(r.prev, r.cur) OBVIOUS
  <2>8. s \in Seq(Chains(Keys)) BY <1>1, <2>7, Remembered
  <2>9. RKCycle(r, m.pub) = [keyPair |-> r.keyPair, cur |-> c, prev |-> s, index |-> r.index + 1, state |-> r.state]
    <3>1. RKCycle(r, m.pub) = [r EXCEPT !.prev = s, !.cur = c, !.index = r.index + 1]
      BY <2>1, <2>4, <2>7 DEF RKCycle
    <3>2. PICK i : i = r.index + 1 OBVIOUS
    <3>3. RKCycle(r, m.pub) = [r EXCEPT !.prev = s, !.cur = c, !.index = i] BY <3>1, <3>2
    <3>4. RKCycle(r, m.pub) = [keyPair |-> r.keyPair, cur |-> c, prev |-> s, index |-> i, state |-> r.state]
      BY <1>1, <3>3
    <3> QED BY <3>2, <3>4
  <2>10. PICK t : t = [RKCycle(r, m.pub) EXCEPT !.state = "Receiving"] OBVIOUS
  <2>11. t = [keyPair |-> r.keyPair, cur |-> c, prev |-> s, index |-> r.index + 1, state |-> "Receiving"]
    BY <2>9, <2>10
  <2>12. PICK e : e = DecryptChain(c, m.index, m.key) OBVIOUS
  <2>13. e.result = "ok" /\ Opens(c, m.index, e.mr)
    <3>1. Closed(c, m.index) BY <1>2, <2>6 DEF Closed
    <3> QED BY <1>2, <2>2, <2>6, <2>12, <3>1, ChainOpens
  <2>14. t.cur = c BY <2>11
  <2>15. d.ratchet = [t EXCEPT !.cur = e.mr] /\ d.result = e.result
    BY <1>4, <2>3, <2>10, <2>12, <2>14 DEF Decrypt
  <2>16. d.ratchet = [keyPair |-> r.keyPair, cur |-> e.mr, prev |-> s, index |-> r.index + 1, state |-> "Receiving"]
    BY <2>11, <2>15
  <2>17. /\ d.ratchet.keyPair = r.keyPair /\ d.ratchet.cur = e.mr /\ d.ratchet.prev = s
         /\ d.ratchet.state = "Receiving"
    BY <2>16
  <2>18. d.ratchet \in Ratchets(Keys) BY <1>1, <2>8, <2>13, <2>16 DEF Ratchets, Opens
  <2> QED BY <2>1, <2>2, <2>4, <2>7, <2>13, <2>15, <2>17, <2>18 DEF ReadsOn
<1> QED BY <1>3, <1>4

(* What a ratchet becomes that gets a message it has seen: the message may *)
(* be run against the current chain, when that has the same key pair.      *)
RunsOver(r, m, t) ==
  /\ t \in Ratchets(Keys)
  /\ \/ t = r
     \/ /\ Alike(t, r) /\ r.cur.foreign = m.pub /\ \E i \in 1..Len(r.prev) : r.prev[i].foreign = r.cur.foreign
        /\ t.cur.next >= r.cur.next /\ (t.cur.next = r.cur.next \/ t.cur.next = m.index + 1)

LEMMA ChainRefuses ==
  ASSUME NEW c \in Chains(Keys), NEW i \in Nat, ~ Closed(c, i), NEW key, NEW d, d = DecryptChain(c, i, key)
  PROVE  d.mr = c /\ d.result = "processed"
<1>1. c.next \in Nat /\ i \notin c.skipped /\ i < c.next BY DEF Chains, Closed
<1> QED BY <1>1 DEF DecryptChain

LEMMA ChainSteps ==
  ASSUME NEW c \in Chains(Keys), NEW i \in Nat, NEW key, NEW d, d = DecryptChain(c, i, key)
  PROVE  d.mr.next = c.next \/ d.mr.next = i + 1
<1>1. c = [foreign |-> c.foreign, root |-> c.root, next |-> c.next, skipped |-> c.skipped] BY DEF Chains
<1>2. d.mr \in {c, [c EXCEPT !.skipped = c.skipped \ {i}],
                [c EXCEPT !.skipped = c.skipped \cup (c.next..(i - 1)), !.next = i + 1]}
  BY DEF DecryptChain
<1> QED BY <1>1, <1>2

LEMMA SeenIsPassedOver ==
  ASSUME NEW r \in Ratchets(Keys), ChainOK(r.cur), Growing(r),
         NEW m \in Messages, Seen(r, m), NEW d, d = Decrypt(r, m)
  PROVE  d.result # "ok" /\ RunsOver(r, m, d.ratchet)
<1>1. /\ r = [keyPair |-> r.keyPair, cur |-> r.cur, prev |-> r.prev, index |-> r.index, state |-> r.state]
      /\ r.keyPair \in Keys /\ r.cur \in Chains(Keys) /\ r.prev \in Seq(Chains(Keys)) /\ r.index \in Nat
      /\ r.state \in {"Sending", "Receiving"} /\ r.cur.next \in Nat
  BY RatchetShape
<1>2. m.index \in Nat BY DEF Messages
<1>3. PICK i \in Places(r) : IsFirst(r, i, m.pub) /\ ChainAt(r, i).root = m.key[1] /\ ~ Closed(ChainAt(r, i), m.index)
  BY DEF Seen
<1>4. i \in 1..Len(r.prev) \/ i = Len(r.prev) + 1 BY PlacesAre
<1>5. CASE r.cur.foreign = m.pub
  <2>1. PICK e : e = DecryptChain(r.cur, m.index, m.key) OBVIOUS
  <2>2. /\ e.mr \in Chains(Keys) /\ e.mr.foreign = r.cur.foreign /\ e.mr.root = r.cur.root
        /\ e.mr.next >= r.cur.next
        /\ e.result = "ok" => m.key = <<r.cur.root, m.index>>
    BY <1>1, <1>2, <2>1, ChainMoves
  <2>3. d.ratchet = [r EXCEPT !.cur = e.mr] /\ d.result = e.result BY <1>5, <2>1 DEF Decrypt
  <2>4. d.ratchet = [keyPair |-> r.keyPair, cur |-> e.mr, prev |-> r.prev, index |-> r.index, state |-> r.state]
    BY <1>1, <2>3
  <2>5. d.ratchet \in Ratchets(Keys) BY <1>1, <2>2, <2>4 DEF Ratchets
  <2>6. CASE i = Len(r.prev) + 1
    <3>1. ChainAt(r, i) = r.cur BY <2>6, PlacesAre
    <3>2. ~ Closed(r.cur, m.index) BY <1>3, <3>1
    <3>3. e.mr = r.cur /\ e.result = "processed" BY <1>1, <1>2, <2>1, <3>2, ChainRefuses
    <3>4. d.ratchet = r BY <1>1, <2>4, <3>3
    <3> QED BY <1>1, <2>3, <2>5, <3>3, <3>4 DEF RunsOver
  <2>7. CASE i \in 1..Len(r.prev)
    <3>1. ChainAt(r, i) = r.prev[i] /\ Len(r.prev) \in Nat BY <2>7, PlacesAre
    <3>2. r.prev[i].foreign = r.cur.foreign BY <1>3, <1>5, <3>1 DEF IsFirst
    <3>3. Len(r.prev[i].root) < Len(r.cur.root) /\ Len(r.cur.root) \in Nat BY <2>7, CurIsLongest
    <3>4. m.key[1] # r.cur.root BY <1>3, <3>1, <3>3
    <3>5. e.result # "ok" BY <2>2, <3>4
    <3>6. e.mr.next = r.cur.next \/ e.mr.next = m.index + 1 BY <1>1, <1>2, <2>1, ChainSteps
    <3>7. /\ d.ratchet.keyPair = r.keyPair /\ d.ratchet.cur = e.mr /\ d.ratchet.prev = r.prev
          /\ d.ratchet.state = r.state
      BY <2>4
    <3>8. Alike(d.ratchet, r) BY <2>2, <3>7 DEF Alike
    <3> QED BY <1>5, <2>2, <2>3, <2>5, <2>7, <3>2, <3>5, <3>6, <3>7, <3>8 DEF RunsOver
  <2> QED BY <1>4, <2>6, <2>7
<1>6. CASE r.cur.foreign # m.pub
  <2>1. i \in 1..Len(r.prev)
    <3>1. i # Len(r.prev) + 1 BY <1>3, <1>6, PlacesAre DEF IsFirst
    <3> QED BY <1>4, <3>1
  <2>2. ChainAt(r, i) = r.prev[i] /\ Len(r.prev) \in Nat BY <2>1, PlacesAre
  <2>3. i \in Previous(r, m.pub) BY <1>3, <2>1, <2>2 DEF IsFirst, Previous
  <2>4. Oldest(Previous(r, m.pub)) = i
    <3>1. \A j \in Previous(r, m.pub) : j \in 1..Len(r.prev) /\ ChainAt(r, j).foreign = m.pub BY PlacesAre DEF Previous
    <3>2. \A j \in Previous(r, m.pub) : ~ (j < i)
      <4>1. ASSUME NEW j \in Previous(r, m.pub), j < i PROVE FALSE
        <5>1. j \in 1..(i - 1) BY <2>1, <2>2, <3>1, <4>1
        <5> QED BY <1>3, <3>1, <5>1 DEF IsFirst
      <4> QED BY <4>1
    <3>3. \A j \in Previous(r, m.pub) : i <= j /\ j \in Nat BY <2>1, <2>2, <3>1, <3>2
    <3>4. \A k \in Previous(r, m.pub) : (\A j \in Previous(r, m.pub) : k <= j) => k = i
      BY <2>1, <2>2, <2>3, <3>3
    <3> QED BY <2>3, <3>3, <3>4 DEF Oldest
  <2>5. PICK e : e = DecryptChain(r.prev[i], m.index, m.key) OBVIOUS
  <2>6. r.prev[i] \in Chains(Keys) BY <1>1, <2>1
  <2>7. e.mr = r.prev[i] /\ e.result = "processed"
    <3>1. ~ Closed(r.prev[i], m.index) BY <1>3, <2>2
    <3> QED BY <1>2, <2>5, <2>6, <3>1, ChainRefuses
  <2>8. d.ratchet = [r EXCEPT !.prev[i].skipped = r.prev[i].skipped] /\ d.result = "processed"
    BY <1>6, <2>3, <2>4, <2>5, <2>7 DEF Decrypt
  <2>9. d.ratchet = r
    <3>1. r.prev[i] = [foreign |-> r.prev[i].foreign, root |-> r.prev[i].root, next |-> r.prev[i].next, skipped |-> r.prev[i].skipped]
      BY <2>6 DEF Chains
    <3>2. [r.prev[i] EXCEPT !.skipped = r.prev[i].skipped] = r.prev[i] BY <3>1
    <3>3. [r.prev EXCEPT ![i] = r.prev[i]] = r.prev BY <1>1, <2>1
    <3>4. d.ratchet = [r EXCEPT !.prev = [r.prev EXCEPT ![i] = [r.prev[i] EXCEPT !.skipped = r.prev[i].skipped]]]
      BY <2>8
    <3>5. d.ratchet = [r EXCEPT !.prev = r.prev] BY <3>2, <3>3, <3>4
    <3> QED BY <1>1, <3>5
  <2> QED BY <2>8, <2>9 DEF RunsOver
<1> QED BY <1>5, <1>6

-----------------------------------------------------------------------------
(* What is kept when a ratchet moves along its chain, and when it turns.   *)

(* s is what is left of prev and c when the oldest are dropped.            *)
Latest(s, prev, c) ==
  \E d \in Nat : Len(s) + d = Len(prev) + 1 /\ \A i \in 1..Len(s) : s[i] = Append(prev, c)[i + d]

LEMMA RememberIs ==
  ASSUME NEW C, NEW prev \in Seq(C), NEW c \in C, NEW s, s = Remember(prev, c)
  PROVE  Latest(s, prev, c)
<1>1. PICK a, n : a = Append(prev, c) /\ n = Len(prev) OBVIOUS
<1>2. a \in Seq(C) /\ Len(a) = n + 1 /\ n \in Nat /\ PrevLimit \in Nat BY <1>1, LimitAssumption
<1>3. CASE Len(a) > PrevLimit
  <2>1. PICK d : d = n + 1 - PrevLimit OBVIOUS
  <2>2. d \in Nat /\ PrevLimit + d = n + 1 /\ d + 1 \in Nat /\ d + 1 >= 1 BY <1>2, <1>3, <2>1
  <2>3. s = SubSeq(a, d + 1, n + 1)
    <3>1. s = SubSeq(a, Len(a) - PrevLimit + 1, Len(a)) BY <1>1, <1>3 DEF Remember
    <3>2. Len(a) - PrevLimit + 1 = d + 1 BY <1>2, <2>1
    <3> QED BY <1>2, <3>1, <3>2
  <2>4. Len(s) = PrevLimit
    <3>1. Len(SubSeq(a, d + 1, n + 1)) = IF d + 1 <= n + 1 THEN n + 1 - (d + 1) + 1 ELSE 0 BY <1>2, <2>2
    <3> QED BY <1>2, <2>2, <2>3, <3>1
  <2>5. \A i \in 1..PrevLimit : s[i] = a[i + d]
    <3>1. ASSUME NEW i \in 1..PrevLimit PROVE s[i] = a[i + d]
      <4>1. i \in 1..(n + 1 - (d + 1) + 1) /\ d + 1 + i - 1 = i + d BY <1>2, <2>2
      <4>2. SubSeq(a, d + 1, n + 1)[i] = a[d + 1 + i - 1] BY <1>2, <2>2, <4>1
      <4> QED BY <2>3, <4>1, <4>2
    <3> QED BY <3>1
  <2> QED BY <1>1, <2>2, <2>4, <2>5 DEF Latest
<1>4. CASE ~ (Len(a) > PrevLimit)
  <2>1. s = a BY <1>1, <1>4 DEF Remember
  <2>2. Len(s) + 0 = n + 1 /\ \A i \in 1..Len(s) : s[i] = a[i + 0] BY <1>2, <2>1
  <2> QED BY <1>1, <2>2 DEF Latest
<1> QED BY <1>3, <1>4

LEMMA AlikePlaces ==
  ASSUME NEW r \in Ratchets(Keys), NEW t \in Ratchets(Keys), Alike(t, r)
  PROVE  /\ Places(t) = Places(r) /\ \A i \in 1..Len(r.prev) : ChainAt(t, i) = ChainAt(r, i)
         /\ \A i \in Places(r) : ChainAt(t, i).foreign = ChainAt(r, i).foreign /\ ChainAt(t, i).root = ChainAt(r, i).root
<1>1. t.prev = r.prev /\ t.cur.foreign = r.cur.foreign /\ t.cur.root = r.cur.root BY DEF Alike
<1>2. Places(t) = Places(r) BY <1>1 DEF Places
<1>3. \A i \in 1..Len(r.prev) : ChainAt(t, i) = ChainAt(r, i) BY <1>1, PlacesAre
<1>4. \A i \in Places(r) : i \in 1..Len(r.prev) \/ i = Len(r.prev) + 1 BY PlacesAre
<1>5. ChainAt(t, Len(r.prev) + 1) = t.cur /\ ChainAt(r, Len(r.prev) + 1) = r.cur BY <1>1, PlacesAre
<1> QED BY <1>1, <1>2, <1>3, <1>4, <1>5

LEMMA GrowingAlike ==
  ASSUME NEW r \in Ratchets(Keys), NEW t \in Ratchets(Keys), Alike(t, r), Growing(r)
  PROVE  Growing(t)
<1>1. Places(t) = Places(r) /\ \A i \in Places(r) : ChainAt(t, i).root = ChainAt(r, i).root BY AlikePlaces
<1> QED BY <1>1 DEF Growing

LEMMA SeenAlike ==
  ASSUME NEW r \in Ratchets(Keys), NEW t \in Ratchets(Keys), Alike(t, r), NEW x, x.index \in Nat, Seen(r, x),
         \/ \A j \in Nat : Closed(t.cur, j) => Closed(r.cur, j)
         \/ \E i \in 1..Len(r.prev) : r.prev[i].foreign = r.cur.foreign
  PROVE  Seen(t, x)
<1>1. PICK i \in Places(r) : IsFirst(r, i, x.pub) /\ ChainAt(r, i).root = x.key[1] /\ ~ Closed(ChainAt(r, i), x.index)
  BY DEF Seen
<1>2. i \in Nat /\ i >= 1 /\ (i \in 1..Len(r.prev) \/ i = Len(r.prev) + 1) /\ Len(r.prev) \in Nat BY PlacesAre
<1>3. i \in Places(t) BY AlikePlaces
<1>4. \A j \in 1..(i - 1) : j \in Places(r) BY <1>2 DEF Places
<1>5. IsFirst(t, i, x.pub) BY <1>1, <1>4, AlikePlaces DEF IsFirst
<1>6. ChainAt(t, i).root = x.key[1] BY <1>1, AlikePlaces
<1>7. ~ Closed(ChainAt(t, i), x.index)
  <2>1. CASE i \in 1..Len(r.prev) BY <1>1, <2>1, AlikePlaces
  <2>2. CASE i = Len(r.prev) + 1
    <3>1. ChainAt(r, i) = r.cur /\ ChainAt(t, i) = t.cur BY <2>2, PlacesAre DEF Alike
    <3>2. CASE \A j \in Nat : Closed(t.cur, j) => Closed(r.cur, j) BY <1>1, <3>1, <3>2
    <3>3. ASSUME NEW k \in 1..Len(r.prev), r.prev[k].foreign = r.cur.foreign PROVE FALSE
      <4>1. k \in 1..(i - 1) /\ ChainAt(r, k) = r.prev[k] BY <1>2, <2>2, PlacesAre
      <4> QED BY <1>1, <3>1, <3>3, <4>1 DEF IsFirst
    <3> QED BY <3>2, <3>3
  <2> QED BY <1>2, <2>1, <2>2
<1> QED BY <1>3, <1>5, <1>6, <1>7 DEF Seen

LEMMA PassesAlike ==
  ASSUME NEW r \in Ratchets(Keys), NEW t \in Ratchets(Keys), Alike(t, r), NEW x, x.index \in Nat, Passes(r, x),
         \/ \A j \in Nat : Closed(t.cur, j) => Closed(r.cur, j)
         \/ \E i \in 1..Len(r.prev) : r.prev[i].foreign = r.cur.foreign
  PROVE  Passes(t, x)
<1>1. Seen(r, x) => Seen(t, x) BY SeenAlike
<1>2. Gone(r, x) => Gone(t, x) BY AlikePlaces DEF Gone
<1> QED BY <1>1, <1>2 DEF Passes

(* The chains that t keeps of r and the one that r is on, which are all    *)
(* but the d oldest.                                                       *)
Shifted(r, t, d) ==
  /\ d \in Nat /\ Len(t.prev) \in Nat /\ Len(r.prev) \in Nat /\ Len(t.prev) + d = Len(r.prev) + 1
  /\ \A i \in 1..Len(t.prev) : /\ i \in Places(t) /\ i + d \in Places(r)
                               /\ ChainAt(t, i) = t.prev[i] /\ t.prev[i] = ChainAt(r, i + d)
  /\ Len(t.prev) + 1 \in Places(t) /\ ChainAt(t, Len(t.prev) + 1) = t.cur
  /\ \A i \in Places(t) : i \in 1..Len(t.prev) \/ i = Len(t.prev) + 1
  /\ \A i \in Places(r) : i > d => i - d \in 1..Len(t.prev)

LEMMA TurnPlaces ==
  ASSUME NEW r \in Ratchets(Keys), NEW t \in Ratchets(Keys), t.prev = Remember(r.prev, r.cur)
  PROVE  \E d : Shifted(r, t, d)
<1>1. PICK s, c, k, u, C : s = r.prev /\ c = r.cur /\ k = Len(r.prev) /\ u = t.prev /\ C = Chains(Keys) OBVIOUS
<1>2. s \in Seq(C) /\ c \in C /\ k = Len(s) /\ k \in Nat /\ Len(u) \in Nat BY <1>1, RatchetShape, PlacesAre
<1>3. PICK d \in Nat : Len(u) + d = k + 1 /\ \A i \in 1..Len(u) : u[i] = Append(s, c)[i + d]
  <2>1. u = Remember(s, c) BY <1>1
  <2>2. Latest(u, s, c) BY <1>2, <2>1, RememberIs
  <2> QED BY <1>1, <2>2 DEF Latest
<1>4. \A j \in 1..(k + 1) : Append(s, c)[j] = ChainAt(r, j)
  <2>1. \A j \in 1..k : Append(s, c)[j] = s[j] BY <1>2
  <2>2. Append(s, c)[k + 1] = c BY <1>2
  <2>3. \A j \in 1..k : ChainAt(r, j) = s[j] BY <1>1, PlacesAre
  <2>4. ChainAt(r, k + 1) = c BY <1>1, PlacesAre
  <2>5. \A j \in 1..(k + 1) : j \in 1..k \/ j = k + 1 BY <1>2
  <2> QED BY <2>1, <2>2, <2>3, <2>4, <2>5
<1>5. \A i \in 1..Len(u) : i + d \in 1..(k + 1) BY <1>2, <1>3
<1>6. Places(r) = 1..(k + 1) BY <1>1 DEF Places
<1>7. \A i \in 1..Len(u) : /\ i \in Places(t) /\ i + d \in Places(r)
                           /\ ChainAt(t, i) = u[i] /\ u[i] = ChainAt(r, i + d)
  BY <1>1, <1>3, <1>4, <1>5, <1>6, PlacesAre
<1>8. \A i \in Places(r) : i > d => i - d \in 1..Len(u) BY <1>2, <1>3, <1>6
<1>9. /\ Len(u) + 1 \in Places(t) /\ ChainAt(t, Len(u) + 1) = t.cur
      /\ \A i \in Places(t) : i \in 1..Len(u) \/ i = Len(u) + 1
  BY <1>1, PlacesAre
<1> QED BY <1>1, <1>2, <1>3, <1>7, <1>8, <1>9 DEF Shifted

LEMMA PassesOverTurn ==
  ASSUME NEW r \in Ratchets(Keys), NEW t \in Ratchets(Keys), t.prev = Remember(r.prev, r.cur), Growing(r),
         NEW k \in Keys, NEW f \in Keys, t.cur.root = Append(r.cur.root, Secret(k, f)),
         NEW x \in Messages, Passes(r, x)
  PROVE  Passes(t, x)
<1>1. PICK d : Shifted(r, t, d) BY TurnPlaces
<1>2. Len(t.cur.root) = Len(r.cur.root) + 1 /\ Len(r.cur.root) \in Nat BY AppendedRoot
<1>3. Len(x.key[1]) \in Nat
  <2>1. x.key[1] \in Seq(SUBSET Keys) BY DEF Messages
  <2> QED BY <2>1
<1>4. \A i \in Places(r) : Len(ChainAt(r, i).root) \in Nat /\ Len(ChainAt(r, i).root) <= Len(r.cur.root)
  BY CurIsLongest
<1>5. d \in Nat /\ Len(t.prev) \in Nat /\ Len(t.prev) + d = Len(r.prev) + 1 /\ Len(r.prev) \in Nat BY <1>1 DEF Shifted
<1>6. \A i \in 1..Len(t.prev) : i + d \in Places(r) /\ ChainAt(t, i) = ChainAt(r, i + d) BY <1>1 DEF Shifted
<1>7. \A i \in Places(t) : i \in 1..Len(t.prev) \/ ChainAt(t, i) = t.cur BY <1>1 DEF Shifted
<1>8. CASE Gone(r, x)
  <2>1. Len(r.prev) + 1 \in Places(r) /\ ChainAt(r, Len(r.prev) + 1) = r.cur BY PlacesAre
  <2>2. Len(x.key[1]) < Len(r.cur.root) BY <1>8, <2>1 DEF Gone
  <2>3. Len(x.key[1]) < Len(t.cur.root) BY <1>2, <1>3, <2>2
  <2>4. \A i \in 1..Len(t.prev) : Len(x.key[1]) < Len(ChainAt(t, i).root) BY <1>6, <1>8 DEF Gone
  <2>5. Gone(t, x) BY <1>7, <2>3, <2>4 DEF Gone
  <2> QED BY <2>5 DEF Passes
<1>9. CASE Seen(r, x)
  <2>1. PICK i \in Places(r) : IsFirst(r, i, x.pub) /\ ChainAt(r, i).root = x.key[1] /\ ~ Closed(ChainAt(r, i), x.index)
    BY <1>9 DEF Seen
  <2>2. i \in Nat BY PlacesAre
  <2>3. CASE i > d
    <3>1. PICK j : j = i - d OBVIOUS
    <3>2. j \in 1..Len(t.prev) /\ j \in Places(t) /\ j + d = i
      <4>1. j \in 1..Len(t.prev) BY <1>1, <2>3, <3>1 DEF Shifted
      <4>2. j \in Places(t) BY <1>1, <4>1 DEF Shifted
      <4>3. j + d = i BY <1>5, <2>2, <3>1
      <4> QED BY <4>1, <4>2, <4>3
    <3>3. ChainAt(t, j) = ChainAt(r, i) BY <1>6, <3>2
    <3>4. \A n \in 1..(j - 1) : ChainAt(t, n).foreign # x.pub
      <4>1. ASSUME NEW n \in 1..(j - 1) PROVE ChainAt(t, n).foreign # x.pub
        <5>1. n \in 1..Len(t.prev) /\ n + d \in 1..(i - 1) BY <1>5, <2>2, <3>2
        <5> QED BY <1>6, <2>1, <5>1 DEF IsFirst
      <4> QED BY <4>1
    <3>5. IsFirst(t, j, x.pub) BY <2>1, <3>3, <3>4 DEF IsFirst
    <3>6. Seen(t, x) BY <2>1, <3>2, <3>3, <3>5 DEF Seen
    <3> QED BY <3>6 DEF Passes
  <2>4. CASE ~ (i > d)
    <3>1. ASSUME NEW j \in 1..Len(t.prev) PROVE Len(x.key[1]) < Len(ChainAt(t, j).root)
      <4>1. j + d \in Places(r) /\ i < j + d BY <1>5, <1>6, <2>2, <2>4
      <4>2. Len(ChainAt(r, i).root) < Len(ChainAt(r, j + d).root) BY <4>1 DEF Growing
      <4> QED BY <1>6, <2>1, <4>2
    <3>2. Len(x.key[1]) < Len(t.cur.root) BY <1>2, <1>3, <1>4, <2>1
    <3>3. Gone(t, x) BY <1>7, <3>1, <3>2 DEF Gone
    <3> QED BY <3>3 DEF Passes
  <2> QED BY <2>3, <2>4
<1> QED BY <1>8, <1>9 DEF Passes

LEMMA GrowingOverTurn ==
  ASSUME NEW r \in Ratchets(Keys), NEW t \in Ratchets(Keys), t.prev = Remember(r.prev, r.cur), Growing(r),
         NEW k \in Keys, NEW f \in Keys, t.cur.root = Append(r.cur.root, Secret(k, f))
  PROVE  Growing(t)
<1>1. PICK d : Shifted(r, t, d) BY TurnPlaces
<1>2. Len(t.cur.root) = Len(r.cur.root) + 1 /\ Len(r.cur.root) \in Nat BY AppendedRoot
<1>3. \A i \in Places(r) : Len(ChainAt(r, i).root) \in Nat /\ Len(ChainAt(r, i).root) <= Len(r.cur.root)
  BY CurIsLongest
<1>4. d \in Nat /\ Len(t.prev) \in Nat BY <1>1 DEF Shifted
<1>5. \A i \in 1..Len(t.prev) : i + d \in Places(r) /\ ChainAt(t, i) = ChainAt(r, i + d) BY <1>1 DEF Shifted
<1>6. \A i \in Places(t) : i \in 1..Len(t.prev) \/ (i = Len(t.prev) + 1 /\ ChainAt(t, i) = t.cur) BY <1>1 DEF Shifted
<1>7. ASSUME NEW i \in Places(t), NEW j \in Places(t), i < j
      PROVE  Len(ChainAt(t, i).root) < Len(ChainAt(t, j).root)
  <2>1. i \in 1..Len(t.prev) BY <1>4, <1>6, <1>7
  <2>2. CASE j \in 1..Len(t.prev)
    <3>1. i + d < j + d BY <1>4, <1>7, <2>1, <2>2
    <3>2. Len(ChainAt(r, i + d).root) < Len(ChainAt(r, j + d).root) BY <1>5, <2>1, <2>2, <3>1 DEF Growing
    <3> QED BY <1>5, <2>1, <2>2, <3>2
  <2>3. CASE ChainAt(t, j) = t.cur
    <3>1. Len(ChainAt(r, i + d).root) \in Nat /\ Len(ChainAt(r, i + d).root) <= Len(r.cur.root) BY <1>3, <1>5, <2>1
    <3>2. Len(ChainAt(r, i + d).root) < Len(t.cur.root) BY <1>2, <3>1
    <3> QED BY <1>5, <2>1, <2>3, <3>2
  <2> QED BY <1>6, <2>2, <2>3
<1> QED BY <1>7 DEF Growing

-----------------------------------------------------------------------------
(* A message that was not read yet fits, and both ratchets agree when it   *)
(* has been read.                                                          *)

LEMMA ReadIsSeen ==
  ASSUME NEW r \in Ratchets(Keys), NEW m \in Messages, NEW t, ReadsOn(r, m, t),
         Growing(r),
         r.cur.foreign = m.pub => \A i \in 1..Len(r.prev) : r.prev[i].foreign # r.cur.foreign
  PROVE  Seen(t, m) /\ \A x \in Messages : Passes(r, x) => Passes(t, x)
<1>1. t \in Ratchets(Keys) /\ m.index \in Nat /\ \A x \in Messages : x.index \in Nat BY DEF ReadsOn, Messages
<1>2. CASE r.cur.foreign = m.pub
  <2>1. m.key = <<r.cur.root, m.index>> /\ t.state = r.state /\ t.prev = r.prev /\ Opens(r.cur, m.index, t.cur)
        /\ t.keyPair = r.keyPair
    BY <1>2, PlacesAre DEF ReadsOn
  <2>2. Alike(t, r) BY <2>1 DEF Alike, Opens
  <2>3. \A j \in Nat : Closed(t.cur, j) => Closed(r.cur, j) BY <2>1 DEF Opens
  <2>4. \A x \in Messages : Passes(r, x) => Passes(t, x) BY <1>1, <2>2, <2>3, PassesAlike
  <2>5. PICK k : k = Len(t.prev) + 1 OBVIOUS
  <2>6. k \in Places(t) /\ ChainAt(t, k) = t.cur /\ k - 1 = Len(t.prev) BY <1>1, <2>5, PlacesAre
  <2>7. t.cur.foreign = m.pub /\ t.cur.root = m.key[1] BY <1>2, <2>1, <2>2 DEF Alike
  <2>8. \A i \in 1..Len(t.prev) : ChainAt(t, i).foreign # m.pub
    <3>1. \A i \in 1..Len(t.prev) : ChainAt(t, i) = r.prev[i] BY <1>1, <2>1, PlacesAre
    <3> QED BY <1>2, <2>1, <3>1
  <2>9. IsFirst(t, k, m.pub) BY <2>6, <2>7, <2>8 DEF IsFirst
  <2>10. ~ Closed(t.cur, m.index)
    <3>1. t.cur \in Chains(Keys) /\ t.cur.next >= m.index + 1 /\ m.index \notin t.cur.skipped
      BY <2>1 DEF Opens
    <3>2. t.cur.next \in Nat BY <3>1 DEF Chains
    <3> QED BY <1>1, <3>1, <3>2 DEF Closed
  <2>11. Seen(t, m) BY <2>6, <2>7, <2>9, <2>10 DEF Seen
  <2> QED BY <2>4, <2>11
<1>3. CASE r.cur.foreign # m.pub
  <2>1. PICK root, c : root = Append(r.cur.root, Secret(r.keyPair, m.pub)) /\ c = NewMessageRatchet(root, m.pub) OBVIOUS
  <2>2. (\A i \in Places(r) : ChainAt(r, i).foreign # m.pub) /\ m.key = <<root, m.index>>
        /\ t.prev = Remember(r.prev, r.cur) /\ Opens(c, m.index, t.cur)
    BY <1>3, <2>1 DEF ReadsOn
  <2>3. r.keyPair \in Keys /\ m.pub \in Keys BY RatchetShape DEF Messages
  <2>4. t.cur.foreign = m.pub /\ t.cur.root = root /\ root = m.key[1]
    <3>1. c = [foreign |-> m.pub, root |-> root, next |-> 0, skipped |-> {}] BY <2>1 DEF NewMessageRatchet
    <3> QED BY <2>2, <3>1 DEF Opens
  <2>5. \A x \in Messages : Passes(r, x) => Passes(t, x) BY <1>1, <2>1, <2>2, <2>3, <2>4, PassesOverTurn
  <2>6. PICK k : k = Len(t.prev) + 1 OBVIOUS
  <2>7. k \in Places(t) /\ ChainAt(t, k) = t.cur /\ k - 1 = Len(t.prev) BY <1>1, <2>6, PlacesAre
  <2>8. \A i \in 1..Len(t.prev) : ChainAt(t, i).foreign # m.pub
    <3>1. PICK d : Shifted(r, t, d) BY <1>1, <2>2, TurnPlaces
    <3>2. \A i \in 1..Len(t.prev) : i + d \in Places(r) /\ ChainAt(t, i) = ChainAt(r, i + d) BY <3>1 DEF Shifted
    <3> QED BY <2>2, <3>2
  <2>9. IsFirst(t, k, m.pub) BY <2>4, <2>7, <2>8 DEF IsFirst
  <2>10. ~ Closed(t.cur, m.index)
    <3>1. t.cur \in Chains(Keys) /\ t.cur.next >= m.index + 1 /\ m.index \notin t.cur.skipped
      BY <2>2 DEF Opens
    <3>2. t.cur.next \in Nat BY <3>1 DEF Chains
    <3> QED BY <1>1, <3>1, <3>2 DEF Closed
  <2>11. Seen(t, m) BY <2>4, <2>7, <2>9, <2>10 DEF Seen
  <2> QED BY <2>5, <2>11
<1> QED BY <1>2, <1>3

(* What is known of a message of the other's that is not read yet, when r  *)
(* is the ratchet in memory, s the saved one and b the other's.            *)
Awaits(r, s, b, m) ==
  /\ b.state = "Sending" /\ m.pub = b.keyPair /\ m.key = <<b.cur.root, m.index>> /\ m.index < b.cur.next
  /\ \/ /\ Even(s, b) /\ r = s /\ Closed(s.cur, m.index)
        /\ \A i \in 1..Len(s.prev) : s.prev[i].foreign # s.cur.foreign
     \/ /\ Turned(b, s) /\ Alike(r, s)
        /\ \A i \in Places(r) : ChainAt(r, i).foreign # m.pub

(* What is in memory when p is not trying to get a message out.            *)
Kept(r, s) ==
  /\ r = s \/ (Alike(r, s) /\ \E i \in 1..Len(s.prev) : s.prev[i].foreign = s.cur.foreign)
  /\ s.state = "Receiving" => \A i \in 1..Len(s.prev) : s.prev[i].foreign # s.cur.foreign

LEMMA SideIsKept ==
  ASSUME NEW p, NEW waiting, NEW sent, NEW inbox, NEW names, NEW r, NEW s,
         SideOK(p, waiting, sent, inbox, r, s, names), p \notin waiting
  PROVE  Kept(r, s)
<1>1. Ahead(p, waiting, sent, r, s) BY DEF SideOK
<1>2. r = s \/ (Alike(r, s) /\ \E i \in 1..Len(s.prev) : s.prev[i].foreign = s.cur.foreign) BY <1>1 DEF Ahead
<1> QED BY <1>2 DEF SideOK, Kept

LEMMA UnreadIsAwaited ==
  ASSUME NEW r \in Ratchets(Keys), NEW s \in Ratchets(Keys), NEW b, Kept(r, s),
         NEW mine, NEW yours, Agree(s, b, mine, yours), NEW m \in mine, m.key = <<m.key[1], m.index>>
  PROVE  Awaits(r, s, b, m) /\ yours = {}
<1>1. b.state = "Sending" /\ yours = {} /\ m.pub = b.keyPair /\ m.key[1] = b.cur.root /\ m.index < b.cur.next
  BY DEF Agree
<1>2. m.key = <<b.cur.root, m.index>> BY <1>1
<1>3. ~ Turned(s, b)
  <2>1. Turned(s, b) => LatestIn(s, yours) BY DEF Agree
  <2> QED BY <1>1, <2>1 DEF LatestIn
<1>4. CASE Even(s, b)
  <2>1. Closed(s.cur, m.index) /\ (s.state = "Sending" => s.prev = <<>>) BY <1>1, <1>4 DEF Agree
  <2>2. s.state \in {"Sending", "Receiving"} BY RatchetShape
  <2>3. \A i \in 1..Len(s.prev) : s.prev[i].foreign # s.cur.foreign
    <3>1. CASE s.state = "Sending"
      <4>1. Len(s.prev) = 0 BY <2>1, <3>1
      <4> QED BY <4>1
    <3>2. CASE s.state = "Receiving" BY <3>2 DEF Kept
    <3> QED BY <2>2, <3>1, <3>2
  <2>5. r = s BY <2>3 DEF Kept
  <2> QED BY <1>1, <1>2, <1>4, <2>1, <2>3, <2>5 DEF Awaits
<1>5. CASE Turned(b, s)
  <2>2. Alike(r, s) BY DEF Kept, Alike
  <2>3. \A i \in Places(s) : ChainAt(s, i).foreign # m.pub BY <1>1, <1>5 DEF Turned
  <2>4. \A i \in Places(r) : ChainAt(r, i).foreign # m.pub BY <2>2, <2>3, AlikePlaces
  <2> QED BY <1>1, <1>2, <1>5, <2>2, <2>4 DEF Awaits
<1> QED BY <1>3, <1>4, <1>5 DEF Agree

LEMMA AwaitedFits ==
  ASSUME NEW r, NEW s, NEW b, NEW m, Awaits(r, s, b, m), m.index <= MaxSkip
  PROVE  Fits(r, m)
<1>1. CASE Even(s, b) /\ r = s /\ Closed(s.cur, m.index)
  BY <1>1 DEF Awaits, Even, Fits
<1>2. CASE /\ Turned(b, s) /\ Alike(r, s)
           /\ \A i \in Places(r) : ChainAt(r, i).foreign # m.pub
  <2>1. Secret(b.keyPair, s.keyPair) = Secret(r.keyPair, m.pub) BY <1>2 DEF Awaits, Alike, Secret
  <2>2. b.cur.root = Append(s.cur.root, Secret(b.keyPair, s.keyPair)) BY <1>2 DEF Turned
  <2>3. b.cur.root = Append(r.cur.root, Secret(r.keyPair, m.pub)) BY <1>2, <2>1, <2>2 DEF Alike
  <2> QED BY <1>2, <2>3 DEF Awaits, Fits
<1> QED BY <1>1, <1>2 DEF Awaits

(* What an awaited message makes of a ratchet: a step on the chain that    *)
(* both are on, or the turn that the other has made.                       *)
StepRead(r, s, b, m, t) ==
  /\ Even(s, b) /\ r = s /\ t.prev = s.prev /\ t.state = s.state /\ Alike(t, s)
  /\ Closed(s.cur, m.index) /\ Opens(s.cur, m.index, t.cur)
  /\ r.cur.foreign = m.pub /\ \A i \in 1..Len(s.prev) : s.prev[i].foreign # s.cur.foreign

TurnRead(r, s, b, m, t) ==
  /\ Turned(b, s) /\ Alike(r, s) /\ t.prev = Remember(r.prev, r.cur) /\ t.state = "Receiving"
  /\ t.cur.root = b.cur.root /\ t.cur.foreign = m.pub
  /\ t.cur.root = Append(r.cur.root, Secret(r.keyPair, m.pub))
  /\ \A j \in Nat : j # m.index => Closed(t.cur, j)
  /\ t.cur.next = m.index + 1
  /\ \A i \in Places(r) : ChainAt(r, i).foreign # m.pub

LEMMA AwaitedIsRead ==
  ASSUME NEW r \in Ratchets(Keys), NEW s \in Ratchets(Keys), NEW b \in Ratchets(Keys),
         NEW m \in Messages, Awaits(r, s, b, m), NEW t, ReadsOn(r, m, t)
  PROVE  StepRead(r, s, b, m, t) \/ TurnRead(r, s, b, m, t)
<1>1. CASE /\ Even(s, b) /\ r = s /\ Closed(s.cur, m.index)
           /\ \A i \in 1..Len(s.prev) : s.prev[i].foreign # s.cur.foreign
  <2>1. r.cur.foreign = m.pub BY <1>1 DEF Awaits, Even
  <2>2. /\ t.keyPair = r.keyPair /\ t.state = r.state /\ t.prev = r.prev /\ Opens(r.cur, m.index, t.cur)
    BY <2>1, PlacesAre DEF ReadsOn
  <2>3. Alike(t, s) BY <1>1, <2>2 DEF Alike, Opens
  <2> QED BY <1>1, <2>1, <2>2, <2>3 DEF StepRead
<1>2. CASE /\ Turned(b, s) /\ Alike(r, s)
           /\ \A i \in Places(r) : ChainAt(r, i).foreign # m.pub
  <2>1. PICK root, c : root = Append(r.cur.root, Secret(r.keyPair, m.pub)) /\ c = NewMessageRatchet(root, m.pub) OBVIOUS
  <2>2. r.cur.foreign # m.pub BY <1>2, PlacesAre
  <2>3. t.prev = Remember(r.prev, r.cur) /\ t.state = "Receiving" /\ Opens(c, m.index, t.cur)
    BY <2>1, <2>2 DEF ReadsOn
  <2>4. c.foreign = m.pub /\ c.root = root /\ c.next = 0 /\ c.skipped = {} BY <2>1 DEF NewMessageRatchet
  <2>5. m.index \in Nat BY DEF Messages
  <2>6. t.cur.foreign = m.pub /\ t.cur.root = root /\ t.cur.next = m.index + 1 BY <2>3, <2>4, <2>5 DEF Opens
  <2>7. \A j \in Nat : Closed(c, j) BY <2>4 DEF Closed
  <2>8. \A j \in Nat : j # m.index => Closed(t.cur, j) BY <2>3, <2>7 DEF Opens
  <2>9. root = b.cur.root
    <3>1. Secret(b.keyPair, s.keyPair) = Secret(r.keyPair, m.pub) BY <1>2 DEF Awaits, Alike, Secret
    <3>2. b.cur.root = Append(s.cur.root, Secret(b.keyPair, s.keyPair)) BY <1>2 DEF Turned
    <3> QED BY <1>2, <2>1, <3>1, <3>2 DEF Alike
  <2> QED BY <1>2, <2>1, <2>3, <2>6, <2>8, <2>9 DEF TurnRead
<1> QED BY <1>1, <1>2 DEF Awaits

LEMMA ReadSide ==
  ASSUME NEW p, NEW waiting, p \notin waiting, NEW sent, NEW inbox \in SUBSET Messages, NEW names,
         \A x, y \in inbox : x.name = y.name => x = y,
         NEW r \in Ratchets(Keys), NEW s \in Ratchets(Keys), NEW b \in Ratchets(Keys),
         SideOK(p, waiting, sent, inbox, r, s, names),
         NEW m \in inbox, Awaits(r, s, b, m), NEW t, ReadsOn(r, m, t)
  PROVE  SideOK(p, waiting, sent, inbox, t, t, names \cup {m.name})
<1>1. /\ Growing(r) /\ Growing(s)
      /\ \A x \in inbox : x.name \in names => Passes(r, x)
      /\ s.state = "Receiving" => \A i \in 1..Len(s.prev) : s.prev[i].foreign # s.cur.foreign
      /\ \A i \in Places(s) : ChainAt(s, i).foreign = Identity(Other(p))
                              \/ \E x \in inbox : x.pub = ChainAt(s, i).foreign
  BY DEF SideOK
<1>2. m \in Messages /\ m.index \in Nat /\ m.pub \in Keys /\ t \in Ratchets(Keys)
  BY DEF Messages, ReadsOn
<1>3. t.keyPair = r.keyPair /\ r.keyPair \in Keys BY RatchetShape DEF ReadsOn
<1>4. StepRead(r, s, b, m, t) \/ TurnRead(r, s, b, m, t) BY <1>2, AwaitedIsRead
<1>5. r.cur.foreign = m.pub => \A i \in 1..Len(r.prev) : r.prev[i].foreign # r.cur.foreign
  BY <1>4, PlacesAre DEF StepRead, TurnRead
<1>6. Seen(t, m) /\ \A x \in Messages : Passes(r, x) => Passes(t, x) BY <1>1, <1>2, <1>5, ReadIsSeen
<1>7. \A x \in inbox : x.name \in names \cup {m.name} => Passes(t, x)
  <2>1. ASSUME NEW x \in inbox, x.name = m.name PROVE Passes(t, x)
    <3>1. x = m BY <2>1
    <3> QED BY <1>6, <3>1 DEF Passes
  <2> QED BY <1>1, <1>6, <2>1
<1>8. Growing(t) /\ (t.state = "Receiving" => \A i \in 1..Len(t.prev) : t.prev[i].foreign # t.cur.foreign)
      /\ \A i \in Places(t) : ChainAt(t, i).foreign = Identity(Other(p))
                              \/ \E x \in inbox : x.pub = ChainAt(t, i).foreign
  <2>1. CASE /\ t.prev = s.prev /\ t.state = s.state /\ Alike(t, s)
    <3>1. Growing(t) BY <1>1, <1>2, <2>1, GrowingAlike
    <3>2. t.state = "Receiving" => \A i \in 1..Len(t.prev) : t.prev[i].foreign # t.cur.foreign
      BY <1>1, <2>1 DEF Alike
    <3>3. Places(t) = Places(s) /\ \A i \in Places(s) : ChainAt(t, i).foreign = ChainAt(s, i).foreign
      BY <1>2, <2>1, AlikePlaces
    <3> QED BY <1>1, <3>1, <3>2, <3>3
  <2>2. CASE /\ Alike(r, s) /\ t.prev = Remember(r.prev, r.cur) /\ t.cur.foreign = m.pub
             /\ t.cur.root = Append(r.cur.root, Secret(r.keyPair, m.pub))
             /\ \A i \in Places(r) : ChainAt(r, i).foreign # m.pub
    <3>1. PICK d : Shifted(r, t, d) BY <1>2, <2>2, TurnPlaces
    <3>2. Growing(t) BY <1>1, <1>2, <1>3, <2>2, GrowingOverTurn
    <3>3. \A i \in 1..Len(t.prev) : i + d \in Places(r) /\ t.prev[i] = ChainAt(r, i + d) /\ ChainAt(t, i) = t.prev[i]
      BY <3>1 DEF Shifted
    <3>4. \A i \in 1..Len(t.prev) : t.prev[i].foreign # t.cur.foreign BY <2>2, <3>3
    <3>5. \A i \in Places(r) : ChainAt(r, i).foreign = Identity(Other(p))
                               \/ \E x \in inbox : x.pub = ChainAt(r, i).foreign
      BY <1>1, <2>2, AlikePlaces
    <3>6. \A i \in Places(t) : i \in 1..Len(t.prev) \/ ChainAt(t, i) = t.cur BY <3>1 DEF Shifted
    <3>7. \A i \in Places(t) : ChainAt(t, i).foreign = Identity(Other(p))
                               \/ \E x \in inbox : x.pub = ChainAt(t, i).foreign
      BY <2>2, <3>3, <3>5, <3>6
    <3> QED BY <3>2, <3>4, <3>7
  <2> QED BY <1>4, <2>1, <2>2 DEF StepRead, TurnRead
<1>9. Ahead(p, waiting, sent, t, t) BY DEF Ahead
<1> QED BY <1>7, <1>8, <1>9 DEF SideOK

LEMMA EvenIsNotTurned ==
  ASSUME NEW a \in Ratchets(Keys), NEW b \in Ratchets(Keys), Even(a, b)
  PROVE  ~ Turned(a, b) /\ ~ Turned(b, a) /\ Even(b, a)
<1>1. PICK x, y, z : x = a.cur.root /\ y = Secret(a.keyPair, b.keyPair) /\ z = Secret(b.keyPair, a.keyPair) OBVIOUS
<1>2. x \in Seq(SUBSET Keys) /\ y \in SUBSET Keys /\ z \in SUBSET Keys BY <1>1, RatchetShape DEF Secret
<1>3. Append(x, y) # x /\ Append(x, z) # x
  <2>1. Len(Append(x, y)) = Len(x) + 1 /\ Len(Append(x, z)) = Len(x) + 1 /\ Len(x) \in Nat BY <1>2
  <2> QED BY <2>1
<1>4. b.cur.root = x BY <1>1 DEF Even
<1> QED BY <1>1, <1>3, <1>4 DEF Turned, Even

LEMMA ReadAgrees ==
  ASSUME NEW r \in Ratchets(Keys), NEW s \in Ratchets(Keys), NEW b \in Ratchets(Keys),
         NEW mine \in SUBSET Messages, NEW yours, Agree(s, b, mine, yours), Agree(b, s, yours, mine), yours = {},
         \A x \in mine : x.key = <<x.key[1], x.index>>, \A x, y \in mine : x.key = y.key => x = y,
         NEW m \in mine, Awaits(r, s, b, m), NEW t, ReadsOn(r, m, t)
  PROVE  Agree(t, b, mine \ {m}, yours) /\ Agree(b, t, yours, mine \ {m}) /\ Even(t, b)
<1>1. t \in Ratchets(Keys) /\ t.keyPair = r.keyPair BY DEF ReadsOn
<1>2. StepRead(r, s, b, m, t) \/ TurnRead(r, s, b, m, t) BY AwaitedIsRead
<1>3. m.index \in Nat /\ \A x \in mine : x.index \in Nat BY DEF Messages
<1>4. b.cur.next \in Nat /\ s.cur.next \in Nat /\ t.cur.next \in Nat BY <1>1, RatchetShape
<1>5. b.state = "Sending" /\ m.pub = b.keyPair /\ m.index < b.cur.next BY DEF Awaits
<1>6. \A x \in mine : x.pub = b.keyPair /\ x.key[1] = b.cur.root /\ x.index < b.cur.next BY DEF Agree
<1>7. \A x \in mine \ {m} : x.index # m.index BY <1>6
<1>8. ~ LatestIn(s, yours) BY DEF LatestIn
<1>9. Even(t, b)
  <2>1. CASE StepRead(r, s, b, m, t) BY <2>1 DEF StepRead, Alike, Even
  <2>2. CASE TurnRead(r, s, b, m, t)
    <3>1. b.cur.foreign = s.keyPair /\ s.keyPair = r.keyPair BY <2>2 DEF TurnRead, Turned, Alike
    <3> QED BY <1>1, <1>5, <2>2, <3>1 DEF TurnRead, Even
  <2> QED BY <1>2, <2>1, <2>2
<1>10. Even(b, t) /\ ~ Turned(t, b) /\ ~ Turned(b, t) BY <1>1, <1>9, EvenIsNotTurned
<1>11. t.state = "Sending" /\ b.state = "Sending" => t.prev = <<>> /\ b.prev = <<>>
  <2>1. CASE StepRead(r, s, b, m, t)
    <3>1. Even(s, b) /\ Even(b, s) /\ t.state = s.state /\ t.prev = s.prev BY <2>1 DEF StepRead, Even
    <3> QED BY <3>1 DEF Agree
  <2>2. CASE TurnRead(r, s, b, m, t) BY <2>2 DEF TurnRead
  <2> QED BY <1>2, <2>1, <2>2
<1>12. t.cur.next <= b.cur.next /\ t.cur.next >= m.index + 1
  <2>1. CASE StepRead(r, s, b, m, t)
    <3>1. Even(s, b) /\ Opens(s.cur, m.index, t.cur) BY <2>1 DEF StepRead
    <3>2. s.cur.next <= b.cur.next BY <1>8, <3>1 DEF Agree
    <3>3. t.cur.next >= m.index + 1 /\ (t.cur.next = m.index + 1 \/ t.cur.next = s.cur.next) BY <3>1 DEF Opens
    <3> QED BY <1>3, <1>4, <1>5, <3>2, <3>3
  <2>2. CASE TurnRead(r, s, b, m, t)
    <3>1. t.cur.next = m.index + 1 BY <2>2 DEF TurnRead
    <3> QED BY <1>3, <1>4, <1>5, <3>1
  <2> QED BY <1>2, <2>1, <2>2
<1>13. \A x \in mine \ {m} : Closed(t.cur, x.index)
  <2>1. CASE StepRead(r, s, b, m, t)
    <3>1. Even(s, b) /\ Opens(s.cur, m.index, t.cur) BY <2>1 DEF StepRead
    <3>2. \A x \in mine : Closed(s.cur, x.index) BY <3>1 DEF Agree
    <3> QED BY <1>3, <1>7, <3>1, <3>2 DEF Opens
  <2>2. CASE TurnRead(r, s, b, m, t) BY <1>3, <1>7, <2>2 DEF TurnRead
  <2> QED BY <1>2, <2>1, <2>2
<1>14. b.cur.next <= t.cur.next \/ LatestIn(b, mine \ {m})
  <2>1. ASSUME LatestIn(b, mine) PROVE b.cur.next <= t.cur.next \/ LatestIn(b, mine \ {m})
    <3>1. PICK x \in mine : x.index + 1 = b.cur.next BY <2>1 DEF LatestIn
    <3>2. CASE x = m BY <1>3, <1>4, <1>12, <3>1, <3>2
    <3>3. CASE x # m BY <3>1, <3>3 DEF LatestIn
    <3> QED BY <3>2, <3>3
  <2>2. CASE StepRead(r, s, b, m, t)
    <3>1. Even(b, s) /\ Opens(s.cur, m.index, t.cur) BY <2>2 DEF StepRead, Even
    <3>2. b.cur.next <= s.cur.next \/ LatestIn(b, mine) BY <3>1 DEF Agree
    <3>3. t.cur.next >= s.cur.next BY <3>1 DEF Opens
    <3> QED BY <1>4, <2>1, <3>2, <3>3
  <2>3. CASE TurnRead(r, s, b, m, t)
    <3>1. LatestIn(b, mine) BY <2>3 DEF TurnRead, Agree
    <3> QED BY <2>1, <3>1
  <2> QED BY <1>2, <2>2, <2>3
<1>15. Agree(t, b, mine \ {m}, yours)
  BY <1>5, <1>6, <1>9, <1>10, <1>11, <1>12, <1>13 DEF Agree
<1>16. Agree(b, t, yours, mine \ {m})
  BY <1>9, <1>10, <1>11, <1>14 DEF Agree
<1> QED BY <1>9, <1>15, <1>16

(* A message that was read before changes the ratchet in memory only.      *)
LEMMA RepeatSide ==
  ASSUME NEW p, NEW waiting, NEW sent, NEW inbox \in SUBSET Messages, NEW names,
         NEW r \in Ratchets(Keys), NEW s \in Ratchets(Keys), SideOK(p, waiting, sent, inbox, r, s, names),
         NEW m \in inbox, NEW t, RunsOver(r, m, t)
  PROVE  SideOK(p, waiting, sent, inbox, t, s, names)
<1>1. CASE t = r BY <1>1
<1>2. CASE /\ t \in Ratchets(Keys) /\ Alike(t, r) /\ \E i \in 1..Len(r.prev) : r.prev[i].foreign = r.cur.foreign
           /\ t.cur.next >= r.cur.next /\ (t.cur.next = r.cur.next \/ t.cur.next = m.index + 1)
  <2>1. r.cur.next \in Nat /\ t.cur.next \in Nat /\ s.cur.next \in Nat
        /\ \A x \in inbox : x.index \in Nat
    BY <1>2, RatchetShape DEF Messages
  <2>2. Growing(r) /\ Ahead(p, waiting, sent, r, s) /\ \A x \in inbox : x.name \in names => Passes(r, x)
    BY DEF SideOK
  <2>3. Growing(t) BY <1>2, <2>2, GrowingAlike
  <2>4. \A x \in inbox : x.name \in names => Passes(t, x) BY <1>2, <2>1, <2>2, PassesAlike
  <2>5. Ahead(p, waiting, sent, t, s)
    <3>1. CASE r = s
      <4>1. s.state = "Sending"
        <5>1. s.state \in {"Sending", "Receiving"} BY RatchetShape
        <5>2. s.state # "Receiving" BY <1>2, <3>1 DEF SideOK
        <5> QED BY <5>1, <5>2
      <4> QED BY <1>2, <3>1, <4>1 DEF Ahead
    <3>2. CASE /\ s.state = "Sending" /\ Alike(r, s) /\ r.cur.next >= s.cur.next
               /\ p \in waiting \/ \E i \in 1..Len(s.prev) : s.prev[i].foreign = s.cur.foreign
      <4>1. Alike(t, s) BY <1>2, <3>2 DEF Alike
      <4>2. t.cur.next >= s.cur.next BY <1>2, <2>1, <3>2
      <4> QED BY <3>2, <4>1, <4>2 DEF Ahead
    <3>3. CASE /\ s.state = "Receiving" /\ p \in waiting
               /\ r.state = "Sending" /\ r.prev = Remember(s.prev, s.cur) /\ r.cur.foreign = s.cur.foreign
               /\ r.cur.root = Append(s.cur.root, Secret(r.keyPair, s.cur.foreign))
               /\ r.keyPair # Identity(p) /\ \A x \in sent : x.pub # r.keyPair
      BY <1>2, <3>3 DEF Ahead, Alike
    <3> QED BY <2>2, <3>1, <3>2, <3>3 DEF Ahead
  <2> QED BY <2>3, <2>4, <2>5 DEF SideOK
<1> QED BY <1>1, <1>2 DEF RunsOver

(* The other's messages to p: none too far along its chain to be read      *)
(* first, each with a key of its own.                                      *)
InboxOK(p, inbox) ==
  /\ inbox \in SUBSET Messages
  /\ \A m \in inbox : m.pub[1] # p /\ m.index <= MaxSkip /\ m.key = <<m.key[1], m.index>>
  /\ \A x, y \in inbox : x.name = y.name \/ x.key = y.key => x = y

(* PairInv from the side of p, that is at at; b is the other's ratchet.    *)
PairAt(p, waiting, sent, inbox, b, yours, at) ==
  /\ SideOK(p, waiting, sent, inbox, Base(p, at.ratchet), Base(p, at.saved), at.read)
  /\ Agree(Base(p, at.saved), b, UnreadOf(inbox, at.read), yours)
  /\ Agree(b, Base(p, at.saved), yours, UnreadOf(inbox, at.read))
  /\ Base(p, at.saved).state = "Receiving" /\ b.state = "Receiving" => at.saved = NoContact

LEMMA HandleBase ==
  ASSUME NEW p \in Peers, NEW n \in Nat, NEW names, NEW at, PeerOK(p, at, n, names),
         NEW m, NEW h, h = Handle(p, at, m), NEW d, d = Decrypt(Base(p, at.ratchet), m)
  PROVE  /\ IF d.result = "ok"
            THEN h.ratchet = d.ratchet /\ h.saved = d.ratchet /\ h.read = at.read \cup {m.name}
            ELSE /\ h.ratchet = d.ratchet /\ h.read = at.read
                 /\ h.saved = IF at.ratchet = NoContact THEN Base(p, NoContact) ELSE at.saved
         /\ at.forgot \subseteq h.forgot
         /\ m.name \in at.read /\ m.name \notin h.forgot => Keeps(Base(p, at.ratchet), m)
<1>1. PICK new : new = NewDHRatchet(Identity(p), Identity(Other(p)), "Receiving") OBVIOUS
<1>2. PICK met : met = IF at.ratchet = NoContact THEN [at EXCEPT !.ratchet = new, !.saved = new] ELSE at OBVIOUS
<1>3. PICK rt, svd, rd, fg : at = [ratchet |-> rt, saved |-> svd, read |-> rd, forgot |-> fg] BY DEF PeerOK
<1>4. rt = at.ratchet /\ svd = at.saved /\ rd = at.read /\ fg = at.forgot BY <1>3
<1>5. Base(p, NoContact) = new BY <1>1 DEF Base
<1>6. met = IF at.ratchet = NoContact THEN [ratchet |-> new, saved |-> new, read |-> rd, forgot |-> fg]
                                      ELSE [ratchet |-> rt, saved |-> svd, read |-> rd, forgot |-> fg]
  <2>1. CASE at.ratchet = NoContact
    <3>1. met = [ratchet |-> new, saved |-> new, read |-> rd, forgot |-> fg] BY <1>2, <1>3, <2>1
    <3> QED BY <2>1, <3>1
  <2>2. CASE at.ratchet # NoContact BY <1>2, <1>3, <2>2
  <2> QED BY <2>1, <2>2
<1>7. met.ratchet = Base(p, at.ratchet) /\ met.read = at.read /\ met.forgot = at.forgot
      /\ met.saved = IF at.ratchet = NoContact THEN Base(p, NoContact) ELSE at.saved
  BY <1>1, <1>4, <1>5, <1>6 DEF Base
<1>8. PICK lost : lost = IF m.name \in at.read /\ ~ Keeps(met.ratchet, m) THEN {m.name} ELSE {} OBVIOUS
<1>9. h = IF d.result = "ok"
          THEN [ratchet |-> d.ratchet, saved |-> d.ratchet, read |-> met.read \cup {m.name},
                forgot |-> met.forgot \cup lost]
          ELSE [met EXCEPT !.ratchet = d.ratchet, !.forgot = @ \cup lost]
  BY <1>1, <1>2, <1>7, <1>8 DEF Handle
<1>10. met = [ratchet |-> met.ratchet, saved |-> met.saved, read |-> met.read, forgot |-> met.forgot] BY <1>6
<1>11. m.name \in at.read /\ m.name \notin lost => Keeps(Base(p, at.ratchet), m) BY <1>7, <1>8
<1>12. CASE d.result = "ok"
  <2>1. h = [ratchet |-> d.ratchet, saved |-> d.ratchet, read |-> met.read \cup {m.name},
             forgot |-> met.forgot \cup lost]
    BY <1>9, <1>12
  <2> QED BY <1>7, <1>11, <1>12, <2>1
<1>13. CASE d.result # "ok"
  <2>1. h = [ratchet |-> d.ratchet, saved |-> met.saved, read |-> met.read, forgot |-> met.forgot \cup lost]
    BY <1>9, <1>10, <1>13
  <2> QED BY <1>7, <1>11, <1>13, <2>1
<1> QED BY <1>12, <1>13

(* A peer's ratchets, or those it would start with.                        *)
LEMMA BasesOK ==
  ASSUME NEW p \in Peers, NEW n \in Nat, NEW names, NEW at, PeerOK(p, at, n, names)
  PROVE  RatchetOK(p, Base(p, at.ratchet), n) /\ RatchetOK(p, Base(p, at.saved), n)
<1>1. RatchetOK(p, Base(p, NoContact), n) BY FirstRatchet DEF Base
<1>2. CASE at.ratchet = NoContact BY <1>1, <1>2 DEF PeerOK
<1>3. CASE at.ratchet # NoContact
  <2>1. RatchetOK(p, at.ratchet, n) /\ RatchetOK(p, at.saved, n) /\ at.saved # NoContact
    BY <1>3 DEF PeerOK, PeerRatchet
  <2> QED BY <1>3, <2>1 DEF Base
<1> QED BY <1>2, <1>3

(* Handling a message of the mailbox reads it, unless it was read before,  *)
(* and both ratchets still agree if its chain was not forgotten.           *)
LEMMA HandlePairs ==
  ASSUME NEW p \in Peers, NEW k \in Nat, NEW names, NEW at, PeerOK(p, at, k, names), NEW waiting, NEW sent,
         NEW inbox, InboxOK(p, inbox),
         NEW b \in Ratchets(Keys), NEW yours, PairAt(p, waiting, sent, inbox, b, yours, at),
         NEW m \in inbox, NEW h, h = Handle(p, at, m), h.forgot = {}
  PROVE  PairAt(p, waiting, sent, inbox, b, yours, h) /\ m.name \in h.read
<1>1. PICK r, s, rd, mine, d : /\ r = Base(p, at.ratchet) /\ s = Base(p, at.saved) /\ rd = at.read
                               /\ mine = UnreadOf(inbox, rd) /\ d = Decrypt(r, m)
  OBVIOUS
<1>2. /\ RatchetOK(p, r, k) /\ RatchetOK(p, s, k) BY <1>1, BasesOK
<1>3. /\ r \in Ratchets(Keys) /\ ChainOK(r.cur) /\ Len(r.prev) <= PrevLimit /\ s \in Ratchets(Keys)
  BY <1>2 DEF RatchetOK, RatchetSound
<1>4. /\ SideOK(p, waiting, sent, inbox, r, s, rd) /\ Agree(s, b, mine, yours) /\ Agree(b, s, yours, mine)
      /\ s.state = "Receiving" /\ b.state = "Receiving" => at.saved = NoContact
  BY <1>1 DEF PairAt
<1>5. /\ inbox \in SUBSET Messages /\ mine \in SUBSET inbox /\ m \in Messages
      /\ \A x, y \in inbox : x.name = y.name => x = y
      /\ \A x, y \in inbox : x.key = y.key => x = y
      /\ \A x \in inbox : x.index <= MaxSkip /\ x.key = <<x.key[1], x.index>>
  BY <1>1 DEF InboxOK, UnreadOf, Messages
<1>6. IF d.result = "ok"
      THEN h.ratchet = d.ratchet /\ h.saved = d.ratchet /\ h.read = rd \cup {m.name}
      ELSE /\ h.ratchet = d.ratchet /\ h.read = rd
           /\ h.saved = IF at.ratchet = NoContact THEN Base(p, NoContact) ELSE at.saved
  BY <1>1, HandleBase
<1>7. m.name \in rd => Keeps(r, m) BY <1>1, HandleBase
<1>8. \A x \in Ratchets(Keys) : Base(p, x) = x BY NoContactAssumption DEF Base
<1>9. Growing(r) /\ Growing(s) BY <1>4 DEF SideOK
<1>10. CASE m.name \in rd
  <2>1. Seen(r, m)
    <3>1. Passes(r, m) BY <1>4, <1>10 DEF SideOK
    <3>2. ~ Gone(r, m) BY <1>3, <1>5, <1>10, <1>7, KeptIsNotGone
    <3> QED BY <3>1, <3>2 DEF Passes
  <2>2. d.result # "ok" /\ RunsOver(r, m, d.ratchet) BY <1>1, <1>3, <1>5, <1>9, <2>1, SeenIsPassedOver
  <2>3. SideOK(p, waiting, sent, inbox, d.ratchet, s, rd) BY <1>3, <1>4, <1>5, <2>2, RepeatSide
  <2>4. at.ratchet # NoContact BY <1>1, <1>10 DEF PeerOK
  <2>5. h.ratchet = d.ratchet /\ h.read = rd /\ h.saved = at.saved BY <1>6, <2>2, <2>4
  <2>6. Base(p, h.ratchet) = d.ratchet /\ Base(p, h.saved) = s BY <1>1, <1>8, <2>2, <2>5 DEF RunsOver
  <2>7. PairAt(p, waiting, sent, inbox, b, yours, h) BY <1>1, <1>4, <2>3, <2>5, <2>6 DEF PairAt
  <2> QED BY <1>10, <2>5, <2>7
<1>11. CASE m.name \notin rd
  <2>1. m \in mine BY <1>1, <1>11 DEF UnreadOf
  <2>2. p \notin waiting BY <1>4, <1>11 DEF SideOK
  <2>3. Awaits(r, s, b, m) /\ yours = {}
    <3>1. m.key = <<m.key[1], m.index>> BY <1>5
    <3>2. Kept(r, s) BY <1>4, <2>2, SideIsKept
    <3>3. r \in Ratchets(Keys) /\ s \in Ratchets(Keys) /\ Agree(s, b, mine, yours) BY <1>3, <1>4
    <3> QED BY SMTT(30), <2>1, <3>1, <3>2, <3>3, UnreadIsAwaited
  <2>4. m.index <= MaxSkip BY <1>5
  <2>5. d.result = "ok" /\ ReadsOn(r, m, d.ratchet)
    <3>1. Fits(r, m) BY <2>3, <2>4, AwaitedFits
    <3> QED BY <1>1, <1>3, <1>5, <3>1, FitIsRead
  <2>6. PICK t : t = d.ratchet OBVIOUS
  <2>7. SideOK(p, waiting, sent, inbox, t, t, rd \cup {m.name})
    BY <1>3, <1>4, <1>5, <2>2, <2>3, <2>5, <2>6, ReadSide
  <2>8. Agree(t, b, mine \ {m}, yours) /\ Agree(b, t, yours, mine \ {m})
    <3>1. mine \in SUBSET Messages BY <1>5
    <3>2. \A x \in mine : x.key = <<x.key[1], x.index>> BY <1>5
    <3>3. \A x, y \in mine : x.key = y.key => x = y BY <1>5
    <3> QED BY <1>3, <1>4, <2>1, <2>3, <2>5, <2>6, <3>1, <3>2, <3>3, ReadAgrees
  <2>9. UnreadOf(inbox, rd \cup {m.name}) = mine \ {m} BY <1>1, <1>5 DEF UnreadOf
  <2>10. t \in Ratchets(Keys) BY <2>5, <2>6 DEF ReadsOn
  <2>11. h.ratchet = t /\ h.saved = t /\ h.read = rd \cup {m.name} BY <1>6, <2>5, <2>6
  <2>12. Base(p, h.ratchet) = t /\ Base(p, h.saved) = t BY <1>8, <2>10, <2>11
  <2>13. b.state # "Receiving" BY <2>3 DEF Awaits
  <2>14. PairAt(p, waiting, sent, inbox, b, yours, h)
    BY <2>7, <2>8, <2>9, <2>11, <2>12, <2>13 DEF PairAt
  <2> QED BY <2>11, <2>14
<1> QED BY <1>10, <1>11

(* What each message keeps all of them keep, and all of them are read if   *)
(* the chain of none was forgotten.                                        *)
LEMMA FoldReads ==
  ASSUME NEW p, NEW S, NEW at \in S, NEW M, NEW ms \in Seq(M),
         \A a \in S : \A m \in M :
           /\ Handle(p, a, m) \in S
           /\ a.read \subseteq Handle(p, a, m).read /\ a.forgot \subseteq Handle(p, a, m).forgot
           /\ Handle(p, a, m).forgot = {} => m.name \in Handle(p, a, m).read
  PROVE  /\ HandleAll(p, at, ms) \in S
         /\ HandleAll(p, at, ms).forgot = {} => \A i \in 1..Len(ms) : ms[i].name \in HandleAll(p, at, ms).read
<1>1. PICK g : FoldsOver(p, at, ms, Len(ms), g) /\ HandleAll(p, at, ms) = g[1..Len(ms)]
  BY FoldIs
<1>2. Len(ms) \in Nat OBVIOUS
<1> DEFINE T == {k \in Nat : k <= Len(ms) =>
                   g[1..k] \in S /\ (g[1..k].forgot = {} => \A i \in 1..k : ms[i].name \in g[1..k].read)}
<1>3. \A s \in SUBSET (1..Len(ms)) : g[s] = FoldStep(p, at, ms, g, s)
  BY <1>1 DEF FoldsOver
<1>4. 0 \in T
  <2>1. g[1..0] = FoldStep(p, at, ms, g, 1..0) /\ 1..0 = {} BY <1>2, <1>3
  <2> QED BY <2>1 DEF FoldStep
<1>5. ASSUME NEW k \in T PROVE k + 1 \in T
  <2> SUFFICES ASSUME k + 1 <= Len(ms)
               PROVE  /\ g[1..(k + 1)] \in S
                      /\ g[1..(k + 1)].forgot = {} => \A i \in 1..(k + 1) : ms[i].name \in g[1..(k + 1)].read
    BY <1>5
  <2>1. g[1..k] \in S /\ (g[1..k].forgot = {} => \A i \in 1..k : ms[i].name \in g[1..k].read) BY <1>2, <1>5
  <2>2. k \in Nat /\ k + 1 \in 1..(k + 1) /\ 1..(k + 1) \in SUBSET (1..Len(ms)) BY <1>2, <1>5
  <2>3. Max(1..(k + 1)) = k + 1 BY <2>2, MaxOfLast
  <2>4. (1..(k + 1)) \ {k + 1} = 1..k BY SMTT(30), <2>2
  <2>5. PICK a, m : a = g[1..k] /\ m = ms[k + 1] OBVIOUS
  <2>6. g[1..(k + 1)] = Handle(p, a, m)
    BY <1>3, <2>2, <2>3, <2>4, <2>5 DEF FoldStep
  <2>7. a \in S /\ m \in M BY <1>2, <2>1, <2>2, <2>5
  <2>8. /\ g[1..(k + 1)] \in S
        /\ a.read \subseteq g[1..(k + 1)].read /\ a.forgot \subseteq g[1..(k + 1)].forgot
        /\ g[1..(k + 1)].forgot = {} => m.name \in g[1..(k + 1)].read
    BY <2>6, <2>7
  <2>9. \A i \in 1..(k + 1) : i \in 1..k \/ i = k + 1 BY <2>2
  <2> QED BY <2>1, <2>5, <2>8, <2>9
<1> HIDE DEF T
<1>6. T = Nat BY <1>4, <1>5, AllNumbers DEF T
<1> QED BY <1>1, <1>2, <1>6 DEF T

(* The mailbox of a peer is as InboxOK says.                               *)
LEMMA MailIsOK ==
  ASSUME Typed, KeyInv, WithinLimits, NEW p \in Peers
  PROVE  InboxOK(p, Inbox(p))
<1>1. \A m \in Inbox(p) : m \in Messages /\ m.pub[1] # p /\ m.key[2] = m.index BY InboxTyped DEF WrittenBy
<1>2. \A m \in Inbox(p) : m.key = <<m.key[1], m.index>> BY <1>1 DEF Messages
<1>3. \A x, y \in Inbox(p) : x.name = y.name => x = y BY DEF KeyInv
<1>4. \A x, y \in Inbox(p) : x.key = y.key => x = y
  <2>1. \A x \in Inbox(p) : x \in Stored BY StoredIsBoxed
  <2> QED BY <1>3, <2>1 DEF KeyInv, KeysAreFresh
<1>5. \A x \in Inbox(p) : x.index <= MaxSkip BY StoredIsBoxed DEF WithinLimits
<1> QED BY <1>1, <1>2, <1>3, <1>4, <1>5 DEF InboxOK

(* All the mail, handled in turn: everything is read, if nothing was       *)
(* forgotten before or on the way.                                         *)
LEMMA FetchedPairs ==
  ASSUME Typed, KeyInv, NEW p \in Peers, NEW at, PeerOK(p, at, made[p], Names(p)), NEW waiting, NEW sent,
         InboxOK(p, Inbox(p)),
         NEW b \in Ratchets(Keys), NEW yours, PairAt(p, waiting, sent, Inbox(p), b, yours, at),
         NEW h, h = HandleAll(p, at, box[p]), h.forgot = {}
  PROVE  /\ PairAt(p, waiting, sent, Inbox(p), b, yours, h) /\ StoredFor(p) \subseteq h.read
         /\ h.ratchet = NoContact => at.ratchet = NoContact
<1>1. PICK k, names, inbox : k = made[p] /\ names = Names(p) /\ inbox = Inbox(p)
  OBVIOUS
<1>2. k \in Nat BY <1>1 DEF Typed
<1> DEFINE S == {a \in Ats(names) : /\ PeerOK(p, a, k, names)
                                    /\ a.forgot = {} => PairAt(p, waiting, sent, inbox, b, yours, a)
                                    /\ a.ratchet = NoContact => at.ratchet = NoContact}
<1>3. at \in S BY <1>1, PeerIsAt
<1>4. ASSUME NEW a \in S, NEW m \in inbox
      PROVE  /\ Handle(p, a, m) \in S
             /\ a.read \subseteq Handle(p, a, m).read /\ a.forgot \subseteq Handle(p, a, m).forgot
             /\ Handle(p, a, m).forgot = {} => m.name \in Handle(p, a, m).read
  <2>1. m \in Messages /\ m.pub[1] # p /\ m.name \in names BY <1>1, InboxTyped
  <2>2. PICK c : c = Handle(p, a, m) OBVIOUS
  <2>3. PeerOK(p, a, k, names) /\ (a.forgot = {} => PairAt(p, waiting, sent, inbox, b, yours, a))
        /\ (a.ratchet = NoContact => at.ratchet = NoContact)
    OBVIOUS
  <2>4. PeerOK(p, c, k, names) /\ c.ratchet # NoContact
    BY <1>2, <2>1, <2>2, <2>3, HandleOK
  <2>5. a.read \subseteq c.read /\ a.forgot \subseteq c.forgot
    <3>1. PICK d : d = Decrypt(Base(p, a.ratchet), m) OBVIOUS
    <3> QED BY <1>2, <2>2, <2>3, <3>1, HandleBase
  <2>6. c.forgot = {} => PairAt(p, waiting, sent, inbox, b, yours, c) /\ m.name \in c.read
    <3>1. InboxOK(p, inbox) BY <1>1
    <3>2. c.forgot = {} => PairAt(p, waiting, sent, inbox, b, yours, a) BY <2>3, <2>5
    <3> QED BY <1>2, <2>2, <2>3, <3>1, <3>2, HandlePairs
  <2> QED BY <2>2, <2>3, <2>4, <2>5, <2>6, PeerIsAt
<1> HIDE DEF S
<1>5. PICK ms : ms = box[p] OBVIOUS
<1>6. ms \in Seq(inbox) BY <1>1, <1>5, BoxIsInbox
<1>7. h \in S /\ \A i \in 1..Len(ms) : ms[i].name \in h.read BY <1>3, <1>4, <1>5, <1>6, FoldReads
<1> QED BY <1>1, <1>5, <1>7 DEF S, StoredFor

-----------------------------------------------------------------------------
(* The steps of the peers.                                                 *)

LEMMA Ratchets2 ==
  ASSUME Typed, NEW p \in Peers
  PROVE  /\ RatchetOK(p, Memory(p), made[p]) /\ RatchetOK(p, Disk(p), made[p])
         /\ Memory(p) \in Ratchets(Keys) /\ Disk(p) \in Ratchets(Keys)
<1>1. PICK n, at, names : n = made[p] /\ at = At(p) /\ names = Names(p) OBVIOUS
<1>2. n \in Nat /\ PeerOK(p, at, n, names) BY <1>1 DEF Typed
<1>3. RatchetOK(p, Base(p, at.ratchet), n) /\ RatchetOK(p, Base(p, at.saved), n) BY <1>2, BasesOK
<1>4. at.ratchet = ratchet[p] /\ at.saved = saved[p] BY <1>1, AtFields
<1>5. RatchetOK(p, Memory(p), n) /\ RatchetOK(p, Disk(p), n) BY <1>3, <1>4 DEF Memory, Disk
<1> QED BY <1>1, <1>5 DEF RatchetOK, RatchetSound

LEMMA PairHere ==
  ASSUME Typed, PairInv, NEW p \in Peers
  PROVE  PairAt(p, stuck, Inbox(Other(p)), Inbox(p), Disk(Other(p)), Unread(Other(p)), At(p))
<1>1. PICK q : q = Other(p) OBVIOUS
<1>2. q \in Peers /\ Other(q) = p BY <1>1, TwoPeers
<1>3. Base(p, At(p).ratchet) = Memory(p) /\ Base(p, At(p).saved) = Disk(p) /\ At(p).read = read[p]
      /\ At(p).saved = saved[p]
  BY AtFields DEF Memory, Disk
<1>4. Unread(p) = UnreadOf(Inbox(p), read[p]) BY DEF Unread
<1>5. SideOK(p, stuck, Inbox(q), Inbox(p), Memory(p), Disk(p), read[p]) BY <1>1 DEF PairInv
<1>6. Agree(Disk(p), Disk(q), Unread(p), Unread(q)) BY <1>1 DEF PairInv
<1>7. Agree(Disk(q), Disk(p), Unread(q), Unread(p)) BY <1>2 DEF PairInv
<1>8. Disk(p).state = "Receiving" /\ Disk(q).state = "Receiving" => saved[p] = NoContact BY <1>1 DEF PairInv
<1> QED BY <1>1, <1>3, <1>4, <1>5, <1>6, <1>7, <1>8 DEF PairAt

LEMMA SideStays ==
  ASSUME NEW p, NEW w, NEW w2, (p \in w) = (p \in w2), NEW sent, NEW inbox, NEW r, NEW s, NEW names,
         SideOK(p, w, sent, inbox, r, s, names)
  PROVE  SideOK(p, w2, sent, inbox, r, s, names)
BY DEF SideOK, Ahead

(* A step of one peer that sends nothing.                                  *)
LEMMA SidePair ==
  ASSUME Typed, PairInv, NEW p \in Peers, NEW at, Becomes(p, at), UNCHANGED box,
         PeerOK(p, at, made[p], Names(p)),
         PairAt(p, stuck', Inbox(Other(p)), Inbox(p), Disk(Other(p)), Unread(Other(p)), at),
         stuck' \in {stuck, stuck \ {p}}, at.ratchet = NoContact => ratchet[p] = NoContact
  PROVE  PairInv'
<1>1. PICK q : q = Other(p) OBVIOUS
<1>2. q \in Peers /\ q # p /\ Other(q) = p /\ \A x \in Peers : x = p \/ x = q BY <1>1, TwoPeers
<1>3. /\ ratchet'[p] = at.ratchet /\ saved'[p] = at.saved /\ read'[p] = at.read
      /\ ratchet'[q] = ratchet[q] /\ saved'[q] = saved[q] /\ read'[q] = read[q]
  BY <1>2 DEF Typed, Becomes
<1>4. Inbox(p)' = Inbox(p) /\ Inbox(q)' = Inbox(q) BY DEF Inbox
<1>5. /\ Memory(q)' = Memory(q) /\ Disk(q)' = Disk(q) /\ Unread(q)' = Unread(q)
      /\ Memory(p)' = Base(p, at.ratchet) /\ Disk(p)' = Base(p, at.saved) /\ Unread(p)' = UnreadOf(Inbox(p), at.read)
  BY <1>3, <1>4 DEF Memory, Disk, Unread
<1>6. /\ SideOK(p, stuck', Inbox(q), Inbox(p), Base(p, at.ratchet), Base(p, at.saved), at.read)
      /\ Agree(Base(p, at.saved), Disk(q), UnreadOf(Inbox(p), at.read), Unread(q))
      /\ Agree(Disk(q), Base(p, at.saved), Unread(q), UnreadOf(Inbox(p), at.read))
      /\ Base(p, at.saved).state = "Receiving" /\ Disk(q).state = "Receiving" => at.saved = NoContact
  BY <1>1 DEF PairAt
<1>7. SideOK(q, stuck', Inbox(p), Inbox(q), Memory(q), Disk(q), read[q])
  <2>1. SideOK(q, stuck, Inbox(p), Inbox(q), Memory(q), Disk(q), read[q]) BY <1>2 DEF PairInv
  <2>2. (q \in stuck') = (q \in stuck) BY <1>2
  <2> QED BY <2>1, <2>2 DEF SideOK, Ahead
<1>8. \A x \in Peers : SideOK(x, stuck, Inbox(Other(x)), Inbox(x), Memory(x), Disk(x), read[x])'
  BY <1>1, <1>2, <1>3, <1>4, <1>5, <1>6, <1>7
<1>9. \A x \in Peers : Agree(Disk(x), Disk(Other(x)), Unread(x), Unread(Other(x)))'
  BY <1>1, <1>2, <1>5, <1>6
<1>10. \A x \in Peers : (Disk(x).state = "Receiving" /\ Disk(Other(x)).state = "Receiving" => saved[x] = NoContact)'
  <2> SUFFICES ASSUME Base(p, at.saved).state = "Receiving", Disk(q).state = "Receiving"
               PROVE  at.saved = NoContact /\ saved[q] = NoContact
    BY <1>1, <1>2, <1>3, <1>5
  <2>1. at.saved = NoContact BY <1>6
  <2>2. ratchet[p] = NoContact BY <2>1 DEF PeerOK
  <2>3. saved[p] = NoContact
    <3>1. PeerOK(p, At(p), made[p], Names(p)) BY DEF Typed
    <3> QED BY <2>2, <3>1, AtFields DEF PeerOK
  <2>4. Disk(p).state = "Receiving" BY <2>1, <2>3 DEF Disk
  <2> QED BY <1>2, <2>1, <2>4 DEF PairInv
<1>11. \A x \in Peers : (x \in stuck => Other(x) \notin stuck /\ ratchet[x] # NoContact)'
  BY <1>1, <1>2, <1>3 DEF PairInv
<1> QED BY <1>8, <1>9, <1>10, <1>11 DEF PairInv

LEMMA QuietPair ==
  ASSUME PairInv, UNCHANGED <<ratchet, saved, stuck, box, read>>
  PROVE  PairInv'
<1>1. \A x \in Peers : /\ Inbox(x)' = Inbox(x) /\ Memory(x)' = Memory(x) /\ Disk(x)' = Disk(x)
                       /\ Unread(x)' = Unread(x)
  BY DEF Inbox, Memory, Disk, Unread
<1>2. \A x \in Peers : Other(x) \in Peers BY TwoPeers
<1>3. \A x \in Peers : SideOK(x, stuck, Inbox(Other(x)), Inbox(x), Memory(x), Disk(x), read[x])'
  BY <1>1, <1>2 DEF PairInv
<1>4. \A x \in Peers : Agree(Disk(x), Disk(Other(x)), Unread(x), Unread(Other(x)))' BY <1>1, <1>2 DEF PairInv
<1>5. \A x \in Peers : (Disk(x).state = "Receiving" /\ Disk(Other(x)).state = "Receiving" => saved[x] = NoContact)'
  BY <1>1, <1>2 DEF PairInv
<1>6. \A x \in Peers : (x \in stuck => Other(x) \notin stuck /\ ratchet[x] # NoContact)' BY DEF PairInv
<1> QED BY <1>3, <1>4, <1>5, <1>6 DEF PairInv

LEMMA PushPairs ==
  ASSUME Typed, KeyInv, PairInv, WithinLimits, WithinLimits', NEW p \in Peers, ReceivePush(p)
  PROVE  PairInv' /\ box[p][pushed[p] + 1].name \in read'[p]
<1>1. PICK m, at, h : m = box[p][pushed[p] + 1] /\ at = At(p) /\ h = Handle(p, at, m) OBVIOUS
<1>2. PICK q, k, names, inbox, sent, b, yours, waiting :
        /\ q = Other(p) /\ k = made[p] /\ names = Names(p) /\ inbox = Inbox(p) /\ sent = Inbox(q)
        /\ b = Disk(q) /\ yours = Unread(q) /\ waiting = stuck
  OBVIOUS
<1>3. pushed[p] < Len(box[p]) /\ Becomes(p, h) /\ UNCHANGED <<box, stuck>> /\ ratchet[p] # NoContact
  BY <1>1 DEF ReceivePush
<1>4. pushed[p] \in Nat /\ Len(box[p]) \in Nat BY BoxIsInbox DEF Typed
<1>5. m \in inbox BY <1>1, <1>2, <1>3, <1>4 DEF Inbox
<1>6. k \in Nat /\ PeerOK(p, at, k, names) BY <1>1, <1>2 DEF Typed
<1>7. q \in Peers BY <1>2, TwoPeers
<1>8. h.forgot = {}
  <2>1. forgot'[p] = h.forgot BY <1>3 DEF Becomes, Typed
  <2> QED BY <2>1 DEF WithinLimits
<1>9. b \in Ratchets(Keys) BY <1>2, <1>7, Ratchets2
<1>10. PairAt(p, waiting, sent, inbox, b, yours, at) BY <1>1, <1>2, PairHere
<1>11. InboxOK(p, inbox) BY <1>2, MailIsOK
<1>12. PairAt(p, waiting, sent, inbox, b, yours, h) /\ m.name \in h.read
  BY <1>1, <1>5, <1>6, <1>8, <1>9, <1>10, <1>11, HandlePairs
<1>13. m \in Messages /\ m.pub[1] # p /\ m.name \in names BY <1>2, <1>5, InboxTyped
<1>14. PeerOK(p, h, k, names) BY <1>1, <1>6, <1>13, HandleOK
<1>15. PairInv'
  <2>1. stuck' = stuck BY <1>3
  <2>2. PairAt(p, stuck', Inbox(Other(p)), Inbox(p), Disk(Other(p)), Unread(Other(p)), h)
    BY <1>2, <1>12, <2>1
  <2>3. h.ratchet = NoContact => ratchet[p] = NoContact
    <3>1. m.name \in h.read BY <1>12
    <3> QED BY <1>14, <3>1 DEF PeerOK
  <2> QED BY <1>2, <1>3, <1>14, <2>1, <2>2, <2>3, SidePair
<1>16. read'[p] = h.read BY <1>3 DEF Becomes, Typed
<1> QED BY <1>1, <1>12, <1>15, <1>16

(* What is loaded at a login is the saved ratchet, for both.               *)
LEMMA LoadedPair ==
  ASSUME NEW p, NEW waiting, NEW sent, NEW inbox, NEW b, NEW yours, NEW at,
         PairAt(p, waiting, sent, inbox, b, yours, at), NEW w2, p \notin w2,
         NEW st, st.ratchet = at.saved, st.saved = at.saved, st.read = at.read
  PROVE  PairAt(p, w2, sent, inbox, b, yours, st)
<1>1. PICK r, s, rd : r = Base(p, at.ratchet) /\ s = Base(p, at.saved) /\ rd = at.read OBVIOUS
<1>2. SideOK(p, waiting, sent, inbox, r, s, rd) BY <1>1 DEF PairAt
<1>3. Ahead(p, w2, sent, s, s) BY DEF Ahead
<1>4. SideOK(p, w2, sent, inbox, s, s, rd) BY <1>2, <1>3 DEF SideOK
<1>5. Base(p, st.ratchet) = s /\ Base(p, st.saved) = s /\ st.read = rd BY <1>1
<1> QED BY <1>1, <1>4, <1>5 DEF PairAt

LEMMA LoginPairs ==
  ASSUME Typed, KeyInv, PairInv, WithinLimits, WithinLimits', NEW p \in Peers, Login(p)
  PROVE  PairInv' /\ StoredFor(p) \subseteq read'[p]
<1>1. PICK at : at = At(p) OBVIOUS
<1>2. PICK st : st = [at EXCEPT !.ratchet = at.saved] OBVIOUS
<1>3. PICK h : h = HandleAll(p, st, box[p]) OBVIOUS
<1>4. PICK q, k, names, inbox, sent, b, yours, waiting, w2 :
        /\ q = Other(p) /\ k = made[p] /\ names = Names(p) /\ inbox = Inbox(p) /\ sent = Inbox(q)
        /\ b = Disk(q) /\ yours = Unread(q) /\ waiting = stuck /\ w2 = stuck \ {p}
  OBVIOUS
<1>5. k \in Nat /\ PeerOK(p, at, k, names) BY <1>1, <1>4 DEF Typed
<1>6. /\ PeerOK(p, st, k, names)
      /\ st.ratchet = at.saved /\ st.saved = at.saved /\ st.read = at.read
  BY <1>2, <1>5, LoginStart
<1>7. q \in Peers BY <1>4, TwoPeers
<1>8. Becomes(p, h) /\ UNCHANGED box /\ stuck' = stuck \ {p}
  <2>1. st = [At(p) EXCEPT !.ratchet = saved[p]] BY <1>1, <1>2, AtFields
  <2> QED BY <1>3, <2>1 DEF Login, HandleAll
<1>9. b \in Ratchets(Keys) BY <1>4, <1>7, Ratchets2
<1>10. PairAt(p, waiting, sent, inbox, b, yours, at) BY <1>1, <1>4, PairHere
<1>11. p \notin w2 BY <1>4
<1>12. PairAt(p, w2, sent, inbox, b, yours, st) BY <1>6, <1>10, <1>11, LoadedPair
<1>13. InboxOK(p, inbox) BY <1>4, MailIsOK
<1>14. h.forgot = {}
  <2>1. forgot'[p] = h.forgot BY <1>8 DEF Becomes, Typed
  <2> QED BY <2>1 DEF WithinLimits
<1>15. /\ PairAt(p, w2, sent, inbox, b, yours, h) /\ StoredFor(p) \subseteq h.read
       /\ h.ratchet = NoContact => st.ratchet = NoContact
  BY <1>3, <1>4, <1>6, <1>9, <1>12, <1>13, <1>14, FetchedPairs
<1>16. PeerOK(p, h, k, names) BY <1>3, <1>4, <1>6, FetchedOK
<1>17. read'[p] = h.read BY <1>8 DEF Becomes, Typed
<1>18. PairInv'
  <2>1. PairAt(p, stuck', Inbox(Other(p)), Inbox(p), Disk(Other(p)), Unread(Other(p)), h)
    BY <1>4, <1>8, <1>15
  <2>2. h.ratchet = NoContact => ratchet[p] = NoContact
    <3>1. at.ratchet = ratchet[p] BY <1>1, AtFields
    <3> QED BY <1>5, <1>6, <1>15, <3>1 DEF PeerOK
  <2> QED BY <1>4, <1>8, <1>16, <2>1, <2>2, SidePair
<1> QED BY <1>15, <1>17, <1>18

(* A new contact is even with the other.                                   *)
LEMMA StartAgrees ==
  ASSUME NEW o \in Ratchets(Keys), NEW a \in Ratchets(Keys), NEW b \in Ratchets(Keys),
         a.cur = o.cur, a.prev = o.prev, a.keyPair = o.keyPair, o.state = "Receiving", o.prev = <<>>,
         Even(o, b) => b.prev = <<>>,
         NEW mine, NEW yours, Agree(o, b, mine, yours), Agree(b, o, yours, mine), yours = {}
  PROVE  Agree(a, b, mine, yours) /\ Agree(b, a, yours, mine)
<1>1. Even(o, b) BY DEF Agree, Turned
<1>2. Even(a, b) /\ Even(b, a) /\ Even(b, o) BY <1>1 DEF Even
<1>3. ~ Turned(a, b) /\ ~ Turned(b, a) BY <1>2, EvenIsNotTurned
<1>4. /\ a.cur.next <= b.cur.next \/ LatestIn(a, yours)
      /\ b.cur.next <= a.cur.next \/ LatestIn(b, mine)
  <2>1. o.cur.next <= b.cur.next \/ LatestIn(o, yours) BY <1>1 DEF Agree
  <2>2. b.cur.next <= o.cur.next \/ LatestIn(b, mine) BY <1>2 DEF Agree
  <2> QED BY <2>1, <2>2 DEF LatestIn
<1>5. /\ mine # {} => b.state = "Sending"
      /\ \A m \in mine : /\ m.pub = b.keyPair /\ m.key[1] = b.cur.root /\ m.index < b.cur.next
                         /\ Closed(a.cur, m.index)
  BY <1>1 DEF Agree
<1> QED BY <1>1, <1>2, <1>3, <1>4, <1>5 DEF Agree

LEMMA AddContactPairs ==
  ASSUME Typed, KeyInv, PairInv, NEW p \in Peers, AddContact(p)
  PROVE  PairInv'
<1>1. PICK a, o : /\ a = NewDHRatchet(Identity(p), Identity(Other(p)), "Sending")
                  /\ o = NewDHRatchet(Identity(p), Identity(Other(p)), "Receiving")
  OBVIOUS
<1>2. PICK at : at = [ratchet |-> a, saved |-> a, read |-> {}, forgot |-> {}] OBVIOUS
<1>3. PICK q, k, names, inbox, sent, b, waiting, j :
        /\ q = Other(p) /\ k = made[p] /\ names = Names(p) /\ inbox = Inbox(p) /\ sent = Inbox(q)
        /\ b = Disk(q) /\ waiting = stuck /\ j = made[q]
  OBVIOUS
<1>4. k \in Nat /\ PeerOK(p, At(p), k, names) BY <1>3 DEF Typed
<1>5. /\ PeerRatchet(p, a, k) /\ RatchetOK(p, o, k) /\ a.keyPair = o.keyPair /\ a.state = "Sending"
      /\ o.state = "Receiving" /\ a.cur.root = Root0 /\ o.cur.root = Root0
  BY <1>1, <1>4, FirstRatchet DEF PeerRatchet
<1>6. a.cur = o.cur /\ a.prev = o.prev /\ o.prev = <<>> BY <1>1 DEF NewDHRatchet
<1>7. a \in Ratchets(Keys) /\ o \in Ratchets(Keys) /\ a # NoContact
  BY <1>4, <1>5, RatchetIsContact DEF PeerRatchet, RatchetOK, RatchetSound
<1>8. at.ratchet = a /\ at.saved = a /\ at.read = {} /\ at.forgot = {} BY <1>2
<1>9. read[p] = {} /\ forgot[p] = {} /\ ratchet[p] = NoContact /\ saved[p] = NoContact
  BY <1>4, AtFields DEF PeerOK, AddContact
<1>10. PeerOK(p, at, k, names) BY <1>2, <1>5, <1>7, <1>8 DEF PeerOK
<1>11. sent = {} BY <1>3, <1>9, AtFields DEF KeyInv, PeerPassed
<1>12. Unread(q) = {} BY <1>3, <1>11 DEF Unread, UnreadOf
<1>13. q \in Peers /\ RatchetOK(q, b, j) /\ b \in Ratchets(Keys) BY <1>3, TwoPeers, Ratchets2
<1>14. Base(p, NoContact) = o /\ Base(p, a) = a BY <1>1, <1>7 DEF Base
<1>15. PairAt(p, waiting, sent, inbox, b, {}, At(p)) BY <1>3, <1>12, PairHere
<1>16. SideOK(p, waiting, sent, inbox, o, o, {}) /\ Agree(o, b, UnreadOf(inbox, {}), {})
       /\ Agree(b, o, {}, UnreadOf(inbox, {}))
  BY <1>9, <1>14, <1>15, AtFields DEF PairAt
<1>17. Even(o, b) => b.prev = <<>>
  <2>1. Even(o, b) => b.cur.root = Root0 BY <1>5 DEF Even
  <2> QED BY <1>13, <2>1 DEF RatchetOK
<1>18. Agree(a, b, UnreadOf(inbox, {}), {}) /\ Agree(b, a, {}, UnreadOf(inbox, {}))
  <2>1. PICK mine : mine = UnreadOf(inbox, {}) OBVIOUS
  <2> QED BY <1>5, <1>6, <1>7, <1>13, <1>16, <1>17, <2>1, StartAgrees
<1>19. SideOK(p, waiting, sent, inbox, a, a, {})
  <2>1. Places(a) = Places(o) /\ \A i \in Places(o) : ChainAt(a, i) = ChainAt(o, i)
    BY <1>6 DEF Places, ChainAt
  <2>2. Growing(a) BY <1>6, <1>16, <2>1 DEF Growing, SideOK
  <2>3. p \notin waiting BY <1>3, <1>9 DEF PairInv
  <2> QED BY <1>5, <1>16, <2>1, <2>2, <2>3 DEF SideOK, Ahead
<1>20. PairAt(p, waiting, sent, inbox, b, {}, at) BY <1>5, <1>8, <1>14, <1>18, <1>19 DEF PairAt
<1>21. Becomes(p, at)
  <2>1. ratchet' = [ratchet EXCEPT ![p] = a] BY <1>1 DEF AddContact
  <2>2. ratchet'[p] = a BY <2>1 DEF Typed
  <2>3. saved' = [saved EXCEPT ![p] = a] BY <2>2 DEF AddContact
  <2>4. read' = [read EXCEPT ![p] = {}] /\ forgot' = [forgot EXCEPT ![p] = {}] BY <1>9 DEF AddContact, Typed
  <2> QED BY <1>8, <2>1, <2>3, <2>4 DEF Becomes
<1>22. UNCHANGED <<box, stuck>> BY DEF AddContact
<1>23. PairAt(p, stuck', Inbox(Other(p)), Inbox(p), Disk(Other(p)), Unread(Other(p)), at)
  BY <1>3, <1>12, <1>20, <1>22
<1> QED BY <1>3, <1>9, <1>10, <1>21, <1>22, <1>23, SidePair

(* Before anything is sent.                                                *)
LEMMA InitPairs == Init /\ Typed => PairInv
<1> SUFFICES ASSUME Init, Typed PROVE PairInv OBVIOUS
<1>1. /\ \A p \in Peers : Inbox(p) = {}
      /\ \A p \in Peers : Memory(p) = Base(p, NoContact) /\ Disk(p) = Base(p, NoContact)
                          /\ Unread(p) = {} /\ saved[p] = NoContact /\ read[p] = {}
  <2>1. \A p \in Peers : Len(box[p]) = 0 BY DEF Init
  <2>2. \A p \in Peers : Inbox(p) = {} BY <2>1 DEF Inbox
  <2> QED BY <2>2, TwoPeers DEF Init, Memory, Disk, Unread, UnreadOf
<1>2. stuck = {} BY DEF Init
<1>3. ASSUME NEW p \in Peers
      PROVE  /\ SideOK(p, {}, {}, {}, Base(p, NoContact), Base(p, NoContact), {})
             /\ Agree(Base(p, NoContact), Base(Other(p), NoContact), {}, {})
  <2>1. PICK q : q = Other(p) OBVIOUS
  <2>2. q \in Peers /\ Other(q) = p BY <2>1, TwoPeers
  <2>3. PICK r, b : r = Base(p, NoContact) /\ b = Base(q, NoContact) OBVIOUS
  <2>4. r = NewDHRatchet(Identity(p), Identity(q), "Receiving") /\ b = NewDHRatchet(Identity(q), Identity(p), "Receiving")
    BY <2>1, <2>2, <2>3 DEF Base
  <2>5. /\ r \in Ratchets(Keys) /\ b \in Ratchets(Keys) /\ r.cur.root = Root0 /\ b.cur.root = Root0
        /\ r.keyPair = Identity(p) /\ b.keyPair = Identity(q) /\ r.cur.next = 0 /\ b.cur.next = 0
        /\ r.state = "Receiving" /\ b.state = "Receiving"
    BY <2>1, <2>2, <2>4, FirstRatchet DEF RatchetOK, RatchetSound
  <2>6. r.prev = <<>> /\ r.cur.foreign = Identity(q) /\ b.cur.foreign = Identity(p)
    BY <2>4 DEF NewDHRatchet, NewMessageRatchet
  <2>7. Even(r, b) BY <2>5, <2>6 DEF Even
  <2>8. Agree(r, b, {}, {}) BY <2>5, <2>7 DEF Agree, Turned
  <2>9. Places(r) = {1} /\ ChainAt(r, 1) = r.cur /\ Len(r.prev) = 0
    BY <2>6 DEF Places, ChainAt
  <2>10. Growing(r) BY <2>9 DEF Growing
  <2>11. SideOK(p, {}, {}, {}, r, r, {}) BY <2>1, <2>6, <2>9, <2>10 DEF SideOK, Ahead
  <2> QED BY <2>1, <2>3, <2>8, <2>11
<1>4. \A p \in Peers : Other(p) \in Peers BY TwoPeers
<1> QED BY <1>1, <1>2, <1>3, <1>4 DEF PairInv

(* What Encrypt makes of a ratchet: one step on its chain, or a turn with  *)
(* the key pair k.                                                         *)
Written(k, r0, r, m) ==
  /\ r \in Ratchets(Keys) /\ r.state = "Sending" /\ m.index \in Nat
  /\ m.pub = r.keyPair /\ m.key = <<r.cur.root, m.index>> /\ r.cur.next = m.index + 1
  /\ \/ r0.state = "Sending" /\ Alike(r, r0) /\ m.index = r0.cur.next /\ r.cur.skipped = r0.cur.skipped
     \/ /\ r0.state = "Receiving" /\ r.keyPair = k /\ r.prev = Remember(r0.prev, r0.cur) /\ m.index = 0
        /\ r.cur.foreign = r0.cur.foreign /\ r.cur.root = Append(r0.cur.root, Secret(k, r0.cur.foreign))

LEMMA EncryptWrites ==
  ASSUME NEW r0 \in Ratchets(Keys), NEW k \in Keys, NEW e, e = Encrypt(r0, k),
         Len(r0.prev) <= PrevLimit, NEW m, m.pub = e.pub, m.index = e.index, m.key = e.key
  PROVE  Written(k, r0, e.ratchet, m)
<1>1. /\ r0 = [keyPair |-> r0.keyPair, cur |-> r0.cur, prev |-> r0.prev, index |-> r0.index, state |-> r0.state]
      /\ r0.keyPair \in Keys /\ r0.cur \in Chains(Keys) /\ r0.prev \in Seq(Chains(Keys)) /\ r0.index \in Nat
      /\ r0.state \in {"Sending", "Receiving"} /\ r0.cur.foreign \in Keys /\ r0.cur.root \in Seq(SUBSET Keys)
      /\ r0.cur.next \in Nat /\ r0.cur.skipped \in SUBSET Nat
  BY RatchetShape
<1>2. PICK t : t = Turn(r0, k) OBVIOUS
<1>3. PICK c : c = [t.cur EXCEPT !.next = t.cur.next + 1] OBVIOUS
<1>4. e.ratchet = [t EXCEPT !.cur = c] /\ e.pub = t.keyPair /\ e.index = t.cur.next
      /\ e.key = <<t.cur.root, t.cur.next>>
  <2>1. e.ratchet = [t EXCEPT !.cur.next = t.cur.next + 1] BY <1>2 DEF Encrypt
  <2> QED BY <1>2, <1>3, <2>1 DEF Encrypt, MessageKey
<1>5. CASE r0.state = "Sending"
  <2>1. t = r0 BY <1>2, <1>5 DEF Turn
  <2>2. c \in Chains(Keys) /\ c.foreign = r0.cur.foreign /\ c.root = r0.cur.root /\ c.next = r0.cur.next + 1
        /\ c.skipped = r0.cur.skipped
    <3>1. PICK n : n = r0.cur.next + 1 OBVIOUS
    <3>2. r0.cur = [foreign |-> r0.cur.foreign, root |-> r0.cur.root, next |-> r0.cur.next, skipped |-> r0.cur.skipped]
      BY RatchetShape
    <3>3. c = [r0.cur EXCEPT !.next = n] BY <1>3, <2>1, <3>1
    <3>4. c = [foreign |-> r0.cur.foreign, root |-> r0.cur.root, next |-> n, skipped |-> r0.cur.skipped] BY <3>2, <3>3
    <3>5. n \in Nat BY <1>1, <3>1
    <3> QED BY <1>1, <3>1, <3>4, <3>5 DEF Chains
  <2>3. e.ratchet = [keyPair |-> r0.keyPair, cur |-> c, prev |-> r0.prev, index |-> r0.index, state |-> r0.state]
    BY <1>1, <1>4, <2>1
  <2>4. /\ e.ratchet.keyPair = r0.keyPair /\ e.ratchet.cur = c /\ e.ratchet.prev = r0.prev
        /\ e.ratchet.state = "Sending"
    BY <1>5, <2>3
  <2>5. e.ratchet \in Ratchets(Keys) BY <1>1, <2>2, <2>3 DEF Ratchets
  <2> QED BY <1>1, <1>4, <1>5, <2>1, <2>2, <2>4, <2>5 DEF Written, Alike
<1>6. CASE r0.state = "Receiving"
  <2>1. PICK s, root, f : s = [r0 EXCEPT !.state = "Sending", !.keyPair = k] /\ f = r0.cur.foreign
                          /\ root = Append(r0.cur.root, Secret(k, f))
    OBVIOUS
  <2>2. s = [keyPair |-> k, cur |-> r0.cur, prev |-> r0.prev, index |-> r0.index, state |-> "Sending"]
    BY <1>1, <2>1
  <2>3. s.keyPair = k /\ s.cur = r0.cur /\ s.prev = r0.prev /\ s.index = r0.index /\ s.state = "Sending" BY <2>2
  <2>4. t = RKCycle(s, f) BY <1>2, <1>6, <2>1 DEF Turn
  <2>5. PICK new : new = NewMessageRatchet(root, f) OBVIOUS
  <2>6. new = [foreign |-> f, root |-> root, next |-> 0, skipped |-> {}] BY <2>5 DEF NewMessageRatchet
  <2>7. f \in Keys /\ root \in Seq(SUBSET Keys) BY <1>1, <2>1 DEF Secret
  <2>8. PICK prev : prev = Remember(r0.prev, r0.cur) OBVIOUS
  <2>9. prev \in Seq(Chains(Keys)) BY <1>1, <2>8, Remembered
  <2>10. t = [keyPair |-> k, cur |-> new, prev |-> prev, index |-> r0.index + 1, state |-> "Sending"]
    <3>1. t = [s EXCEPT !.prev = prev, !.cur = new, !.index = r0.index + 1]
      BY <2>1, <2>3, <2>4, <2>5, <2>8 DEF RKCycle
    <3>2. PICK i : i = r0.index + 1 OBVIOUS
    <3>3. t = [s EXCEPT !.prev = prev, !.cur = new, !.index = i] BY <3>1, <3>2
    <3>4. t = [keyPair |-> k, cur |-> new, prev |-> prev, index |-> i, state |-> "Sending"]
      BY <2>2, <3>3
    <3> QED BY <3>2, <3>4
  <2>11. t.keyPair = k /\ t.cur = new /\ t.cur.next = 0 /\ t.cur.root = root BY <2>6, <2>10
  <2>12. c = [foreign |-> f, root |-> root, next |-> 1, skipped |-> {}]
    <3>1. c = [new EXCEPT !.next = 1] BY <1>3, <2>11
    <3> QED BY <2>6, <3>1
  <2>13. c \in Chains(Keys) /\ c.foreign = f /\ c.root = root /\ c.next = 1 BY <2>7, <2>12 DEF Chains
  <2>14. e.ratchet = [keyPair |-> k, cur |-> c, prev |-> prev, index |-> r0.index + 1, state |-> "Sending"]
    BY <1>4, <2>10
  <2>15. e.ratchet.keyPair = k /\ e.ratchet.cur = c /\ e.ratchet.prev = prev /\ e.ratchet.state = "Sending"
    BY <2>14
  <2>16. e.ratchet \in Ratchets(Keys) BY <1>1, <2>9, <2>13, <2>14 DEF Ratchets
  <2>17. m.index = 0 /\ m.pub = k /\ m.key = <<root, 0>> BY <1>4, <2>11
  <2> QED BY <1>6, <2>1, <2>8, <2>13, <2>15, <2>16, <2>17 DEF Written
<1> QED BY <1>1, <1>5, <1>6

(* The same, seen from the saved ratchet.                                  *)
Onward(p, sent, s, r, m) ==
  /\ r.state = "Sending" /\ m.pub = r.keyPair /\ m.key = <<r.cur.root, m.index>> /\ r.cur.next = m.index + 1
  /\ \/ s.state = "Sending" /\ Alike(r, s) /\ m.index >= s.cur.next
     \/ /\ s.state = "Receiving" /\ r.cur.foreign = s.cur.foreign
        /\ r.cur.root = Append(s.cur.root, Secret(r.keyPair, s.cur.foreign))
        /\ r.keyPair # Identity(p) /\ \A x \in sent : x.pub # r.keyPair

LEMMA WrittenOnward ==
  ASSUME NEW p, NEW waiting, NEW sent, NEW r0 \in Ratchets(Keys), NEW s \in Ratchets(Keys), Ahead(p, waiting, sent, r0, s),
         NEW k, k # Identity(p), \A x \in sent : x.pub # k, NEW r, NEW m, Written(k, r0, r, m)
  PROVE  Onward(p, sent, s, r, m)
<1>1. r.state = "Sending" /\ m.pub = r.keyPair /\ m.key = <<r.cur.root, m.index>> /\ r.cur.next = m.index + 1
  BY DEF Written
<1>2. r0.cur.next \in Nat /\ s.cur.next \in Nat /\ s.state \in {"Sending", "Receiving"} BY RatchetShape
<1>3. CASE r0.state = "Sending" /\ Alike(r, r0) /\ m.index = r0.cur.next
  <2>1. CASE r0 = s
    <3>1. m.index >= s.cur.next BY <1>2, <1>3, <2>1
    <3> QED BY <1>1, <1>3, <2>1, <3>1 DEF Onward
  <2>2. CASE s.state = "Sending" /\ Alike(r0, s) /\ r0.cur.next >= s.cur.next
    <3>1. Alike(r, s) BY <1>3, <2>2 DEF Alike
    <3> QED BY <1>1, <1>3, <2>2, <3>1 DEF Onward
  <2>3. CASE /\ s.state = "Receiving" /\ p \in waiting
             /\ r0.state = "Sending" /\ r0.prev = Remember(s.prev, s.cur) /\ r0.cur.foreign = s.cur.foreign
             /\ r0.cur.root = Append(s.cur.root, Secret(r0.keyPair, s.cur.foreign))
             /\ r0.keyPair # Identity(p) /\ \A x \in sent : x.pub # r0.keyPair
    BY <1>1, <1>3, <2>3 DEF Onward, Alike
  <2> QED BY <2>1, <2>2, <2>3 DEF Ahead
<1>4. CASE /\ r0.state = "Receiving" /\ r.keyPair = k /\ m.index = 0
           /\ r.cur.foreign = r0.cur.foreign /\ r.cur.root = Append(r0.cur.root, Secret(k, r0.cur.foreign))
  <2>1. r0 = s BY <1>4 DEF Ahead, Alike
  <2> QED BY <1>1, <1>4, <2>1 DEF Onward
<1> QED BY <1>3, <1>4 DEF Written

LEMMA WrittenKeeps ==
  ASSUME NEW p, NEW waiting, NEW sent, NEW r0 \in Ratchets(Keys), NEW s \in Ratchets(Keys), Ahead(p, waiting, sent, r0, s),
         NEW k, NEW r, NEW m, Written(k, r0, r, m), s.state = "Receiving"
  PROVE  r.prev = Remember(s.prev, s.cur)
<1>1. CASE r0.state = "Sending" /\ Alike(r, r0)
  <2>1. r0.prev = Remember(s.prev, s.cur) BY <1>1 DEF Ahead
  <2> QED BY <1>1, <2>1 DEF Alike
<1>2. CASE r0.state = "Receiving" /\ r.prev = Remember(r0.prev, r0.cur)
  <2>1. r0 = s BY <1>2 DEF Ahead
  <2> QED BY <1>2, <2>1
<1> QED BY <1>1, <1>2 DEF Written

LEMMA TurnedOnce ==
  ASSUME NEW a \in Ratchets(Keys), NEW b \in Ratchets(Keys), Turned(a, b)
  PROVE  ~ Turned(b, a) /\ ~ Even(a, b) /\ ~ Even(b, a)
<1>1. PICK x, y, u, v : /\ x = a.cur.root /\ y = b.cur.root
                        /\ u = Secret(a.keyPair, b.keyPair) /\ v = Secret(b.keyPair, a.keyPair)
  OBVIOUS
<1>2. x \in Seq(SUBSET Keys) /\ y \in Seq(SUBSET Keys) /\ u \in SUBSET Keys /\ v \in SUBSET Keys
  BY <1>1, RatchetShape DEF Secret
<1>3. Len(Append(y, u)) = Len(y) + 1 /\ Len(Append(x, v)) = Len(x) + 1 /\ Len(x) \in Nat /\ Len(y) \in Nat
  BY <1>2
<1>4. x = Append(y, u) BY <1>1 DEF Turned
<1>5. Len(x) = Len(y) + 1 BY <1>3, <1>4
<1>6. ~ Turned(b, a)
  <2>1. ASSUME Turned(b, a) PROVE FALSE
    <3>1. y = Append(x, v) BY <1>1, <2>1 DEF Turned
    <3>2. Len(y) = Len(x) + 1 BY <1>3, <3>1
    <3> QED BY <1>3, <1>5, <3>2
  <2> QED BY <2>1
<1>7. x # y BY <1>3, <1>5
<1> QED BY <1>1, <1>6, <1>7 DEF Even

(* Both ratchets agree on the message that p writes when it has read all   *)
(* of the other's: r is p's after it, s the one before it that is saved.   *)
LEMMA DraftAgrees ==
  ASSUME NEW p, NEW sent, NEW s \in Ratchets(Keys), NEW r \in Ratchets(Keys), NEW b \in Ratchets(Keys),
         NEW m, m.index \in Nat, Onward(p, sent, s, r, m), NEW yours, \A x \in yours : x.index \in Nat,
         Agree(s, b, {}, yours), Agree(b, s, yours, {}), s.state = "Receiving" => b.state = "Sending",
         \A i \in Places(b) : ChainAt(b, i).foreign = Identity(p) \/ \E x \in sent : x.pub = ChainAt(b, i).foreign
  PROVE  Agree(r, b, {}, yours \cup {m}) /\ Agree(b, r, yours \cup {m}, {})
<1>1. r.state = "Sending" /\ m.pub = r.keyPair /\ m.key[1] = r.cur.root /\ r.cur.next = m.index + 1
  BY DEF Onward
<1>2. r.cur.next \in Nat /\ s.cur.next \in Nat /\ b.cur.next \in Nat BY RatchetShape
<1>3. ~ LatestIn(b, {}) BY DEF LatestIn
<1>4. ~ Turned(b, s) BY <1>3 DEF Agree
<1>5. LatestIn(r, yours \cup {m}) BY <1>1 DEF LatestIn
<1>6. CASE s.state = "Sending" /\ Alike(r, s) /\ m.index >= s.cur.next
  <2>1. \A x \in yours : x.pub = s.keyPair /\ x.key[1] = s.cur.root /\ x.index < s.cur.next
                         /\ (Even(b, s) => Closed(b.cur, x.index))
    BY DEF Agree
  <2>2. \A x \in yours \cup {m} : x.pub = r.keyPair /\ x.key[1] = r.cur.root /\ x.index < r.cur.next
    BY <1>1, <1>2, <1>6, <2>1 DEF Alike
  <2>3. CASE Even(s, b)
    <3>1. Even(r, b) /\ Even(b, r) /\ Even(b, s) BY <1>6, <2>3 DEF Even, Alike
    <3>2. ~ Turned(r, b) /\ ~ Turned(b, r) BY <3>1, EvenIsNotTurned
    <3>3. b.state = "Sending" => r.prev = <<>> /\ b.prev = <<>> BY <1>6, <2>3, <3>1 DEF Agree, Alike
    <3>4. b.cur.next <= s.cur.next BY <1>3, <3>1 DEF Agree
    <3>5. b.cur.next <= r.cur.next /\ m.index >= b.cur.next BY <1>1, <1>2, <1>6, <3>4
    <3>6. \A x \in yours \cup {m} : Closed(b.cur, x.index) BY <2>1, <3>1, <3>5 DEF Closed
    <3>7. Agree(r, b, {}, yours \cup {m}) BY <1>5, <3>1, <3>2, <3>3 DEF Agree
    <3>8. Agree(b, r, yours \cup {m}, {}) BY <1>1, <2>2, <3>1, <3>2, <3>3, <3>5, <3>6 DEF Agree
    <3> QED BY <3>7, <3>8
  <2>4. CASE Turned(s, b)
    <3>1. Turned(r, b) BY <1>1, <1>6, <2>4 DEF Turned, Alike
    <3>2. ~ Turned(b, r) /\ ~ Even(r, b) /\ ~ Even(b, r) BY <3>1, TurnedOnce
    <3>3. Agree(r, b, {}, yours \cup {m}) BY <1>5, <3>1, <3>2 DEF Agree
    <3>4. Agree(b, r, yours \cup {m}, {}) BY <1>1, <2>2, <3>1, <3>2 DEF Agree
    <3> QED BY <3>3, <3>4
  <2> QED BY <1>4, <2>3, <2>4 DEF Agree
<1>7. CASE /\ s.state = "Receiving" /\ r.cur.foreign = s.cur.foreign
           /\ r.cur.root = Append(s.cur.root, Secret(r.keyPair, s.cur.foreign))
           /\ r.keyPair # Identity(p) /\ \A x \in sent : x.pub # r.keyPair
  <2>1. Even(s, b) /\ yours = {} /\ b.state = "Sending" BY <1>4, <1>7 DEF Agree, Turned
  <2>2. \A i \in Places(b) : ChainAt(b, i).foreign # r.keyPair BY <1>7
  <2>3. Turned(r, b) BY <1>1, <1>7, <2>1, <2>2 DEF Turned, Even
  <2>4. ~ Turned(b, r) /\ ~ Even(r, b) /\ ~ Even(b, r) BY <2>3, TurnedOnce
  <2>5. Agree(r, b, {}, yours \cup {m}) BY <1>5, <2>3, <2>4 DEF Agree
  <2>6. \A x \in yours \cup {m} : x.pub = r.keyPair /\ x.key[1] = r.cur.root /\ x.index < r.cur.next
    BY <1>1, <1>2, <2>1
  <2>7. Agree(b, r, yours \cup {m}, {}) BY <1>1, <2>3, <2>4, <2>6 DEF Agree
  <2> QED BY <2>5, <2>7
<1> QED BY <1>6, <1>7 DEF Onward

(* The ratchet in memory after p has written m.                            *)
LEMMA WrittenSeen ==
  ASSUME NEW p, NEW waiting, NEW sent, NEW inbox \in SUBSET Messages, NEW names,
         NEW r0 \in Ratchets(Keys), NEW s \in Ratchets(Keys), SideOK(p, waiting, sent, inbox, r0, s, names),
         NEW k \in Keys, NEW r, NEW m, Written(k, r0, r, m)
  PROVE  Growing(r) /\ \A x \in inbox : x.name \in names => Passes(r, x)
<1>1. Growing(r0) /\ \A x \in inbox : x.name \in names => Passes(r0, x) BY DEF SideOK
<1>2. \A x \in inbox : x \in Messages /\ x.index \in Nat BY DEF Messages
<1>3. r \in Ratchets(Keys) /\ r0.cur.next \in Nat /\ r0.cur.foreign \in Keys /\ r.cur.next = m.index + 1
  BY RatchetShape DEF Written
<1>4. CASE Alike(r, r0) /\ m.index = r0.cur.next /\ r.cur.skipped = r0.cur.skipped
  <2>1. \A j \in Nat : Closed(r.cur, j) => Closed(r0.cur, j) BY <1>3, <1>4 DEF Closed
  <2>2. \A x \in inbox : x.name \in names => Passes(r, x) BY <1>1, <1>2, <1>3, <1>4, <2>1, PassesAlike
  <2>3. Growing(r) BY <1>1, <1>3, <1>4, GrowingAlike
  <2> QED BY <2>2, <2>3
<1>5. CASE /\ r.prev = Remember(r0.prev, r0.cur)
           /\ r.cur.root = Append(r0.cur.root, Secret(k, r0.cur.foreign))
  <2>1. \A x \in inbox : x.name \in names => Passes(r, x) BY <1>1, <1>2, <1>3, <1>5, PassesOverTurn
  <2>2. Growing(r) BY <1>1, <1>3, <1>5, GrowingOverTurn
  <2> QED BY <2>1, <2>2
<1> QED BY <1>4, <1>5 DEF Written

(* p's side after the message has got out, and after it has not.           *)
LEMMA StoredSide ==
  ASSUME NEW p, NEW waiting, NEW w2, p \notin w2, NEW sent, NEW sent2, NEW inbox \in SUBSET Messages,
         NEW names, NEW r0 \in Ratchets(Keys), NEW s \in Ratchets(Keys), NEW r,
         SideOK(p, waiting, sent, inbox, r0, s, names),
         s.state = "Receiving" => r.prev = Remember(s.prev, s.cur),
         NEW k \in Keys, NEW m, Written(k, r0, r, m), Onward(p, sent, s, r, m)
  PROVE  SideOK(p, w2, sent2, inbox, r, r, names)
<1>1. r \in Ratchets(Keys) /\ r.state = "Sending" BY DEF Written
<1>2. Growing(r) /\ \A x \in inbox : x.name \in names => Passes(r, x) BY WrittenSeen
<1>3. \A i \in Places(s) : ChainAt(s, i).foreign = Identity(Other(p))
                           \/ \E x \in inbox : x.pub = ChainAt(s, i).foreign
  BY DEF SideOK
<1>4. \A i \in Places(r) : \E j \in Places(s) : ChainAt(r, i).foreign = ChainAt(s, j).foreign
  <2>1. CASE Alike(r, s) BY <1>1, <2>1, AlikePlaces
  <2>2. CASE s.state = "Receiving" /\ r.cur.foreign = s.cur.foreign
    <3>1. PICK d : Shifted(s, r, d) BY <1>1, <2>2, TurnPlaces
    <3>2. \A i \in 1..Len(r.prev) : i + d \in Places(s) /\ ChainAt(r, i) = ChainAt(s, i + d) BY <3>1 DEF Shifted
    <3>3. \A i \in Places(r) : i \in 1..Len(r.prev) \/ ChainAt(r, i) = r.cur BY <3>1 DEF Shifted
    <3>4. Len(s.prev) + 1 \in Places(s) /\ ChainAt(s, Len(s.prev) + 1) = s.cur BY PlacesAre
    <3> QED BY <2>2, <3>1, <3>2, <3>3, <3>4
  <2> QED BY <2>1, <2>2 DEF Onward
<1>5. Ahead(p, w2, sent2, r, r) BY DEF Ahead
<1> QED BY <1>1, <1>2, <1>3, <1>4, <1>5 DEF SideOK

LEMMA LostSide ==
  ASSUME NEW p, NEW waiting, NEW w2, p \in w2, NEW sent, NEW inbox \in SUBSET Messages,
         NEW names, NEW r0 \in Ratchets(Keys), NEW s \in Ratchets(Keys), NEW r,
         SideOK(p, waiting, sent, inbox, r0, s, names), \A x \in inbox : x.name \in names,
         NEW k \in Keys, NEW m, m.index \in Nat, Written(k, r0, r, m), Onward(p, sent, s, r, m)
  PROVE  SideOK(p, w2, sent, inbox, r, s, names)
<1>1. Growing(r) /\ \A x \in inbox : x.name \in names => Passes(r, x) BY WrittenSeen
<1>2. Growing(s) /\ \A x \in inbox : x.name \in names => Passes(s, x) BY DEF SideOK
<1>3. s.cur.next \in Nat /\ (s.state = "Receiving" => r.prev = Remember(s.prev, s.cur))
  <2>1. Ahead(p, waiting, sent, r0, s) BY DEF SideOK
  <2>2. s.cur.next \in Nat BY RatchetShape
  <2>3. ASSUME s.state = "Receiving" PROVE r.prev = Remember(s.prev, s.cur) BY <2>1, <2>3, WrittenKeeps
  <2> QED BY <2>2, <2>3
<1>4. Ahead(p, w2, sent, r, s)
  <2>1. CASE s.state = "Sending" /\ Alike(r, s) /\ m.index >= s.cur.next
    <3>1. r.cur.next >= s.cur.next BY <1>3, <2>1 DEF Onward
    <3> QED BY <2>1, <3>1 DEF Ahead
  <2>2. CASE /\ s.state = "Receiving" /\ r.cur.foreign = s.cur.foreign
             /\ r.cur.root = Append(s.cur.root, Secret(r.keyPair, s.cur.foreign))
             /\ r.keyPair # Identity(p) /\ \A x \in sent : x.pub # r.keyPair
    BY <1>3, <2>2 DEF Ahead, Onward
  <2> QED BY <2>1, <2>2 DEF Onward
<1> QED BY <1>1, <1>2, <1>4 DEF SideOK

(* The other's side, that has one more message or none.                    *)
LEMMA OtherSide ==
  ASSUME NEW q, NEW waiting, NEW w2, q \notin waiting, q \notin w2, NEW sent, NEW inbox, NEW inbox2,
         NEW names, NEW r \in Ratchets(Keys), NEW s \in Ratchets(Keys),
         SideOK(q, waiting, sent, inbox, r, s, names),
         inbox \subseteq inbox2, \A x \in inbox2 \ inbox : x.name \notin names
  PROVE  SideOK(q, w2, sent, inbox2, r, s, names)
<1>1. Ahead(q, w2, sent, r, s) BY DEF SideOK, Ahead
<1>2. \A x \in inbox2 : x.name \in names => Passes(r, x) /\ Passes(s, x) BY DEF SideOK
<1>3. \A i \in Places(s) : ChainAt(s, i).foreign = Identity(Other(q))
                           \/ \E x \in inbox2 : x.pub = ChainAt(s, i).foreign
  BY DEF SideOK
<1> QED BY <1>1, <1>2, <1>3 DEF SideOK

(* The message p would write next, from what is in memory and from what is *)
(* saved.                                                                  *)
LEMMA DraftIs ==
  ASSUME Typed, KeyInv, PairInv, NEW p \in Peers, MayWrite(p),
         NEW r, r = Draft(p).ratchet, NEW m, m = Draft(p).message
  PROVE  /\ Written(Fresh(p), Memory(p), r, m) /\ Onward(p, Inbox(Other(p)), Disk(p), r, m)
         /\ Fresh(p) \in Keys /\ m \in Messages /\ m.name = <<p, sends[p] + 1>> /\ m.key = <<m.key[1], m.index>>
<1>1. PICK r0, s, k, e, n, sent : /\ r0 = Memory(p) /\ s = Disk(p) /\ k = Fresh(p) /\ e = Encrypt(ratchet[p], k)
                                  /\ n = made[p] /\ sent = Inbox(Other(p))
  OBVIOUS
<1>2. r0 = ratchet[p] BY <1>1 DEF MayWrite, Memory, Base
<1>3. n \in Nat /\ sends[p] \in Nat BY <1>1, BoundAssumption DEF Typed
<1>4. k \in Keys /\ k # Identity(p) /\ k = <<p, n + 1>>
  <2>1. k = <<p, n + 1>> BY <1>1 DEF Fresh
  <2> QED BY <1>3, <2>1 DEF Keys, Identity
<1>5. \A x \in sent : x.pub # k
  <2>1. \A x \in sent : x.pub \in Known(p, n) BY <1>1, InboxTyped, TwoPeers DEF WrittenBy
  <2>2. k \notin Known(p, n) BY <1>3, <1>4 DEF Known
  <2> QED BY <2>1, <2>2
<1>6. RatchetOK(p, r0, n) /\ r0 \in Ratchets(Keys) /\ s \in Ratchets(Keys) BY <1>1, Ratchets2
<1>7. r = e.ratchet /\ m = [name |-> <<p, sends[p] + 1>>, pub |-> e.pub, index |-> e.index, key |-> e.key]
  BY <1>1 DEF Draft
<1>8. m.pub = e.pub /\ m.index = e.index /\ m.key = e.key /\ m.name = <<p, sends[p] + 1>> BY <1>7
<1>9. Written(k, r0, r, m)
  <2>1. Len(r0.prev) <= PrevLimit BY <1>6 DEF RatchetOK, RatchetSound
  <2>2. e = Encrypt(r0, k) BY <1>1, <1>2
  <2> QED BY <1>4, <1>6, <1>7, <1>8, <2>1, <2>2, EncryptWrites
<1>10. Ahead(p, stuck, sent, r0, s) BY <1>1 DEF PairInv, SideOK
<1>11. Onward(p, sent, s, r, m) BY <1>4, <1>5, <1>6, <1>9, <1>10, WrittenOnward
<1>12. m \in Messages /\ m.key = <<m.key[1], m.index>>
  <2>1. r \in Ratchets(Keys) /\ m.index \in Nat /\ m.pub = r.keyPair /\ m.key = <<r.cur.root, m.index>>
    BY <1>9 DEF Written
  <2>2. r.keyPair \in Keys /\ r.cur.root \in Seq(SUBSET Keys) BY <2>1, RatchetShape
  <2>3. m = [name |-> m.name, pub |-> m.pub, index |-> m.index, key |-> m.key] BY <1>7, <1>8
  <2>4. m.name \in Peers \X Nat BY <1>3, <1>8
  <2> QED BY <2>1, <2>2, <2>3, <2>4 DEF Messages
<1> QED BY <1>1, <1>4, <1>8, <1>9, <1>11, <1>12

(* When p may write and has read all, both agree on what it writes.        *)
LEMMA DraftIsAgreed ==
  ASSUME Typed, KeyInv, PairInv, NEW p \in Peers, MayWrite(p), CaughtUp(p),
         NEW r, r = Draft(p).ratchet, NEW m, m = Draft(p).message, NEW q, q = Other(p)
  PROVE  /\ Agree(r, Disk(q), {}, Unread(q) \cup {m}) /\ Agree(Disk(q), r, Unread(q) \cup {m}, {})
         /\ Unread(p) = {} /\ r \in Ratchets(Keys)
<1>1. PICK s, b, sent, yours : s = Disk(p) /\ b = Disk(q) /\ sent = Inbox(q) /\ yours = Unread(q) OBVIOUS
<1>2. q \in Peers /\ Other(q) = p BY TwoPeers
<1>3. Onward(p, sent, s, r, m) /\ r \in Ratchets(Keys) /\ m.index \in Nat BY <1>1, DraftIs DEF Written
<1>4. s \in Ratchets(Keys) /\ b \in Ratchets(Keys) BY <1>1, <1>2, Ratchets2
<1>5. Unread(p) = {}
  <2>1. \A x \in Inbox(p) : x.name \in StoredFor(p) BY DEF StoredFor, Inbox
  <2> QED BY <2>1 DEF CaughtUp, Unread, UnreadOf
<1>6. Agree(s, b, {}, yours) /\ Agree(b, s, yours, {}) BY <1>1, <1>2, <1>5 DEF PairInv
<1>7. \A x \in yours : x.index \in Nat BY <1>1, <1>2, InboxTyped DEF Unread, UnreadOf, Messages
<1>8. s.state = "Receiving" => b.state = "Sending"
  <2>1. saved[p] # NoContact
    <3>1. PeerOK(p, At(p), made[p], Names(p)) BY DEF Typed
    <3> QED BY <3>1, AtFields DEF PeerOK, MayWrite
  <2>2. b.state \in {"Sending", "Receiving"} BY <1>4, RatchetShape
  <2> QED BY <1>1, <2>1, <2>2 DEF PairInv
<1>9. \A i \in Places(b) : ChainAt(b, i).foreign = Identity(p) \/ \E x \in sent : x.pub = ChainAt(b, i).foreign
  BY <1>1, <1>2 DEF PairInv, SideOK
<1>10. Agree(r, b, {}, yours \cup {m}) /\ Agree(b, r, yours \cup {m}, {})
  BY <1>3, <1>4, <1>6, <1>7, <1>8, <1>9, DraftAgrees
<1> QED BY <1>1, <1>3, <1>5, <1>10

LEMMA SendPairs ==
  ASSUME Typed, KeyInv, PairInv, TurnTaking, AcksArrive, NEW p \in Peers, SendMessage(p)
  PROVE  PairInv'
<1>1. PICK r, m, q, k, r0, s, x0 :
        /\ r = Draft(p).ratchet /\ m = Draft(p).message /\ q = Other(p) /\ k = Fresh(p) /\ r0 = Memory(p)
        /\ s = Disk(p) /\ x0 = sends[p]
  OBVIOUS
<1>2. q \in Peers /\ q # p /\ Other(q) = p /\ \A x \in Peers : x = p \/ x = q BY <1>1, TwoPeers
<1>3. MayWrite(p) /\ CaughtUp(p) /\ q \notin stuck /\ x0 < MaxSends BY <1>1 DEF SendMessage, MayWrite
<1>4. /\ Written(k, r0, r, m) /\ Onward(p, Inbox(q), s, r, m) /\ k \in Keys /\ m \in Messages
      /\ m.name = <<p, x0 + 1>> /\ m.index \in Nat
  <2>1. m.index \in Nat BY <1>1, <1>3, DraftIs DEF Messages
  <2> QED BY <1>1, <1>3, <2>1, DraftIs
<1>5. /\ Agree(r, Disk(q), {}, Unread(q) \cup {m}) /\ Agree(Disk(q), r, Unread(q) \cup {m}, {})
      /\ Unread(p) = {} /\ r \in Ratchets(Keys)
  BY <1>1, <1>3, DraftIsAgreed
<1>6. r0 \in Ratchets(Keys) /\ s \in Ratchets(Keys) /\ Memory(q) \in Ratchets(Keys) /\ Disk(q) \in Ratchets(Keys)
  BY <1>1, <1>2, Ratchets2
<1>7. /\ SideOK(p, stuck, Inbox(q), Inbox(p), r0, s, read[p])
      /\ SideOK(q, stuck, Inbox(p), Inbox(q), Memory(q), Disk(q), read[q])
  BY <1>1, <1>2 DEF PairInv
<1>8. s.state = "Receiving" => r.prev = Remember(s.prev, s.cur)
  <2>1. PICK sent : sent = Inbox(q) OBVIOUS
  <2>2. PICK waiting : waiting = stuck OBVIOUS
  <2>3. Ahead(p, waiting, sent, r0, s) BY <1>7, <2>1, <2>2 DEF SideOK
  <2> QED BY <1>4, <1>6, <2>3, WrittenKeeps
<1>9. /\ ratchet' = [ratchet EXCEPT ![p] = r] /\ UNCHANGED read
       /\ \/ /\ box' = [box EXCEPT ![q] = Append(box[q], m)] /\ saved' = [saved EXCEPT ![p] = r]
             /\ stuck' = stuck \ {p}
          \/ UNCHANGED <<box, saved>> /\ stuck' = stuck \cup {p}
  BY <1>1, AcksArrive DEF SendMessage
<1>10. r # NoContact /\ Base(p, r) = r BY <1>5, NoContactAssumption DEF Base
<1>11. /\ ratchet'[p] = r /\ ratchet'[q] = ratchet[q] /\ saved'[q] = saved[q] /\ read'[p] = read[p] /\ read'[q] = read[q]
       /\ Memory(p)' = r /\ Memory(q)' = Memory(q) /\ Disk(q)' = Disk(q)
  <2>1. ratchet'[p] = r /\ ratchet'[q] = ratchet[q] /\ saved'[q] = saved[q] BY <1>2, <1>9 DEF Typed
  <2> QED BY <1>9, <1>10, <2>1 DEF Memory, Disk
<1>12. Inbox(p) \in SUBSET Messages BY <1>2, BoxIsInbox
<1>13. CASE UNCHANGED <<box, saved>> /\ stuck' = stuck \cup {p}
  <2>1. Inbox(p)' = Inbox(p) /\ Inbox(q)' = Inbox(q) /\ Disk(p)' = Disk(p) BY <1>13 DEF Inbox, Disk
  <2>2. Unread(p)' = Unread(p) /\ Unread(q)' = Unread(q) BY <1>9, <2>1 DEF Unread
  <2>3. SideOK(p, stuck', Inbox(q), Inbox(p), r, s, read[p])
    <3>1. PICK w, w2, sent, inbox, names :
            w = stuck /\ w2 = stuck' /\ sent = Inbox(q) /\ inbox = Inbox(p) /\ names = read[p]
      OBVIOUS
    <3>2. p \in w2 BY <1>13, <3>1
    <3>3. \A x \in inbox : x.name \in names BY <1>5, <3>1 DEF Unread, UnreadOf
    <3>4. SideOK(p, w, sent, inbox, r0, s, names) /\ inbox \in SUBSET Messages /\ Onward(p, sent, s, r, m)
      BY <1>4, <1>7, <1>12, <3>1
    <3>5. SideOK(p, w2, sent, inbox, r, s, names)
      BY <1>4, <1>6, <3>2, <3>3, <3>4, LostSide
    <3> QED BY <3>1, <3>5
  <2>4. SideOK(q, stuck', Inbox(p), Inbox(q), Memory(q), Disk(q), read[q])
    <3>1. PICK w, w2, sent, inbox, names, u, v :
            /\ w = stuck /\ w2 = stuck' /\ sent = Inbox(p) /\ inbox = Inbox(q) /\ names = read[q]
            /\ u = Memory(q) /\ v = Disk(q)
      OBVIOUS
    <3>2. q \notin w /\ q \notin w2 BY <1>2, <1>3, <1>13, <3>1
    <3>3. SideOK(q, w, sent, inbox, u, v, names) /\ u \in Ratchets(Keys) /\ v \in Ratchets(Keys)
      BY <1>6, <1>7, <3>1
    <3>4. SideOK(q, w2, sent, inbox, u, v, names) BY <3>2, <3>3, OtherSide
    <3> QED BY <3>1, <3>4
  <2>5. \A x \in Peers : SideOK(x, stuck, Inbox(Other(x)), Inbox(x), Memory(x), Disk(x), read[x])'
    BY <1>1, <1>2, <1>11, <2>1, <2>3, <2>4
  <2>6. \A x \in Peers : Agree(Disk(x), Disk(Other(x)), Unread(x), Unread(Other(x)))'
    BY <1>1, <1>2, <1>11, <2>1, <2>2 DEF PairInv
  <2>7. \A x \in Peers : (Disk(x).state = "Receiving" /\ Disk(Other(x)).state = "Receiving" => saved[x] = NoContact)'
    BY <1>1, <1>2, <1>11, <1>13, <2>1 DEF PairInv
  <2>8. \A x \in Peers : (x \in stuck => Other(x) \notin stuck /\ ratchet[x] # NoContact)'
    BY <1>1, <1>2, <1>3, <1>10, <1>11, <1>13
  <2> QED BY <2>5, <2>6, <2>7, <2>8 DEF PairInv
<1>14. CASE /\ box' = [box EXCEPT ![q] = Append(box[q], m)] /\ saved' = [saved EXCEPT ![p] = r]
            /\ stuck' = stuck \ {p}
  <2>1. Inbox(p)' = Inbox(p) /\ Inbox(q)' = Inbox(q) \cup {m}
    <3>1. PICK t, t2 : t = box[q] /\ t2 = Append(t, m) OBVIOUS
    <3>2. t \in Seq(Messages) BY <1>2, <3>1 DEF Typed
    <3>3. {t2[i] : i \in 1..Len(t2)} = {t[i] : i \in 1..Len(t)} \cup {m} BY <1>4, <3>1, <3>2, SeqAppends
    <3>4. box'[q] = t2 /\ box'[p] = box[p] BY <1>2, <1>14, <3>1 DEF Typed
    <3> QED BY <3>1, <3>3, <3>4 DEF Inbox
  <2>2. m.name \notin read[q] /\ m \notin Inbox(q)
    <3>1. \A a \in Inbox(q) : a.name \in {p} \X (1..x0) BY <1>1, <1>2 DEF Typed, WrittenBy
    <3>2. x0 \in Nat BY <1>1, BoundAssumption DEF Typed
    <3>3. m.name \notin {p} \X (1..x0) BY <1>4, <3>2
    <3>4. read[q] \in SUBSET Names(q) BY <1>2, AtFields DEF Typed, PeerOK
    <3> QED BY <3>1, <3>3, <3>4 DEF Names
  <2>3. saved'[p] = r /\ Disk(p)' = r
    <3>1. saved'[p] = r BY <1>14 DEF Typed
    <3> QED BY <1>10, <3>1 DEF Disk
  <2>4. Unread(p)' = {} /\ Unread(q)' = Unread(q) \cup {m}
    <3>1. Unread(p)' = Unread(p) BY <1>9, <2>1 DEF Unread
    <3>2. Unread(q)' = UnreadOf(Inbox(q) \cup {m}, read[q]) BY <1>11, <2>1 DEF Unread
    <3> QED BY <1>5, <2>2, <3>1, <3>2 DEF Unread, UnreadOf
  <2>5. SideOK(p, stuck', Inbox(q) \cup {m}, Inbox(p), r, r, read[p])
    <3>1. PICK w, w2, sent, sent2, inbox, names :
            /\ w = stuck /\ w2 = stuck' /\ sent = Inbox(q) /\ sent2 = Inbox(q) \cup {m}
            /\ inbox = Inbox(p) /\ names = read[p]
      OBVIOUS
    <3>2. p \notin w2 BY <1>14, <3>1
    <3>3. SideOK(p, w, sent, inbox, r0, s, names) /\ inbox \in SUBSET Messages /\ Onward(p, sent, s, r, m)
      BY <1>4, <1>7, <1>12, <3>1
    <3>4. SideOK(p, w2, sent2, inbox, r, r, names)
      BY <1>4, <1>6, <1>8, <3>2, <3>3, StoredSide
    <3> QED BY <3>1, <3>4
  <2>6. SideOK(q, stuck', Inbox(p), Inbox(q) \cup {m}, Memory(q), Disk(q), read[q])
    <3>1. PICK w, w2, sent, inbox, inbox2, names, u, v :
            /\ w = stuck /\ w2 = stuck' /\ sent = Inbox(p) /\ inbox = Inbox(q) /\ inbox2 = Inbox(q) \cup {m}
            /\ names = read[q] /\ u = Memory(q) /\ v = Disk(q)
      OBVIOUS
    <3>2. q \notin w /\ q \notin w2 BY <1>3, <1>14, <3>1
    <3>3. SideOK(q, w, sent, inbox, u, v, names) /\ u \in Ratchets(Keys) /\ v \in Ratchets(Keys)
      BY <1>6, <1>7, <3>1
    <3>4. inbox \subseteq inbox2 /\ \A x \in inbox2 \ inbox : x.name \notin names BY <2>2, <3>1
    <3>5. SideOK(q, w2, sent, inbox2, u, v, names) BY <3>2, <3>3, <3>4, OtherSide
    <3> QED BY <3>1, <3>5
  <2>7. \A x \in Peers : SideOK(x, stuck, Inbox(Other(x)), Inbox(x), Memory(x), Disk(x), read[x])'
    BY <1>1, <1>2, <1>11, <2>1, <2>3, <2>5, <2>6
  <2>8. \A x \in Peers : Agree(Disk(x), Disk(Other(x)), Unread(x), Unread(Other(x)))'
    BY <1>1, <1>2, <1>5, <1>11, <2>3, <2>4
  <2>9. \A x \in Peers : (Disk(x).state = "Receiving" /\ Disk(Other(x)).state = "Receiving" => saved[x] = NoContact)'
    <3>1. r.state # "Receiving" BY <1>4 DEF Written
    <3> QED BY <1>1, <1>2, <2>3, <3>1
  <2>10. \A x \in Peers : (x \in stuck => Other(x) \notin stuck /\ ratchet[x] # NoContact)'
    BY <1>1, <1>2, <1>3, <1>14
  <2> QED BY <2>7, <2>8, <2>9, <2>10 DEF PairInv
<1> QED BY <1>9, <1>13, <1>14

-----------------------------------------------------------------------------
(* The theorems about the two ratchets.                                    *)

(* What is within the limits was so before: peers forget no more than they *)
(* have, and the server keeps what it has.                                 *)
LEMMA LimitsStay ==
  ASSUME Typed, Next, WithinLimits'
  PROVE  WithinLimits
<1>1. PICK p \in Peers : AddContact(p) \/ SendMessage(p) \/ ReceivePush(p) \/ MissPush(p) \/ Login(p)
  BY DEF Next
<1>2. PICK k, names, at : k = made[p] /\ names = Names(p) /\ at = At(p) OBVIOUS
<1>3. k \in Nat /\ PeerOK(p, at, k, names) /\ at.forgot = forgot[p] BY <1>2, AtFields DEF Typed
<1>4. \A q \in Peers : forgot[q] \subseteq forgot'[q]
  <2>1. ASSUME NEW h, Becomes(p, h), forgot[p] \subseteq h.forgot
        PROVE  \A q \in Peers : forgot[q] \subseteq forgot'[q]
    BY <2>1 DEF Becomes, Typed
  <2>2. CASE AddContact(p) \/ SendMessage(p) \/ MissPush(p) BY <2>2 DEF AddContact, SendMessage, MissPush
  <2>3. CASE ReceivePush(p)
    <3>1. PICK m, h, d : /\ m = box[p][pushed[p] + 1] /\ h = Handle(p, at, m)
                         /\ d = Decrypt(Base(p, at.ratchet), m)
      OBVIOUS
    <3>2. forgot[p] \subseteq h.forgot BY <1>3, <3>1, HandleBase
    <3>3. Becomes(p, h) BY <1>2, <2>3, <3>1 DEF ReceivePush
    <3> QED BY <2>1, <3>2, <3>3
  <2>4. CASE Login(p)
    <3>1. PICK st, h : st = [at EXCEPT !.ratchet = at.saved] /\ h = HandleAll(p, st, box[p]) OBVIOUS
    <3>2. PeerOK(p, st, k, names) /\ st.forgot = forgot[p] BY <1>3, <3>1, LoginStart
    <3> DEFINE S == {a \in Ats(names) : PeerOK(p, a, k, names) /\ forgot[p] \subseteq a.forgot}
    <3>3. st \in S BY <3>2, PeerIsAt
    <3>4. ASSUME NEW a \in S, NEW m \in Inbox(p) PROVE Handle(p, a, m) \in S
      <4>1. m \in Messages /\ m.pub[1] # p /\ m.name \in names BY <1>2, InboxTyped
      <4>2. PICK c, d : c = Handle(p, a, m) /\ d = Decrypt(Base(p, a.ratchet), m) OBVIOUS
      <4>3. PeerOK(p, a, k, names) /\ forgot[p] \subseteq a.forgot OBVIOUS
      <4>4. PeerOK(p, c, k, names) BY <1>3, <4>1, <4>2, <4>3, HandleOK
      <4>5. a.forgot \subseteq c.forgot BY <1>3, <4>2, <4>3, HandleBase
      <4> QED BY <4>2, <4>3, <4>4, <4>5, PeerIsAt
    <3> HIDE DEF S
    <3>5. PICK ms, inbox : ms = box[p] /\ inbox = Inbox(p) OBVIOUS
    <3>6. ms \in Seq(inbox) BY <3>5, BoxIsInbox
    <3>7. h \in S BY <3>1, <3>3, <3>4, <3>5, <3>6, FoldStays
    <3>8. Becomes(p, h)
      <4>1. st = [At(p) EXCEPT !.ratchet = saved[p]] BY <1>2, <3>1, AtFields
      <4> QED BY <2>4, <3>1, <4>1 DEF Login, HandleAll
    <3>9. forgot[p] \subseteq h.forgot BY <3>7 DEF S
    <3> QED BY <2>1, <3>8, <3>9
  <2> QED BY <1>1, <2>2, <2>3, <2>4
<1>5. Stored \subseteq Stored'
  <2>1. CASE UNCHANGED box BY <2>1 DEF Stored
  <2>2. CASE \E q \in Peers : \E m : box' = [box EXCEPT ![q] = Append(box[q], m)]
    <3>1. PICK q \in Peers : \E m : box' = [box EXCEPT ![q] = Append(box[q], m)] BY <2>2
    <3>2. PICK m : box' = [box EXCEPT ![q] = Append(box[q], m)] BY <3>1
    <3>3. ASSUME NEW x \in Peers, NEW i \in 1..Len(box[x]) PROVE i \in 1..Len(box'[x]) /\ box'[x][i] = box[x][i]
      <4>1. CASE x # q BY <3>2, <4>1 DEF Typed
      <4>2. CASE x = q
        <5>1. PICK s : s = box[q] OBVIOUS
        <5>2. box'[q] = Append(s, m) BY <3>2, <5>1 DEF Typed
        <5>3. s \in Seq(Messages) BY <5>1 DEF Typed
        <5>4. i \in 1..Len(s) BY <4>2, <5>1
        <5>5. i \in 1..Len(Append(s, m)) /\ Append(s, m)[i] = s[i] BY <5>3, <5>4
        <5> QED BY <4>2, <5>1, <5>2, <5>5
      <4> QED BY <4>1, <4>2
    <3> QED BY <3>3 DEF Stored
  <2>3. UNCHANGED box \/ \E q \in Peers : \E m : box' = [box EXCEPT ![q] = Append(box[q], m)]
    BY <1>1, TwoPeers DEF AddContact, SendMessage, ReceivePush, MissPush, Login
  <2> QED BY <2>1, <2>2, <2>3
<1>6. \A q \in Peers : forgot[q] = {} BY <1>4 DEF WithinLimits
<1>7. \A m \in Stored : m.index <= MaxSkip BY <1>5 DEF WithinLimits
<1> QED BY <1>6, <1>7 DEF WithinLimits

(* When peers take turns and stored messages are acknowledged, their       *)
(* ratchets stay even or one turn apart, and every message waits where it  *)
(* can be read, whatever was lost, missed, restarted or fetched again: for *)
(* as long as neither has been given a message whose chain it no longer    *)
(* keeps, and no chain is longer than Decrypt skips.                       *)
THEOREM RatchetsAgree == TurnTaking /\ AcksArrive => (Spec => [](WithinLimits => PairInv))
<1> SUFFICES ASSUME TurnTaking, AcksArrive PROVE Spec => [](WithinLimits => PairInv) OBVIOUS
<1> DEFINE I == WithinLimits => PairInv
<1>1. ASSUME Typed, KeyInv, I, Next PROVE I'
  <2> SUFFICES ASSUME WithinLimits' PROVE PairInv' OBVIOUS
  <2>1. WithinLimits BY <1>1, LimitsStay
  <2>2. PairInv BY <1>1, <2>1
  <2>3. ASSUME NEW p \in Peers, MissPush(p) PROVE PairInv'
    BY <2>2, <2>3, QuietPair DEF MissPush
  <2> QED BY <1>1, <2>1, <2>2, <2>3, AddContactPairs, SendPairs, PushPairs, LoginPairs DEF Next
<1>2. I /\ UNCHANGED vars => I'
  <2>1. UNCHANGED vars => (WithinLimits' <=> WithinLimits) BY DEF vars, WithinLimits, Stored
  <2> QED BY <2>1, QuietPair DEF vars
<1>3. Init /\ Typed => I BY InitPairs
<1> HIDE DEF I
<1>4. Spec => []KeyInv BY ChainsArePassed
<1>5. Spec => []I BY <1>1, <1>2, <1>3, <1>4, TypesHold, PTL DEF Spec
<1> QED BY <1>5 DEF I

(* Whoever may write next can be read by the other, over turns, messages   *)
(* that never got out, restarts and fetched histories, for any number of   *)
(* turns until a login brings back a message of a forgotten chain.         *)
THEOREM NextStaysReadable == TurnTaking /\ AcksArrive => (Spec => []NextIsReadable)
<1> SUFFICES ASSUME TurnTaking, AcksArrive PROVE Spec => []NextIsReadable OBVIOUS
<1>1. ASSUME Typed, KeyInv, WithinLimits => PairInv PROVE NextIsReadable
  <2> SUFFICES ASSUME NEW p \in Peers, NEW q, q = Other(p), MayWrite(p), CaughtUp(p), CaughtUp(q),
                      WithinLimits, Draft(p).message.index <= MaxSkip
               PROVE  Draft(p).message.name \in Handle(q, At(q), Draft(p).message).read
    BY DEF NextIsReadable, Readable
  <2>0. PairInv BY <1>1
  <2>1. PICK r, m, u, s, r0, k, names, at, h :
          /\ r = Draft(p).ratchet /\ m = Draft(p).message /\ u = Memory(q) /\ s = Disk(q) /\ r0 = Memory(p)
          /\ k = made[q] /\ names = Names(q) /\ at = At(q) /\ h = Handle(q, at, m)
    OBVIOUS
  <2>2. q \in Peers /\ Other(q) = p /\ q \notin stuck BY TwoPeers DEF MayWrite
  <2>3. /\ Written(Fresh(p), r0, r, m) /\ m \in Messages /\ m.key = <<m.key[1], m.index>>
    BY <1>1, <2>0, <2>1, DraftIs
  <2>4. Unread(q) = {}
    <3>1. \A x \in Inbox(q) : x.name \in StoredFor(q) BY DEF StoredFor, Inbox
    <3> QED BY <3>1 DEF CaughtUp, Unread, UnreadOf
  <2>5. Agree(s, r, {m}, {})
    <3>1. Agree(Disk(q), r, Unread(q) \cup {m}, {}) BY <1>1, <2>0, <2>1, DraftIsAgreed
    <3> QED BY <2>1, <2>4, <3>1
  <2>6. RatchetOK(q, u, k) /\ u \in Ratchets(Keys) /\ s \in Ratchets(Keys) /\ r0 \in Ratchets(Keys)
    BY <1>1, <2>1, <2>2, Ratchets2
  <2>7. Kept(u, s)
    <3>1. PICK w, sent, inbox, rd : w = stuck /\ sent = Inbox(Other(q)) /\ inbox = Inbox(q) /\ rd = read[q]
      OBVIOUS
    <3>2. SideOK(q, w, sent, inbox, u, s, rd) /\ q \notin w BY <2>0, <2>1, <2>2, <3>1 DEF PairInv
    <3> QED BY <3>2, SideIsKept
  <2>8. Awaits(u, s, r, m) BY <2>3, <2>5, <2>6, <2>7, UnreadIsAwaited
  <2>9. m.index <= MaxSkip BY <2>1
  <2>10. Fits(u, m) BY <2>8, <2>9, AwaitedFits
  <2>11. PICK d : d = Decrypt(u, m) OBVIOUS
  <2>12. d.result = "ok"
    <3>1. ChainOK(u.cur) /\ Len(u.prev) <= PrevLimit BY <2>6 DEF RatchetOK, RatchetSound
    <3> QED BY <2>3, <2>6, <2>10, <2>11, <3>1, FitIsRead
  <2>13. PeerOK(q, at, k, names) /\ k \in Nat BY <1>1, <2>1, <2>2 DEF Typed
  <2>14. u = Base(q, at.ratchet) BY <2>1, AtFields DEF Memory
  <2>15. h.read = at.read \cup {m.name} BY <2>1, <2>2, <2>11, <2>12, <2>13, <2>14, HandleBase
  <2> QED BY <2>1, <2>15
<1>2. Spec => [](WithinLimits => PairInv) BY RatchetsAgree
<1>3. Spec => []KeyInv BY ChainsArePassed
<1> QED BY <1>1, <1>2, <1>3, TypesHold, PTL

(* Every message a client gets to handle is read at the latest then: by    *)
(* the push that reaches it, or by the login that fetches it, as long as   *)
(* the ratchet's limits have not been passed.                              *)
THEOREM DeliveredStaysRead == TurnTaking /\ AcksArrive => (Spec => DeliveredIsRead)
<1> SUFFICES ASSUME TurnTaking, AcksArrive PROVE Spec => DeliveredIsRead OBVIOUS
<1> DEFINE A == \A p \in Peers :
       /\ logins'[p] > logins[p] => StoredFor(p) \subseteq read'[p]
       /\ pushed'[p] > pushed[p] /\ ratchet'[p] # ratchet[p] => box[p][pushed'[p]].name \in read'[p]
<1>1. ASSUME Typed, KeyInv, WithinLimits => PairInv, Next, WithinLimits' PROVE A
  <2>0. WithinLimits /\ PairInv BY <1>1, LimitsStay
  <2>1. PICK x \in Peers : AddContact(x) \/ SendMessage(x) \/ ReceivePush(x) \/ MissPush(x) \/ Login(x)
    BY <1>1 DEF Next
  <2>2. \A p \in Peers : pushed[p] \in Nat /\ logins[p] \in Nat BY <1>1, BoundAssumption DEF Typed
  <2>3. CASE AddContact(x) \/ SendMessage(x)
    <3>1. UNCHANGED <<pushed, logins>> BY <2>3 DEF AddContact, SendMessage
    <3> QED BY <2>2, <3>1
  <2>4. CASE MissPush(x)
    <3>1. UNCHANGED <<ratchet, logins>> BY <2>4 DEF MissPush
    <3> QED BY <2>2, <3>1
  <2>5. CASE ReceivePush(x)
    <3>1. box[x][pushed[x] + 1].name \in read'[x] BY <1>1, <2>0, <2>5, PushPairs
    <3>2. pushed' = [pushed EXCEPT ![x] = pushed[x] + 1] /\ UNCHANGED logins BY <2>5 DEF ReceivePush
    <3>3. pushed'[x] = pushed[x] + 1 /\ \A p \in Peers \ {x} : pushed'[p] = pushed[p] BY <1>1, <3>2 DEF Typed
    <3> QED BY <2>2, <3>1, <3>2, <3>3
  <2>6. CASE Login(x)
    <3>1. StoredFor(x) \subseteq read'[x] BY <1>1, <2>0, <2>6, LoginPairs
    <3>2. logins' = [logins EXCEPT ![x] = logins[x] + 1] /\ UNCHANGED pushed BY <2>6 DEF Login
    <3>3. \A p \in Peers \ {x} : logins'[p] = logins[p] BY <1>1, <3>2 DEF Typed
    <3> QED BY <2>2, <3>1, <3>2, <3>3
  <2> QED BY <2>1, <2>3, <2>4, <2>5, <2>6
<1> HIDE DEF A
<1>2. Spec => [](WithinLimits => PairInv) BY RatchetsAgree
<1>3. Spec => []KeyInv BY ChainsArePassed
<1>4. Spec => [][WithinLimits' => A]_vars BY <1>1, <1>2, <1>3, TypesHold, PTL DEF Spec
<1>5. DeliveredIsRead <=> [][WithinLimits' => A]_vars BY DEF DeliveredIsRead, A
<1> QED BY <1>4, <1>5

=============================================================================
