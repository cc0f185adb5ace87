----------------------------- MODULE Accounts_proofs -----------------------------
(***************************************************************************)
(* Proofs about Accounts, for any connections, passwords and number of     *)
(* keys: its invariants, that an account stays, and that the interleaved   *)
(* handlers implement AccountService.                                      *)
(***************************************************************************)
EXTENDS Accounts, TLAPS

-----------------------------------------------------------------------------
(* The inductive invariant.                                                *)

Deleting(c) == pc[c] \in {"login_delete", "signup_delete"}

(* An attempt has a password; it holds a key from when it has read the row. *)
AttemptsAreWhole ==
  \A c \in Connections :
    /\ pc[c] \in LoginStages \cup SignupStages => pass[c] \in Passwords
    /\ Deleting(c) \/ Redeeming(c) => entry[c] # 0

(* A login that goes on has found an account.                              *)
LoginsHaveAccount ==
  \A c \in Connections : pc[c] \in LoginStages \ {"login_user"} => account # None

(* A deleted key is not in the table and belongs to one attempt.           *)
DeletedKeysAreOwned ==
  /\ \A c \in Connections : Redeeming(c) => entry[c] # row
  /\ \A c, d \in Connections : Redeeming(c) /\ Redeeming(d) /\ entry[c] = entry[d] => c = d

IInv == TypeOK /\ AttemptsAreWhole /\ LoginsHaveAccount /\ DeletedKeysAreOwned /\ TokenIsProved

USE DEF Stages, LoginStages, SignupStages

LEMMA InitIInv == Init => IInv
BY DEF Init, IInv, TypeOK, AttemptsAreWhole, LoginsHaveAccount, DeletedKeysAreOwned, TokenIsProved,
       Deleting, Redeeming

-----------------------------------------------------------------------------
(* The steps.                                                              *)

(* A token granted to an attempt that has the account's password.          *)
LEMMA GrantIInv ==
  ASSUME IInv, NEW c \in Connections, Redeeming(c), Grant(c),
         account' = pass[c], UNCHANGED <<row, issued>>
  PROVE  /\ tokens' \in Nat /\ token' \in 0..tokens' /\ tokens <= tokens'
         /\ grants' \subseteq [key : 1..issued', password : Passwords, token : 1..tokens']
         /\ TokenIsProved'
<1>1. entry[c] \in 1..issued /\ pass[c] \in Passwords
  BY DEF IInv, TypeOK, AttemptsAreWhole, Redeeming
<1>2. tokens \in Nat /\ tokens' = tokens + 1 /\ token' = tokens'
  BY DEF IInv, TypeOK, Grant
<1>3. ASSUME NEW g \in grants' PROVE g \in [key : 1..issued', password : Passwords, token : 1..tokens']
  <2>1. CASE g \in grants
    <3>1. g \in [key : 1..issued, password : Passwords, token : 1..tokens]
      BY <2>1 DEF IInv, TypeOK
    <3>2. 1..tokens \subseteq 1..tokens'
      BY <1>2
    <3> QED
      BY <3>1, <3>2
  <2>2. CASE g = [key |-> entry[c], password |-> pass[c], token |-> tokens + 1]
    BY <1>1, <1>2, <2>2
  <2> QED
    BY <1>3, <2>1, <2>2 DEF Grant
<1>4. TokenIsProved'
  <2> DEFINE g == [key |-> entry[c], password |-> pass[c], token |-> tokens + 1]
  <2>1. g \in grants' /\ g.token = token' /\ g.password = account'
    BY DEF Grant
  <2> HIDE DEF g
  <2> QED
    BY <2>1 DEF TokenIsProved
<1> QED
  BY <1>2, <1>3, <1>4

(* Asking for a key, deleting the old and inserting the new one.           *)
LEMMA KeyIInv ==
  ASSUME IInv, NEW c \in Connections, AskKey(c) \/ DeleteKeys(c) \/ InsertKey(c)
  PROVE  IInv'
<1> USE DEF IInv, TypeOK, AttemptsAreWhole, LoginsHaveAccount, DeletedKeysAreOwned, Deleting, Redeeming,
            Goto, End, dbVars
<1>0. UNCHANGED <<account, token, grants>> => (TokenIsProved => TokenIsProved')
  BY DEF TokenIsProved
<1>1. CASE AskKey(c)
  BY <1>0, <1>1 DEF AskKey
<1>2. CASE DeleteKeys(c)
  BY <1>0, <1>2 DEF DeleteKeys
<1>3. CASE InsertKey(c)
  <2>1. CASE row = 0 /\ issued' = issued + 1 /\ row' = issued + 1
             /\ held' = [held EXCEPT ![c] = issued + 1] /\ pc' = [pc EXCEPT ![c] = "ready"]
             /\ UNCHANGED <<pass, entry, seen>>
    <3>1. UNCHANGED <<account, token, tokens, grants>>
      BY <1>3 DEF InsertKey
    <3>2. grants' \subseteq [key : 1..issued', password : Passwords, token : 1..tokens']
      <4>1. 1..issued \subseteq 1..issued'
        BY <2>1
      <4> QED
        BY <3>1, <4>1
    <3>3. TypeOK'
      BY <2>1, <3>1, <3>2
    <3>4. DeletedKeysAreOwned'
      BY <2>1
    <3> QED
      BY <1>0, <2>1, <3>1, <3>3, <3>4
  <2>2. CASE End(c, "crashed") /\ UNCHANGED <<row, issued>>
    BY <1>0, <1>3, <2>2 DEF InsertKey
  <2> QED
    BY <1>3, <2>1, <2>2 DEF InsertKey
<1> QED
  BY <1>1, <1>2, <1>3

(* The stages of an attempt that read, and the ends.                       *)
LEMMA ReadIInv ==
  ASSUME IInv, NEW c \in Connections,
         \/ \E p \in Passwords : Attempt(c, p)
         \/ FindUser(c) \/ FindKey(c) \/ SignupKey(c) \/ Fail(c) \/ Reconnect(c)
  PROVE  IInv'
<1> USE DEF IInv, TypeOK, AttemptsAreWhole, LoginsHaveAccount, DeletedKeysAreOwned, Deleting, Redeeming,
            Goto, End, dbVars
<1>0. UNCHANGED <<account, token, grants>> => (TokenIsProved => TokenIsProved')
  BY DEF TokenIsProved
<1>1. ASSUME NEW p \in Passwords, Attempt(c, p) PROVE IInv'
  BY <1>0, <1>1 DEF Attempt
<1>2. CASE FindUser(c)
  BY <1>0, <1>2 DEF FindUser
<1>3. CASE FindKey(c)
  BY <1>0, <1>3 DEF FindKey
<1>4. CASE SignupKey(c)
  BY <1>0, <1>4 DEF SignupKey
<1>5. CASE Fail(c)
  BY <1>0, <1>5 DEF Fail
<1>6. CASE Reconnect(c)
  BY <1>0, <1>6 DEF Reconnect
<1> QED
  BY <1>1, <1>2, <1>3, <1>4, <1>5, <1>6

(* The key is deleted by the attempt that then goes on.                    *)
LEMMA DeleteIInv ==
  ASSUME IInv, NEW c \in Connections, DeleteKey(c) \/ SignupDelete(c)
  PROVE  IInv'
<1> USE DEF IInv, TypeOK, AttemptsAreWhole, LoginsHaveAccount, DeletedKeysAreOwned, Deleting, Redeeming,
            Goto, End
<1>0. UNCHANGED <<account, token, grants>> => (TokenIsProved => TokenIsProved')
  BY DEF TokenIsProved
<1>1. CASE DeleteKey(c)
  BY <1>0, <1>1 DEF DeleteKey
<1>2. CASE SignupDelete(c)
  BY <1>0, <1>2 DEF SignupDelete
<1> QED
  BY <1>1, <1>2

LEMMA UpdateIInv ==
  ASSUME IInv, NEW c \in Connections, UpdateToken(c) \/ InsertUser(c)
  PROVE  IInv'
<1> USE DEF End, Goto
<1>0. Redeeming(c) /\ pass[c] \in Passwords /\ UNCHANGED <<row, issued>> /\ End(c, "idle")
  BY DEF UpdateToken, InsertUser, Redeeming, IInv, AttemptsAreWhole
<1>1. CASE Grant(c) /\ account' = pass[c]
  <2>1. TypeOK'
    BY <1>0, <1>1, GrantIInv DEF IInv, TypeOK
  <2>2. AttemptsAreWhole' /\ DeletedKeysAreOwned'
    BY <1>0 DEF IInv, TypeOK, AttemptsAreWhole, DeletedKeysAreOwned, Deleting, Redeeming
  <2>3. LoginsHaveAccount'
    BY <1>0, <1>1, AccountsAssumption DEF LoginsHaveAccount
  <2> QED
    BY <1>0, <1>1, <2>1, <2>2, <2>3, GrantIInv DEF IInv
<1>2. CASE /\ UNCHANGED <<account, tokens, grants>> /\ token' \in {token, 0}
  <2> USE DEF IInv, TypeOK, AttemptsAreWhole, LoginsHaveAccount, DeletedKeysAreOwned, Deleting, Redeeming
  <2>1. TokenIsProved'
    BY <1>2 DEF TokenIsProved
  <2> QED
    BY <1>0, <1>2, <2>1
<1>3. CASE UpdateToken(c)
  BY <1>1, <1>2, <1>3 DEF UpdateToken, Grant
<1>4. CASE InsertUser(c)
  BY <1>1, <1>2, <1>4 DEF InsertUser
<1> QED
  BY <1>3, <1>4

LEMMA NextIInv == IInv /\ [Next]_vars => IInv'
<1> SUFFICES ASSUME IInv, [Next]_vars PROVE IInv'
  OBVIOUS
<1>1. CASE UNCHANGED vars
  BY <1>1 DEF vars, IInv, TypeOK, AttemptsAreWhole, LoginsHaveAccount, DeletedKeysAreOwned, TokenIsProved,
              Deleting, Redeeming
<1>2. CASE Next
  BY <1>2, KeyIInv, ReadIInv, DeleteIInv, UpdateIInv DEF Next
<1> QED
  BY <1>1, <1>2

LEMMA Invariance == Spec => []IInv
BY InitIInv, NextIInv, PTL DEF Spec

-----------------------------------------------------------------------------
(* The theorems.                                                           *)

(* Every variable keeps its type; no connection holds a key that was not   *)
(* inserted.                                                               *)
THEOREM TypeCorrect == Spec => []TypeOK
<1>1. IInv => TypeOK
  BY DEF IInv
<1> QED
  BY <1>1, Invariance, PTL

(* The token in the users row was granted for the account's password.      *)
THEOREM TokensAreProved == Spec => []TokenIsProved
<1>1. IInv => TokenIsProved
  BY DEF IInv
<1> QED
  BY <1>1, Invariance, PTL

(* No step of any handler changes an account once it is there.             *)
THEOREM AccountStays == Spec => AccountIsKept
<1>1. [Next]_vars => [account # None => account' = account]_vars
  BY DEF Next, vars, dbVars, AskKey, DeleteKeys, InsertKey, Attempt, FindUser, FindKey, DeleteKey,
         UpdateToken, SignupKey, SignupDelete, InsertUser, Fail, Reconnect
<1> QED
  BY <1>1, PTL DEF Spec, AccountIsKept

-----------------------------------------------------------------------------
(* The implementation of AccountService.                                   *)

(* Only what a step does to the row, the stages and the entries can change *)
(* the open keys; none opens when the row is kept or emptied and the       *)
(* connection does not become the deleter of a key.                        *)
LEMMA NoKeyOpens ==
  ASSUME NEW c \in Connections, row' \in {row, 0}, ~Redeeming(c)',
         \A d \in Connections \ {c} : UNCHANGED <<pc[d], entry[d]>>
  PROVE  OpenKeys' \in SUBSET OpenKeys
BY DEF OpenKeys, Redeeming

(* The end of an attempt closes its key, and no other.                     *)
LEMMA RedeemCloses ==
  ASSUME IInv, NEW c \in Connections, Redeeming(c), End(c, "idle"), UNCHANGED row
  PROVE  entry[c] \in OpenKeys /\ OpenKeys' = OpenKeys \ {entry[c]}
<1>1. /\ entry[c] # row
      /\ \A d \in Connections \ {c} : Redeeming(d) => entry[d] # entry[c]
  BY DEF IInv, DeletedKeysAreOwned
<1>2. /\ ~Redeeming(c)'
      /\ \A d \in Connections \ {c} : UNCHANGED entry[d] /\ (Redeeming(d)' <=> Redeeming(d))
  BY DEF IInv, TypeOK, End, Goto, Redeeming
<1>3. entry[c] \in OpenKeys
  BY DEF OpenKeys
<1> HIDE DEF Redeeming
<1>4. OpenKeys' = ({row} \ {0}) \cup {entry[d] : d \in {e \in Connections \ {c} : Redeeming(e)}}
  BY <1>2 DEF OpenKeys
<1> QED
  BY <1>1, <1>3, <1>4 DEF OpenKeys

(* Every step is a step of the service or none.                            *)
LEMMA StepSimulates ==
  ASSUME IInv, NEW c \in Connections,
         \/ AskKey(c) \/ DeleteKeys(c) \/ InsertKey(c) \/ \E p \in Passwords : Attempt(c, p)
         \/ FindUser(c) \/ FindKey(c) \/ DeleteKey(c) \/ UpdateToken(c)
         \/ SignupKey(c) \/ SignupDelete(c) \/ InsertUser(c)
         \/ Fail(c) \/ Reconnect(c)
  PROVE  Service!Next
<1>0. pc \in [Connections -> Stages] /\ entry \in [Connections -> 0..issued]
  BY DEF IInv, TypeOK
<1>1. ASSUME OpenKeys' \in SUBSET OpenKeys, UNCHANGED <<account, token, issued, tokens, grants>>
      PROVE  Service!Next
  BY <1>1 DEF Service!Next, Service!Revoke
<1>2. CASE \/ AskKey(c) \/ DeleteKeys(c) \/ \E p \in Passwords : Attempt(c, p)
           \/ FindUser(c) \/ FindKey(c) \/ SignupKey(c) \/ Fail(c) \/ Reconnect(c)
  <2>1. /\ row' \in {row, 0} /\ ~Redeeming(c)'
        /\ \A d \in Connections \ {c} : UNCHANGED <<pc[d], entry[d]>>
        /\ UNCHANGED <<account, token, issued, tokens, grants>>
    BY <1>0, <1>2 DEF AskKey, DeleteKeys, Attempt, FindUser, FindKey, SignupKey, Fail, Reconnect,
                      Goto, End, Redeeming, dbVars
  <2> QED
    BY <1>1, <2>1, NoKeyOpens
<1>3. CASE InsertKey(c)
  <2>1. CASE row # 0
    <3>1. /\ row' \in {row, 0} /\ ~Redeeming(c)'
          /\ \A d \in Connections \ {c} : UNCHANGED <<pc[d], entry[d]>>
          /\ UNCHANGED <<account, token, issued, tokens, grants>>
      BY <1>0, <1>3, <2>1 DEF InsertKey, Goto, End, Redeeming
    <3> QED
      BY <1>1, <3>1, NoKeyOpens
  <2>2. CASE row = 0
    <3>1. /\ row' = issued + 1 /\ issued' = issued + 1 /\ issued \in Nat
          /\ \A d \in Connections : UNCHANGED entry[d] /\ (Redeeming(d)' <=> Redeeming(d))
          /\ UNCHANGED <<account, token, tokens, grants>>
      BY <1>0, <1>3, <2>2 DEF InsertKey, Goto, Redeeming, IInv, TypeOK
    <3> HIDE DEF Redeeming
    <3>2. OpenKeys' = OpenKeys \cup {issued + 1}
      BY <2>2, <3>1 DEF OpenKeys
    <3> QED
      BY <3>1, <3>2 DEF Service!Next, Service!Issue
  <2> QED
    BY <2>1, <2>2
<1>4. CASE DeleteKey(c) \/ SignupDelete(c)
  <2>1. CASE ~Redeeming(c)'
    <3>1. /\ row' \in {row, 0}
          /\ \A d \in Connections \ {c} : UNCHANGED <<pc[d], entry[d]>>
          /\ UNCHANGED <<account, token, issued, tokens, grants>>
      BY <1>0, <1>4 DEF DeleteKey, SignupDelete, Goto, End
    <3> QED
      BY <1>1, <2>1, <3>1, NoKeyOpens
  <2>2. CASE Redeeming(c)'
    <3>1. /\ row = entry[c] /\ row' = 0 /\ row # 0 /\ UNCHANGED entry
          /\ \A d \in Connections \ {c} : Redeeming(d)' <=> Redeeming(d)
          /\ UNCHANGED <<account, token, issued, tokens, grants>>
      BY <1>0, <1>4, <2>2 DEF DeleteKey, SignupDelete, Goto, End, Redeeming, Deleting, IInv, AttemptsAreWhole
    <3> HIDE DEF Redeeming
    <3>2. OpenKeys' \in SUBSET OpenKeys
      BY <3>1 DEF OpenKeys
    <3> QED
      BY <1>1, <3>1, <3>2
  <2> QED
    BY <2>1, <2>2
<1>5. CASE UpdateToken(c)
  <2>1. /\ Redeeming(c) /\ End(c, "idle") /\ UNCHANGED <<account, row, issued>> /\ account # None
    BY <1>5 DEF UpdateToken, Redeeming, IInv, LoginsHaveAccount
  <2>2. entry[c] \in OpenKeys /\ OpenKeys' = OpenKeys \ {entry[c]}
    BY <2>1, RedeemCloses
  <2>3. CASE pass[c] = account /\ Grant(c)
    <3>1. Service!LogIn(entry[c])
      BY <2>1, <2>2, <2>3 DEF Service!LogIn, Service!Grant, Grant
    <3> QED
      BY <2>2, <3>1 DEF Service!Next
  <2>4. CASE token' = 0 /\ UNCHANGED <<tokens, grants>>
    <3>1. Service!Refuse(entry[c])
      BY <2>1, <2>2, <2>4 DEF Service!Refuse
    <3> QED
      BY <2>2, <3>1 DEF Service!Next
  <2>5. CASE UNCHANGED <<token, tokens, grants>>
    BY <1>1, <2>1, <2>2, <2>5
  <2> QED
    BY <1>5, <2>3, <2>4, <2>5 DEF UpdateToken
<1>6. CASE InsertUser(c)
  <2>1. /\ Redeeming(c) /\ End(c, "idle") /\ UNCHANGED <<row, issued>> /\ pass[c] \in Passwords
    BY <1>6 DEF InsertUser, Redeeming, IInv, AttemptsAreWhole
  <2>2. entry[c] \in OpenKeys /\ OpenKeys' = OpenKeys \ {entry[c]}
    BY <2>1, RedeemCloses
  <2>3. CASE account = None /\ account' = pass[c] /\ Grant(c)
    <3>1. Service!SignUp(entry[c], pass[c])
      BY <2>1, <2>2, <2>3 DEF Service!SignUp, Service!Grant, Grant
    <3> QED
      BY <2>1, <2>2, <3>1 DEF Service!Next
  <2>4. CASE UNCHANGED <<account, token, tokens, grants>>
    BY <1>1, <2>1, <2>2, <2>4
  <2> QED
    BY <1>6, <2>3, <2>4 DEF InsertUser
<1> QED
  BY <1>2, <1>3, <1>4, <1>5, <1>6

(* Whatever the interleaving, the handlers keep the promises of the        *)
(* account service.                                                        *)
THEOREM AccountsImplementService == Spec => ImplementsService
<1>1. Init => Service!Init
  BY DEF Init, Service!Init, OpenKeys, Redeeming
<1>2. IInv /\ [Next]_vars => [Service!Next]_(Service!vars)
  <2> SUFFICES ASSUME IInv, [Next]_vars PROVE [Service!Next]_(Service!vars)
    OBVIOUS
  <2>1. CASE UNCHANGED vars
    BY <2>1 DEF vars, Service!vars, OpenKeys, Redeeming
  <2>2. CASE Next
    BY <2>2, StepSimulates DEF Next
  <2> QED
    BY <2>1, <2>2
<1> QED
  BY <1>1, <1>2, Invariance, PTL DEF Spec, ImplementsService, Service!Spec
=============================================================================
