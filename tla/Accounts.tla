-------------------------------- MODULE Accounts --------------------------------
(***************************************************************************)
(* The handling of key requests, logins and sign-ups for one account, the  *)
(* database operations of db_manager/key.ex and user.ex one by one.  The   *)
(* connections' processes on the server run them side by side, each its    *)
(* own requests in order; other accounts have rows of their own.           *)
(*                                                                         *)
(* A client asks for a key and sends the password sealed under it.  What   *)
(* was sealed under another key than the one in the table does not open:   *)
(* the decryption gives :error, on which Bcrypt raises.                    *)
(***************************************************************************)
EXTENDS Naturals, FiniteSets

CONSTANTS Connections, Passwords,
          None,        \* no account, no password
          MaxKeys      \* bound: keys asked for

ASSUME AccountsAssumption == None \notin Passwords /\ MaxKeys \in Nat

VARIABLES
  account,   \* the users row: the password behind its hash; None if there is none
  token,     \* the token in that row, 0 for nil
  row,       \* the keys row: the number of its key, 0 if there is none
  issued, tokens, grants,   \* as in AccountService
  pc,        \* how far each connection has come
  held,      \* the key its client has, 0 if it has none
  pass,      \* the password its client has sealed under it
  entry,     \* key_entry
  seen       \* the token of the user that login has read

dbVars == <<account, token, row, issued, tokens, grants>>
vars == <<account, token, row, issued, tokens, grants, pc, held, pass, entry, seen>>

LoginStages == {"login_user", "login_key", "login_delete", "login_update"}
SignupStages == {"signup_key", "signup_delete", "signup_insert"}
Stages == {"idle", "clear", "insert_key", "ready", "crashed"} \cup LoginStages \cup SignupStages

TypeOK ==
  /\ account \in Passwords \cup {None}
  /\ issued \in Nat /\ tokens \in Nat /\ row \in 0..issued /\ token \in 0..tokens
  /\ grants \subseteq [key : 1..issued, password : Passwords, token : 1..tokens]
  /\ pc \in [Connections -> Stages]
  /\ held \in [Connections -> 0..issued] /\ entry \in [Connections -> 0..issued]
  /\ pass \in [Connections -> Passwords \cup {None}]
  /\ seen \in [Connections -> 0..tokens]

Init ==
  /\ account = None /\ token = 0 /\ row = 0 /\ issued = 0 /\ tokens = 0 /\ grants = {}
  /\ pc = [c \in Connections |-> "idle"] /\ pass = [c \in Connections |-> None]
  /\ held = [c \in Connections |-> 0] /\ entry = held /\ seen = held

Goto(c, stage) == pc' = [pc EXCEPT ![c] = stage]

(* The answer, or the end of the process.                                  *)
End(c, stage) ==
  /\ Goto(c, stage)
  /\ held' = [held EXCEPT ![c] = 0] /\ pass' = [pass EXCEPT ![c] = None]
  /\ entry' = [entry EXCEPT ![c] = 0] /\ seen' = [seen EXCEPT ![c] = 0]

Grant(c) ==
  /\ tokens' = tokens + 1 /\ token' = tokens + 1
  /\ grants' = grants \cup {[key |-> entry[c], password |-> pass[c], token |-> tokens + 1]}

-----------------------------------------------------------------------------
(* Key.key                                                                 *)

(* A client may ask again before it has used the key it has.               *)
AskKey(c) ==
  /\ pc[c] \in {"idle", "ready"} /\ issued < MaxKeys
  /\ Goto(c, "clear") /\ held' = [held EXCEPT ![c] = 0]
  /\ UNCHANGED <<dbVars, pass, entry, seen>>

DeleteKeys(c) ==
  /\ pc[c] = "clear" /\ row' = 0 /\ Goto(c, "insert_key")
  /\ UNCHANGED <<account, token, issued, tokens, grants, held, pass, entry, seen>>

(* Mutant: the key is answered although it was not inserted.               *)
InsertKey_Answered(c) ==
  /\ pc[c] = "insert_key"
  /\ \/ row = 0 /\ issued' = issued + 1 /\ row' = issued + 1
     \/ row # 0 /\ UNCHANGED <<row, issued>>
  /\ held' = [held EXCEPT ![c] = issued + 1] /\ Goto(c, "ready")
  /\ UNCHANGED <<account, token, tokens, grants, pass, entry, seen>>

(* Between the two another connection may have inserted its key: the       *)
(* unique index refuses this one, and no clause of case is for what the    *)
(* transaction returns.                                                    *)
InsertKey(c) ==
  /\ pc[c] = "insert_key"
  /\ \/ /\ row = 0 /\ issued' = issued + 1 /\ row' = issued + 1
        /\ held' = [held EXCEPT ![c] = issued + 1] /\ Goto(c, "ready")
        /\ UNCHANGED <<pass, entry, seen>>
     \/ row # 0 /\ End(c, "crashed") /\ UNCHANGED <<row, issued>>
  /\ UNCHANGED <<account, token, tokens, grants>>

(* The client seals a password under the key it has got.                   *)
Attempt(c, p) ==
  /\ pc[c] = "ready" /\ pass' = [pass EXCEPT ![c] = p]
  /\ (Goto(c, "login_user") \/ Goto(c, "signup_key"))
  /\ UNCHANGED <<dbVars, held, entry, seen>>

-----------------------------------------------------------------------------
(* User.login                                                              *)

FindUser(c) ==
  /\ pc[c] = "login_user"
  /\ \/ account = None /\ End(c, "idle")
     \/ /\ account # None /\ seen' = [seen EXCEPT ![c] = token]
        /\ Goto(c, "login_key") /\ UNCHANGED <<held, pass, entry>>
  /\ UNCHANGED dbVars

(* The password is verified as soon as the key is read.                    *)
FindKey(c) ==
  /\ pc[c] = "login_key"
  /\ \/ row = 0 /\ End(c, "idle")
     \/ row # 0 /\ row # held[c] /\ End(c, "crashed")
     \/ /\ row # 0 /\ row = held[c] /\ entry' = [entry EXCEPT ![c] = row]
        /\ Goto(c, "login_delete") /\ UNCHANGED <<held, pass, seen>>
  /\ UNCHANGED dbVars

(* Mutant: to delete a row that is gone is not an error.                   *)
DeleteKey_Any(c) ==
  /\ pc[c] = "login_delete" /\ row' = (IF row = entry[c] THEN 0 ELSE row)
  /\ Goto(c, "login_update") /\ UNCHANGED <<held, pass, entry, seen>>
  /\ UNCHANGED <<account, token, issued, tokens, grants>>

(* Repo.delete raises when the row is gone, deleted by another attempt or  *)
(* replaced by another key request.                                        *)
DeleteKey(c) ==
  /\ pc[c] = "login_delete"
  /\ \/ /\ row = entry[c] /\ row' = 0
        /\ Goto(c, "login_update") /\ UNCHANGED <<held, pass, entry, seen>>
     \/ row # entry[c] /\ End(c, "crashed") /\ UNCHANGED row
  /\ UNCHANGED <<account, token, issued, tokens, grants>>

(* Mutant: the token is written whatever the password.                     *)
UpdateToken_Unverified(c) ==
  /\ pc[c] = "login_update" /\ Grant(c) /\ End(c, "idle")
  /\ UNCHANGED <<account, row, issued>>

(* update_token: a new token or, after a wrong password, nil.  The         *)
(* changeset holds what differs from the user that was read: nil is not    *)
(* written over a token that came since.                                   *)
UpdateToken(c) ==
  /\ pc[c] = "login_update"
  /\ \/ pass[c] = account /\ Grant(c)
     \/ /\ pass[c] # account /\ token' = (IF seen[c] = 0 THEN token ELSE 0)
        /\ UNCHANGED <<tokens, grants>>
  /\ End(c, "idle")
  /\ UNCHANGED <<account, row, issued>>

-----------------------------------------------------------------------------
(* User.signup                                                             *)

SignupKey(c) ==
  /\ pc[c] = "signup_key"
  /\ \/ row = 0 /\ End(c, "idle")
     \/ /\ row # 0 /\ entry' = [entry EXCEPT ![c] = row]
        /\ Goto(c, "signup_delete") /\ UNCHANGED <<held, pass, seen>>
  /\ UNCHANGED dbVars

(* The password that did not open is hashed after the key is deleted.      *)
SignupDelete(c) ==
  /\ pc[c] = "signup_delete"
  /\ \/ /\ row = entry[c] /\ row' = 0 /\ entry[c] = held[c]
        /\ Goto(c, "signup_insert") /\ UNCHANGED <<held, pass, entry, seen>>
     \/ row = entry[c] /\ row' = 0 /\ entry[c] # held[c] /\ End(c, "crashed")
     \/ row # entry[c] /\ End(c, "crashed") /\ UNCHANGED row
  /\ UNCHANGED <<account, token, issued, tokens, grants>>

(* Mutant: the user is replaced if there is one.                           *)
InsertUser_Replace(c) ==
  /\ pc[c] = "signup_insert"
  /\ account' = pass[c] /\ Grant(c)
  /\ End(c, "idle")
  /\ UNCHANGED <<row, issued>>

InsertUser(c) ==
  /\ pc[c] = "signup_insert"
  /\ \/ account = None /\ account' = pass[c] /\ Grant(c)
     \/ account # None /\ UNCHANGED <<account, token, tokens, grants>>
  /\ End(c, "idle")
  /\ UNCHANGED <<row, issued>>

-----------------------------------------------------------------------------

(* A database operation raises, or the server goes down.                   *)
Fail(c) ==
  /\ pc[c] \notin {"idle", "crashed"} /\ End(c, "crashed") /\ UNCHANGED dbVars

(* The client starts again, with a connection of its own.                  *)
Reconnect(c) ==
  /\ pc[c] = "crashed" /\ Goto(c, "idle")
  /\ UNCHANGED <<dbVars, held, pass, entry, seen>>

Next ==
  \E c \in Connections :
    \/ AskKey(c) \/ DeleteKeys(c) \/ InsertKey(c) \/ \E p \in Passwords : Attempt(c, p)
    \/ FindUser(c) \/ FindKey(c) \/ DeleteKey(c) \/ UpdateToken(c)
    \/ SignupKey(c) \/ SignupDelete(c) \/ InsertUser(c)
    \/ Fail(c) \/ Reconnect(c)

Spec == Init /\ [][Next]_vars

-----------------------------------------------------------------------------
(* Properties.                                                             *)

(* The token that requests are verified with was granted for the account's *)
(* password: no attempt with another one, overtaken or overtaking, leaves  *)
(* a token behind.                                                         *)
TokenIsProved == token # 0 => \E g \in grants : g.token = token /\ g.password = account

(* Sign-ups race, and the account that is made first stays.                *)
AccountIsKept == [][account # None => account' = account]_vars

(* The stages, interleaved and broken off anywhere, keep the promises of   *)
(* AccountService: an attempt is one step.  A key counts there while it is *)
(* in the table and while the one attempt that has deleted it is under     *)
(* way; a key that another request has replaced counts no more.            *)
Redeeming(c) == pc[c] \in {"login_update", "signup_insert"}
OpenKeys == ({row} \ {0}) \cup {entry[c] : c \in {d \in Connections : Redeeming(d)}}
Service == INSTANCE AccountService WITH open <- OpenKeys
ImplementsService == Service!Spec
=============================================================================
