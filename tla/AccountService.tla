----------------------------- MODULE AccountService -----------------------------
(***************************************************************************)
(* What the server promises of an account: a key it has issued is good for *)
(* one attempt, a token is granted for the account's password only, and    *)
(* the account, once made, stays as it is.  Every attempt happens at once. *)
(***************************************************************************)
EXTENDS Naturals

CONSTANTS Passwords, None

VARIABLES
  account,   \* the account's password, None before the sign-up
  token,     \* the token that requests are verified with, 0 for nil
  open,      \* the keys that are still good for an attempt
  issued,    \* the number of keys issued; they are named by it
  tokens,    \* the number of tokens granted, likewise
  grants     \* which key and which password each token was granted for

vars == <<account, token, open, issued, tokens, grants>>

Init ==
  /\ account = None /\ token = 0 /\ open = {} /\ issued = 0 /\ tokens = 0 /\ grants = {}

Grant(k, p) ==
  /\ tokens' = tokens + 1 /\ token' = tokens + 1
  /\ grants' = grants \cup {[key |-> k, password |-> p, token |-> tokens + 1]}

(* A new key; others may lose their worth.                                 *)
Issue ==
  /\ issued' = issued + 1
  /\ \E keep \in SUBSET open : open' = keep \cup {issued + 1}
  /\ UNCHANGED <<account, token, tokens, grants>>

Revoke ==
  /\ open' \in SUBSET open
  /\ UNCHANGED <<account, token, issued, tokens, grants>>

SignUp(k, p) ==
  /\ k \in open /\ account = None
  /\ open' = open \ {k} /\ account' = p /\ Grant(k, p)
  /\ UNCHANGED issued

LogIn(k) ==
  /\ k \in open /\ account # None
  /\ open' = open \ {k} /\ Grant(k, account)
  /\ UNCHANGED <<account, issued>>

(* A wrong password ends the session there is.                             *)
Refuse(k) ==
  /\ k \in open /\ account # None
  /\ open' = open \ {k} /\ token' = 0
  /\ UNCHANGED <<account, issued, tokens, grants>>

Next ==
  \/ Issue \/ Revoke
  \/ \E k \in open : LogIn(k) \/ Refuse(k) \/ \E p \in Passwords : SignUp(k, p)

Spec == Init /\ [][Next]_vars
=============================================================================
