-------------------------------- MODULE Session --------------------------------
(***************************************************************************)
(* The client program from start to the chats page: cmd/main.go, the pages *)
(* and their router (gioui), LoadClientData, Login and Signup of           *)
(* client/internal/client, and the user settings in its database.  Two     *)
(* goroutines take part: the user interface's (main's), which registers    *)
(* the pages and runs the clicks of the login page, and the loader, which  *)
(* the loading page starts.  The program may be stopped between any two    *)
(* statements; the database and the server's accounts stay.                *)
(*                                                                         *)
(* A key pair is a number, the same for its public and its private half.   *)
(* The server is the one of module Relay seen from here: it checks a       *)
(* password or makes an account in one step, and the request or its answer *)
(* may be lost.                                                            *)
(***************************************************************************)
EXTENDS Naturals, Sequences

CONSTANTS Users, Passwords,
          None,             \* a setting, a field or an account that is not there
          MaxStarts,        \* bound: times the program is started
          MaxClicks         \* bound: clicks on the login page's buttons

ASSUME NoneAssumption == None \notin Users \cup Passwords \cup Nat \cup {"loading", "login", "chats"}
ASSUME SessionAssumption == {MaxStarts, MaxClicks} \subseteq Nat

Goroutines == {"ui", "loader"}
Tags == <<"loading", "login", "chats">>
Keys == 1..MaxStarts

VARIABLES
  running,    \* whether the program runs
  pages,      \* the router's pages
  current,    \* the page it shows
  missed,     \* auxiliary: whether a page was to be shown before it was registered
  form,       \* the login page
  pc,         \* where each goroutine is
  arg,        \* the login or signup it is at
  keyPair,    \* the client's key pair
  idHash,     \* the account the client says it is
  authID,     \* the account its requests are authenticated as
  db,         \* user_settings
  mixed,      \* whether username and password are of two different logins
  account,    \* the server's accounts
  starts, clicks

shown == <<current, missed>>
program == <<running, pages, shown>>
client == <<keyPair, idHash, authID>>
vars == <<program, form, pc, arg, client, db, mixed, account, starts, clicks>>

NoLogin == [user |-> None, password |-> None, new |-> FALSE]
NoKeyPair == [public |-> None, private |-> None]
EmptyForm == [state |-> "login", user |-> None, password |-> None, repeat |-> None]

LoginSteps == {"key", "request", "authorize", "username", "password", "open"}
LoaderSteps == {"connect", "keypair", "public", "private", "settings"}

NoAccount == [password |-> None, public |-> None]

Init ==
  /\ running = FALSE /\ pages = <<>> /\ current = None /\ missed = FALSE
  /\ form = EmptyForm
  /\ pc = [g \in Goroutines |-> "idle"] /\ arg = [g \in Goroutines |-> NoLogin]
  /\ keyPair = NoKeyPair /\ idHash = None /\ authID = None
  /\ db = [username |-> None, password |-> None, public |-> None, private |-> None]
  /\ mixed = FALSE
  /\ account = [u \in Users |-> NoAccount]
  /\ starts = 0 /\ clicks = 0

-----------------------------------------------------------------------------
(* Start and stop, the router.                                             *)

(* main: loading.New starts the loader before its page is registered.      *)
Start ==
  /\ ~running /\ starts < MaxStarts
  /\ running' = TRUE /\ starts' = starts + 1
  /\ pc' = [ui |-> "register", loader |-> "connect"]
  /\ UNCHANGED <<pages, shown, form, arg, client, db, mixed, account, clicks>>

(* The program ends, or is ended: what is not in the database is gone.     *)
Stop ==
  /\ running
  /\ running' = FALSE /\ pages' = <<>> /\ current' = None /\ missed' = FALSE
  /\ form' = EmptyForm
  /\ pc' = [g \in Goroutines |-> "idle"] /\ arg' = [g \in Goroutines |-> NoLogin]
  /\ keyPair' = NoKeyPair /\ idHash' = None /\ authID' = None
  /\ UNCHANGED <<db, mixed, account, starts, clicks>>

Registered(tag) == \E i \in 1..Len(pages) : pages[i] = tag

(* Router.Register: the first page becomes the current one.                *)
Register ==
  LET tag == Tags[Len(pages) + 1] IN
  /\ pc["ui"] = "register"
  /\ pages' = Append(pages, tag)
  /\ current' = IF current = None THEN tag ELSE current
  /\ pc' = [pc EXCEPT !["ui"] = IF tag = "chats" THEN "idle" ELSE @]
  /\ UNCHANGED <<running, missed, form, arg, client, db, mixed, account, starts, clicks>>

(* Router.SetCurrent: a page that is not registered is not shown.          *)
SetCurrent(tag) ==
  /\ current' = IF Registered(tag) THEN tag ELSE current
  /\ missed' = (missed \/ ~Registered(tag))

Goto(g, step) == pc' = [pc EXCEPT ![g] = step]

-----------------------------------------------------------------------------
(* The loader: Connect, LoadClientData, GetLoginData.                      *)

Connect ==
  /\ pc["loader"] = "connect"
  /\ Goto("loader", "keypair")
  /\ UNCHANGED <<program, form, arg, client, db, mixed, account, starts, clicks>>

(* Mutant: a generated key pair is not put into the database.              *)
LoadKeyPair_Unsaved ==
  /\ pc["loader"] = "keypair"
  /\ keyPair' = IF db.private # None THEN [public |-> db.public, private |-> db.private]
                ELSE [public |-> starts, private |-> starts]
  /\ Goto("loader", "settings")
  /\ UNCHANGED <<program, form, arg, idHash, authID, db, mixed, account, starts, clicks>>

(* loadKeyPair: the one in the database, if both halves are there, or a    *)
(* fresh one, which is the client's once it is in the database.            *)
LoadKeyPair ==
  /\ pc["loader"] = "keypair"
  /\ \/ /\ db.public # None /\ db.private # None
        /\ keyPair' = [public |-> db.public, private |-> db.private]
        /\ Goto("loader", "settings")
     \/ /\ db.public = None \/ db.private = None
        /\ Goto("loader", "public")
        /\ UNCHANGED keyPair
  /\ UNCHANGED <<program, form, arg, idHash, authID, db, mixed, account, starts, clicks>>

(* SetUserKeyPair writes two rows, in two statements.                      *)
SavePublic ==
  /\ pc["loader"] = "public"
  /\ db' = [db EXCEPT !.public = starts]
  /\ Goto("loader", "private")
  /\ UNCHANGED <<program, form, arg, client, mixed, account, starts, clicks>>

SavePrivate ==
  /\ pc["loader"] = "private"
  /\ db' = [db EXCEPT !.private = starts]
  /\ keyPair' = [public |-> starts, private |-> starts]
  /\ Goto("loader", "settings")
  /\ UNCHANGED <<program, form, arg, idHash, authID, mixed, account, starts, clicks>>

(* Login and Signup check their arguments and name the account.            *)
Begin(g, login) ==
  /\ idHash' = login.user
  /\ arg' = [arg EXCEPT ![g] = login]
  /\ Goto(g, "key")

(* Mutant: the login page is shown while the loader logs in.               *)
ReadSettings_ShowLogin ==
  /\ pc["loader"] = "settings"
  /\ SetCurrent("login")
  /\ \/ /\ db.username # None /\ db.password # None
        /\ Begin("loader", [user |-> db.username, password |-> db.password, new |-> FALSE])
     \/ /\ db.username = None \/ db.password = None
        /\ Goto("loader", "idle")
        /\ UNCHANGED <<arg, idHash>>
  /\ UNCHANGED <<running, pages, form, keyPair, authID, db, mixed, account, starts, clicks>>

(* GetLoginData: with both rows it logs in; if one is missing or cannot be *)
(* read, the login page is shown.                                          *)
ReadSettings ==
  /\ pc["loader"] = "settings"
  /\ \/ /\ db.username # None /\ db.password # None
        /\ Begin("loader", [user |-> db.username, password |-> db.password, new |-> FALSE])
        /\ UNCHANGED shown
     \/ /\ Goto("loader", "idle")
        /\ SetCurrent("login")
        /\ UNCHANGED <<arg, idHash>>
  /\ UNCHANGED <<running, pages, form, keyPair, authID, db, mixed, account, starts, clicks>>

-----------------------------------------------------------------------------
(* Login and Signup, of either goroutine.                                  *)

(* Mutant: after a failure the loading page stays.                         *)
Fail_Silent(g) ==
  /\ Goto(g, "idle")
  /\ arg' = [arg EXCEPT ![g] = NoLogin]
  /\ UNCHANGED <<shown, form>>

(* An error: the loader shows the login page, the login page clears its    *)
(* passwords.                                                              *)
Fail(g) ==
  /\ Goto(g, "idle")
  /\ arg' = [arg EXCEPT ![g] = NoLogin]
  /\ \/ g = "loader" /\ SetCurrent("login") /\ UNCHANGED form
     \/ /\ g = "ui" /\ UNCHANGED shown
        /\ form' = [form EXCEPT !.password = None, !.repeat = IF arg[g].new THEN None ELSE @]

(* ReqKey is answered, or it fails; or SendReceive never returns: nothing  *)
(* in this module makes a request end.                                     *)
RequestKey(g) ==
  /\ pc[g] = "key"
  /\ \/ Goto(g, "request") /\ UNCHANGED <<shown, form, arg>>
     \/ Fail(g)
  /\ UNCHANGED <<running, pages, client, db, mixed, account, starts, clicks>>

PasswordIs(u, p) == account[u].password = p
Granted(l) == IF l.new THEN account[l.user] = NoAccount ELSE PasswordIs(l.user, l.password)

(* Mutant: an error answered by the server counts as success.              *)
Request_ErrorIgnored(g) ==
  /\ pc[g] = "request"
  /\ account' = IF arg[g].new /\ Granted(arg[g])
                THEN [account EXCEPT ![arg[g].user] = [password |-> arg[g].password, public |-> keyPair.public]]
                ELSE account
  /\ Goto(g, "authorize")
  /\ UNCHANGED <<program, form, arg, client, db, mixed, starts, clicks>>

(* ReqLogin or ReqSignup: the server has checked the password or made the  *)
(* account with the client's public key, and its token arrives; or it      *)
(* refuses; or the request, or only the answer, is lost.                   *)
Request(g) ==
  LET l == arg[g]
      made == IF l.new THEN [account EXCEPT ![l.user] = [password |-> l.password, public |-> keyPair.public]]
              ELSE account IN
  /\ pc[g] = "request"
  /\ \/ Granted(l) /\ account' = made /\ Goto(g, "authorize") /\ UNCHANGED <<shown, form, arg>>
     \/ Granted(l) /\ account' = made /\ Fail(g)
     \/ Fail(g) /\ UNCHANGED account
  /\ UNCHANGED <<running, pages, client, db, mixed, starts, clicks>>

(* SetAuthToken, SetAuthID.                                                *)
Authorize(g) ==
  /\ pc[g] = "authorize"
  /\ authID' = arg[g].user
  /\ Goto(g, "username")
  /\ UNCHANGED <<program, form, arg, keyPair, idHash, db, mixed, account, starts, clicks>>

(* SetLoginData writes two rows, in two statements; an error of either     *)
(* ends the login, with the credentials set.                               *)
SaveUsername(g) ==
  /\ pc[g] = "username"
  /\ \/ /\ db' = [db EXCEPT !.username = arg[g].user]
        /\ mixed' = TRUE
        /\ Goto(g, "password")
        /\ UNCHANGED <<shown, form, arg>>
     \/ Fail(g) /\ UNCHANGED <<db, mixed>>
  /\ UNCHANGED <<running, pages, client, account, starts, clicks>>

(* Mutant: a password that is there is not replaced.                       *)
SavePassword_Once(g) ==
  /\ pc[g] = "password"
  /\ db' = [db EXCEPT !.password = IF @ = None THEN arg[g].password ELSE @]
  /\ mixed' = FALSE
  /\ Goto(g, "open")
  /\ UNCHANGED <<program, form, arg, client, account, starts, clicks>>

SavePassword(g) ==
  /\ pc[g] = "password"
  /\ \/ /\ db' = [db EXCEPT !.password = arg[g].password]
        /\ mixed' = FALSE
        /\ Goto(g, "open")
        /\ UNCHANGED <<shown, form, arg>>
     \/ Fail(g) /\ UNCHANGED <<db, mixed>>
  /\ UNCHANGED <<running, pages, client, account, starts, clicks>>

(* A login also fetches the messages and ignores an error of that; then    *)
(* the chats are shown.                                                    *)
OpenChats(g) ==
  /\ pc[g] = "open"
  /\ SetCurrent("chats")
  /\ Goto(g, "idle")
  /\ arg' = [arg EXCEPT ![g] = NoLogin]
  /\ UNCHANGED <<running, pages, form, client, db, mixed, account, starts, clicks>>

-----------------------------------------------------------------------------
(* The login page.  Only what Layout lays out can be typed into or         *)
(* clicked, and nothing while a click is being handled.                    *)

MayUse == current = "login" /\ pc["ui"] = "idle"
Shown == {"user", "password", "link"} \cup IF form.state = "signup" THEN {"repeat", "Sign Up"} ELSE {"Sign In"}

Type ==
  /\ MayUse
  /\ \E u \in Users, p, r \in Passwords :
       form' = [form EXCEPT !.user = u, !.password = p, !.repeat = IF "repeat" \in Shown THEN r ELSE @]
  /\ UNCHANGED <<program, pc, arg, client, db, mixed, account, starts, clicks>>

(* The link: the state changes, the fields stay.                           *)
SwitchState ==
  /\ MayUse
  /\ form' = [form EXCEPT !.state = IF @ = "signup" THEN "login" ELSE "signup"]
  /\ UNCHANGED <<program, pc, arg, client, db, mixed, account, starts, clicks>>

Click(button) ==
  /\ MayUse /\ button \in Shown /\ clicks < MaxClicks
  /\ clicks' = clicks + 1

Filled == form.user # None /\ form.password # None

SignIn ==
  /\ Click("Sign In")
  /\ \/ /\ Filled /\ Begin("ui", [user |-> form.user, password |-> form.password, new |-> FALSE])
        /\ UNCHANGED <<form, shown>>
     \/ ~Filled /\ Fail("ui") /\ UNCHANGED idHash
  /\ UNCHANGED <<running, pages, keyPair, authID, db, mixed, account, starts>>

(* Two different passwords: nothing happens.                               *)
Signup ==
  /\ Click("Sign Up") /\ form.password = form.repeat
  /\ \/ /\ Filled /\ Begin("ui", [user |-> form.user, password |-> form.password, new |-> TRUE])
        /\ UNCHANGED <<form, shown>>
     \/ /\ ~Filled /\ Goto("ui", "idle")
        /\ form' = [form EXCEPT !.password = None, !.repeat = None]
        /\ UNCHANGED <<idHash, arg, shown>>
  /\ UNCHANGED <<running, pages, keyPair, authID, db, mixed, account, starts>>

LoginStep(g) ==
  RequestKey(g) \/ Request(g) \/ Authorize(g) \/ SaveUsername(g) \/ SavePassword(g) \/ OpenChats(g)
Loader == Connect \/ LoadKeyPair \/ SavePublic \/ SavePrivate \/ ReadSettings \/ LoginStep("loader")
UI == Register \/ LoginStep("ui")
User == Type \/ SwitchState \/ SignIn \/ Signup

Next == Start \/ Stop \/ Loader \/ UI \/ User

Spec == Init /\ [][Next]_vars

(* What a goroutine does without an answer of the server: a dial ends, a   *)
(* statement on the database ends.  A request need not: SendReceive may    *)
(* block for ever, as module TcpClient shows (TimedOutCallsReturn).        *)
Local(g) == Authorize(g) \/ SaveUsername(g) \/ SavePassword(g)
LoaderLocal == Connect \/ LoadKeyPair \/ SavePublic \/ SavePrivate \/ ReadSettings \/ Local("loader")

FairSpec == Spec /\ WF_vars(LoaderLocal) /\ WF_vars(Register \/ Local("ui"))

-----------------------------------------------------------------------------
(* Properties.                                                             *)

(* The client never uses two halves of different key pairs, wherever       *)
(* SetUserKeyPair was interrupted at the starts before; and the public key *)
(* an account was made with stays the client's: no start makes another one *)
(* after any of the stops before.  Contacts derive their secrets from the  *)
(* published key.                                                          *)
PublishedKeyIsKept ==
  /\ keyPair.public = keyPair.private
  /\ \A u \in Users : account[u].public # None /\ pc["loader"] \notin LoaderSteps /\ running
       => account[u].public = keyPair.public

(* The chats page is shown to the account the requests are authenticated   *)
(* as, which is the one messages are attributed to and the one the         *)
(* database logs in at the next start, with its password.                  *)
ChatsAreTheAccounts ==
  current = "chats" =>
    /\ authID # None /\ idHash = authID /\ PasswordIs(authID, db.password)
    /\ db.username = authID /\ ~mixed

(* The loader's and the login page's logins do not run at the same time:   *)
(* both set IDHash before they know whether it is right.                   *)
OneLoginAtATime == ~\A g \in Goroutines : pc[g] \in LoginSteps

(* The server refuses what the database logs in with at a start only if    *)
(* SetLoginData was once left between its two rows, by a stop or an error. *)
StoredLoginIsGood ==
  pc["loader"] = "request" => PasswordIs(arg["loader"].user, arg["loader"].password) \/ mixed

(* The loader is at one of its three requests.                             *)
Waiting == pc["loader"] \in {"key", "request", "open"}

(* The loading page stays for ever in two cases only: the loader waits for *)
(* an answer for ever, or it was done before the page it was to show was   *)
(* registered, which the router ignores.                                   *)
LoadingEnds == <>[](current = "loading") => <>[]Waiting \/ <>[]missed

(* No page is to be shown before it is registered.  Not so: nothing makes  *)
(* the loader wait for the pages.  SessionEarly.cfg shows it.              *)
NeverMissed == ~missed
=============================================================================
