----------------------------- MODULE Session_proofs -----------------------------
(***************************************************************************)
(* Proofs about module Session, for any users, passwords and bounds: what  *)
(* interrupted starts and logins leave in the database never gives the     *)
(* client another key pair than the published one, nor shows the chats of  *)
(* one account to another.                                                 *)
(***************************************************************************)
EXTENDS Session, TLAPS

Steps == {"idle", "register"} \cup LoaderSteps \cup LoginSteps
User0 == Users \cup {None}
Password0 == Passwords \cup {None}
Key0 == Nat \cup {None}

(* The pages are a prefix of Tags.                                         *)
PagesTyped ==
  /\ pages \in Seq({"loading", "login", "chats"})
  /\ Len(pages) <= 3
  /\ \A i \in 1..Len(pages) : pages[i] = Tags[i]

ArgTyped ==
  /\ arg \in [Goroutines -> [user : User0, password : Password0, new : BOOLEAN]]
  /\ \A g \in Goroutines : pc[g] \in LoginSteps => arg[g].user \in Users /\ arg[g].password \in Passwords
  /\ arg["loader"].new = FALSE

Typed ==
  /\ running \in BOOLEAN
  /\ form \in [state : {"login", "signup"}, user : User0, password : Password0, repeat : Password0]
  /\ pc \in [Goroutines -> Steps]
  /\ ArgTyped
  /\ keyPair \in [public : Key0, private : Key0]
  /\ idHash \in User0 /\ authID \in User0
  /\ db \in [username : User0, password : Password0, public : Key0, private : Key0]
  /\ account \in [Users -> [password : Password0, public : Key0]]
  /\ starts \in Nat

(* Where the two goroutines can be.  The login page is there only once the *)
(* loader is done, and a login of the page keeps it there; the chats are   *)
(* there only when both are done.                                          *)
ControlInv ==
  /\ PagesTyped
  /\ current \in {"loading", "login", "chats", None}
  /\ pc["ui"] \notin LoaderSteps /\ pc["loader"] # "register"
  /\ ~running => pages = <<>> /\ \A g \in Goroutines : pc[g] = "idle"
  /\ current = None <=> pages = <<>>
  /\ pc["ui"] = "register" => Len(pages) < 3
  /\ current \in {"login", "chats"} => pc["loader"] = "idle"
  /\ current = "chats" => pc["ui"] = "idle"
  /\ pc["ui"] \in LoginSteps => current = "login"

(* The private half is written last and never replaced, so a pair in the   *)
(* database is whole once that half is there; only then the loader lets    *)
(* anything be published.                                                  *)
HasKeyPair == running /\ (pc["loader"] = "settings" \/ pc["loader"] \notin LoaderSteps)
KeyInv ==
  /\ keyPair.public = keyPair.private
  /\ db.private # None => db.public = db.private
  /\ pc["loader"] \in {"public", "private"} => db.private = None
  /\ pc["loader"] = "private" => db.public = starts
  /\ HasKeyPair => db.private # None /\ keyPair.public = db.public
  /\ \A u \in Users : account[u].public # None => db.private # None /\ account[u].public = db.public

(* What a login has done at each of its steps.                             *)
LoginAt(g) ==
  /\ pc[g] \in LoginSteps => idHash = arg[g].user
  /\ pc[g] \in {"authorize", "username", "password", "open"} => PasswordIs(arg[g].user, arg[g].password)
  /\ pc[g] \in {"username", "password", "open"} => authID = arg[g].user
  /\ pc[g] \in {"password", "open"} => db.username = arg[g].user
  /\ pc[g] = "open" => db.password = arg[g].password /\ ~mixed

LoginInv ==
  /\ \A g \in Goroutines : LoginAt(g)
  /\ db.username # None /\ db.password # None => PasswordIs(db.username, db.password) \/ mixed
  /\ pc["loader"] \in {"key", "request"} => PasswordIs(arg["loader"].user, arg["loader"].password) \/ mixed
  /\ ChatsAreTheAccounts

-----------------------------------------------------------------------------
(* Types.                                                                  *)

LEMMA InitTyped == Init => Typed
<1> SUFFICES ASSUME Init PROVE Typed OBVIOUS
<1>1. ArgTyped BY DEF Init, ArgTyped, Goroutines, NoLogin, User0, Password0, LoginSteps
<1>2. form \in [state : {"login", "signup"}, user : User0, password : Password0, repeat : Password0]
  BY DEF Init, EmptyForm, User0, Password0
<1>3. /\ db \in [username : User0, password : Password0, public : Key0, private : Key0]
      /\ account \in [Users -> [password : Password0, public : Key0]]
      /\ keyPair \in [public : Key0, private : Key0]
  BY DEF Init, NoAccount, NoKeyPair, User0, Password0, Key0
<1>4. pc \in [Goroutines -> Steps] BY DEF Init, Steps
<1> QED BY <1>1, <1>2, <1>3, <1>4 DEF Init, Typed, User0

(* A goroutine that leaves Login and Signup has no arguments any more.     *)
LEMMA FailTyped ==
  ASSUME Typed, NEW g \in Goroutines, Fail(g)
  PROVE  /\ form' \in [state : {"login", "signup"}, user : User0, password : Password0, repeat : Password0]
         /\ pc' \in [Goroutines -> Steps]
         /\ ArgTyped'
<1>1. form' \in [state : {"login", "signup"}, user : User0, password : Password0, repeat : Password0]
  BY DEF Fail, Typed, User0, Password0
<1>2. pc' \in [Goroutines -> Steps]
  BY DEF Fail, Goto, Typed, Steps
<1>3. ArgTyped'
  BY DEF Fail, Goto, Typed, ArgTyped, NoLogin, User0, Password0, Goroutines, LoginSteps
<1> QED BY <1>1, <1>2, <1>3

LEMMA BeginTyped ==
  ASSUME Typed, NEW g \in Goroutines, NEW l \in [user : Users, password : Passwords, new : BOOLEAN],
         g = "loader" => l.new = FALSE, Begin(g, l)
  PROVE  /\ idHash' \in User0
         /\ pc' \in [Goroutines -> Steps]
         /\ ArgTyped'
<1>1. idHash' \in User0 /\ pc' \in [Goroutines -> Steps]
  BY DEF Begin, Goto, Typed, Steps, LoginSteps, User0
<1>2. ArgTyped'
  BY DEF Begin, Goto, Typed, ArgTyped, User0, Password0, Goroutines, LoginSteps
<1> QED BY <1>1, <1>2

(* A goroutine goes on to a step, in Login or Signup only from another one *)
(* there.                                                                  *)
LEMMA GotoTyped ==
  ASSUME Typed, NEW g \in Goroutines, NEW step \in Steps, Goto(g, step),
         step \in LoginSteps => pc[g] \in LoginSteps, UNCHANGED arg
  PROVE  pc' \in [Goroutines -> Steps] /\ ArgTyped'
<1>1. pc' \in [Goroutines -> Steps]
  BY DEF Goto, Typed
<1>2. ArgTyped'
  BY DEF Goto, Typed, ArgTyped
<1> QED BY <1>1, <1>2

LEMMA LoginStepTyped ==
  ASSUME Typed, NEW g \in Goroutines, LoginStep(g)
  PROVE  Typed'
<1>1. CASE RequestKey(g)
  <2>1. pc' \in [Goroutines -> Steps] /\ ArgTyped'
    BY <1>1, FailTyped, GotoTyped DEF RequestKey, Steps, LoginSteps
  <2>2. form' \in [state : {"login", "signup"}, user : User0, password : Password0, repeat : Password0]
    BY <1>1, FailTyped DEF RequestKey, Typed
  <2> QED BY <1>1, <2>1, <2>2 DEF RequestKey, Typed, client
<1>2. CASE Request(g)
  <2>1. pc' \in [Goroutines -> Steps] /\ ArgTyped'
    BY <1>2, FailTyped, GotoTyped DEF Request, Steps, LoginSteps
  <2>2. form' \in [state : {"login", "signup"}, user : User0, password : Password0, repeat : Password0]
    BY <1>2, FailTyped DEF Request, Typed
  <2>3. account' \in [Users -> [password : Password0, public : Key0]]
    <3>1. arg[g].user \in Users /\ arg[g].password \in Passwords
      BY <1>2 DEF Request, Typed, ArgTyped, LoginSteps
    <3>2. keyPair.public \in Key0 BY DEF Typed
    <3> QED BY <1>2, <3>1, <3>2 DEF Request, Typed, Password0
  <2> QED BY <1>2, <2>1, <2>2, <2>3 DEF Request, Typed, client
<1>3. CASE Authorize(g)
  <2>1. pc' \in [Goroutines -> Steps] /\ ArgTyped'
    BY <1>3, GotoTyped DEF Authorize, Steps, LoginSteps
  <2>2. authID' \in User0 BY <1>3 DEF Authorize, Typed, ArgTyped
  <2> QED BY <1>3, <2>1, <2>2 DEF Authorize, Typed, program, shown
<1>4. CASE SaveUsername(g)
  <2>1. pc' \in [Goroutines -> Steps] /\ ArgTyped'
    BY <1>4, FailTyped, GotoTyped DEF SaveUsername, Steps, LoginSteps
  <2>2. db' \in [username : User0, password : Password0, public : Key0, private : Key0]
    BY <1>4 DEF SaveUsername, Typed, ArgTyped
  <2>3. form' \in [state : {"login", "signup"}, user : User0, password : Password0, repeat : Password0]
    BY <1>4, FailTyped DEF SaveUsername, Typed
  <2> QED BY <1>4, <2>1, <2>2, <2>3 DEF SaveUsername, Typed, client
<1>5. CASE SavePassword(g)
  <2>1. pc' \in [Goroutines -> Steps] /\ ArgTyped'
    BY <1>5, FailTyped, GotoTyped DEF SavePassword, Steps, LoginSteps
  <2>2. db' \in [username : User0, password : Password0, public : Key0, private : Key0]
    BY <1>5 DEF SavePassword, Typed, ArgTyped
  <2>3. form' \in [state : {"login", "signup"}, user : User0, password : Password0, repeat : Password0]
    BY <1>5, FailTyped DEF SavePassword, Typed
  <2> QED BY <1>5, <2>1, <2>2, <2>3 DEF SavePassword, Typed, client
<1>6. CASE OpenChats(g)
  <2>1. pc' \in [Goroutines -> Steps] BY <1>6 DEF OpenChats, Goto, Typed, Steps
  <2>2. ArgTyped'
    BY <1>6 DEF OpenChats, Goto, Typed, ArgTyped, NoLogin, User0, Password0, Goroutines, LoginSteps
  <2> QED BY <1>6, <2>1, <2>2 DEF OpenChats, Typed, client
<1> QED BY <1>1, <1>2, <1>3, <1>4, <1>5, <1>6 DEF LoginStep

LEMMA PageTyped ==
  ASSUME Typed, Type \/ SwitchState \/ SignIn \/ Signup
  PROVE  Typed'
<1>1. CASE Type
  <2>1. ArgTyped' BY <1>1 DEF Type, ArgTyped, Typed
  <2>2. form' \in [state : {"login", "signup"}, user : User0, password : Password0, repeat : Password0]
    <3>1. PICK u \in Users, p \in Passwords, r \in Passwords :
            form' = [form EXCEPT !.user = u, !.password = p, !.repeat = IF "repeat" \in Shown THEN r ELSE @]
      BY <1>1 DEF Type
    <3> QED BY <3>1 DEF Typed, User0, Password0
  <2> QED BY <1>1, <2>1, <2>2 DEF Type, Typed, program, shown, client
<1>2. CASE SwitchState
  <2>1. ArgTyped' BY <1>2 DEF SwitchState, ArgTyped, Typed
  <2>2. form' \in [state : {"login", "signup"}, user : User0, password : Password0, repeat : Password0]
    BY <1>2 DEF SwitchState, Typed
  <2> QED BY <1>2, <2>1, <2>2 DEF SwitchState, Typed, program, shown, client
<1>3. CASE SignIn
  <2>1. CASE Filled /\ Begin("ui", [user |-> form.user, password |-> form.password, new |-> FALSE])
                    /\ UNCHANGED <<form, shown>>
    <3>1. form.user \in Users /\ form.password \in Passwords
      BY <2>1 DEF Filled, Typed, User0, Password0
    <3>2. idHash' \in User0 /\ pc' \in [Goroutines -> Steps] /\ ArgTyped'
      BY <2>1, <3>1, BeginTyped DEF Goroutines
    <3> QED BY <1>3, <2>1, <3>2 DEF SignIn, Typed
  <2>2. CASE Fail("ui") /\ UNCHANGED idHash
    BY <1>3, <2>2, FailTyped DEF SignIn, Typed, Goroutines
  <2> QED BY <1>3, <2>1, <2>2 DEF SignIn
<1>4. CASE Signup
  <2>1. CASE Filled /\ Begin("ui", [user |-> form.user, password |-> form.password, new |-> TRUE])
                    /\ UNCHANGED <<form, shown>>
    <3>1. form.user \in Users /\ form.password \in Passwords
      BY <2>1 DEF Filled, Typed, User0, Password0
    <3>2. idHash' \in User0 /\ pc' \in [Goroutines -> Steps] /\ ArgTyped'
      BY <2>1, <3>1, BeginTyped DEF Goroutines
    <3> QED BY <1>4, <2>1, <3>2 DEF Signup, Typed
  <2>2. CASE Goto("ui", "idle") /\ form' = [form EXCEPT !.password = None, !.repeat = None]
             /\ UNCHANGED <<idHash, arg, shown>>
    <3>1. pc' \in [Goroutines -> Steps] /\ ArgTyped'
      BY <2>2, GotoTyped DEF Goroutines, Steps, LoginSteps
    <3>2. form' \in [state : {"login", "signup"}, user : User0, password : Password0, repeat : Password0]
      BY <2>2 DEF Typed, Password0
    <3> QED BY <1>4, <2>2, <3>1, <3>2 DEF Signup, Typed
  <2> QED BY <1>4, <2>1, <2>2 DEF Signup
<1> QED BY <1>1, <1>2, <1>3, <1>4

LEMMA LoaderTyped ==
  ASSUME Typed, Connect \/ LoadKeyPair \/ SavePublic \/ SavePrivate \/ ReadSettings
  PROVE  Typed'
<1>1. CASE Connect
  <2>1. pc' \in [Goroutines -> Steps] /\ ArgTyped'
    BY <1>1, GotoTyped DEF Connect, Goroutines, Steps, LoginSteps, LoaderSteps
  <2> QED BY <1>1, <2>1 DEF Connect, Typed, program, shown, client
<1>2. CASE LoadKeyPair
  <2>1. pc' \in [Goroutines -> Steps] /\ ArgTyped'
    BY <1>2, GotoTyped DEF LoadKeyPair, Goroutines, Steps, LoginSteps, LoaderSteps
  <2>2. keyPair' \in [public : Key0, private : Key0] BY <1>2 DEF LoadKeyPair, Typed
  <2> QED BY <1>2, <2>1, <2>2 DEF LoadKeyPair, Typed, program, shown
<1>3. CASE SavePublic
  <2>1. pc' \in [Goroutines -> Steps] /\ ArgTyped'
    BY <1>3, GotoTyped DEF SavePublic, Goroutines, Steps, LoginSteps, LoaderSteps
  <2>2. db' \in [username : User0, password : Password0, public : Key0, private : Key0]
    BY <1>3 DEF SavePublic, Typed, Key0
  <2> QED BY <1>3, <2>1, <2>2 DEF SavePublic, Typed, program, shown, client
<1>4. CASE SavePrivate
  <2>1. pc' \in [Goroutines -> Steps] /\ ArgTyped'
    BY <1>4, GotoTyped DEF SavePrivate, Goroutines, Steps, LoginSteps, LoaderSteps
  <2>2. /\ db' \in [username : User0, password : Password0, public : Key0, private : Key0]
        /\ keyPair' \in [public : Key0, private : Key0]
    BY <1>4 DEF SavePrivate, Typed, Key0
  <2> QED BY <1>4, <2>1, <2>2 DEF SavePrivate, Typed, program, shown
<1>5. CASE ReadSettings
  <2>1. CASE /\ db.username # None /\ db.password # None
             /\ Begin("loader", [user |-> db.username, password |-> db.password, new |-> FALSE])
             /\ UNCHANGED shown
    <3>1. db.username \in Users /\ db.password \in Passwords
      BY <2>1 DEF Typed, User0, Password0
    <3>2. idHash' \in User0 /\ pc' \in [Goroutines -> Steps] /\ ArgTyped'
      BY <2>1, <3>1, BeginTyped DEF Goroutines
    <3> QED BY <1>5, <2>1, <3>2 DEF ReadSettings, Typed
  <2>2. CASE Goto("loader", "idle") /\ SetCurrent("login") /\ UNCHANGED <<arg, idHash>>
    <3>1. pc' \in [Goroutines -> Steps] /\ ArgTyped'
      BY <2>2, GotoTyped DEF Goroutines, Steps, LoginSteps
    <3> QED BY <1>5, <2>2, <3>1 DEF ReadSettings, Typed
  <2> QED BY <1>5, <2>1, <2>2 DEF ReadSettings
<1> QED BY <1>1, <1>2, <1>3, <1>4, <1>5

LEMMA RunTyped ==
  ASSUME Typed, Start \/ Stop \/ Register
  PROVE  Typed'
<1>1. CASE Start
  <2>1. pc' \in [Goroutines -> Steps] BY <1>1 DEF Start, Goroutines, Steps, LoaderSteps
  <2>2. ArgTyped' BY <1>1 DEF Start, ArgTyped, Typed, Goroutines, LoginSteps
  <2> QED BY <1>1, <2>1, <2>2 DEF Start, Typed, client
<1>2. CASE Stop
  <2>1. pc' \in [Goroutines -> Steps] BY <1>2 DEF Stop, Steps
  <2>2. ArgTyped' BY <1>2 DEF Stop, ArgTyped, Goroutines, NoLogin, User0, Password0, LoginSteps
  <2>3. /\ form' \in [state : {"login", "signup"}, user : User0, password : Password0, repeat : Password0]
        /\ keyPair' \in [public : Key0, private : Key0]
    BY <1>2 DEF Stop, EmptyForm, NoKeyPair, User0, Password0, Key0
  <2> QED BY <1>2, <2>1, <2>2, <2>3 DEF Stop, Typed, User0
<1>3. CASE Register
  <2>1. pc' \in [Goroutines -> Steps] BY <1>3 DEF Register, Typed, Steps, Goroutines
  <2>2. ArgTyped' BY <1>3 DEF Register, ArgTyped, Typed, Goroutines, LoginSteps
  <2> QED BY <1>3, <2>1, <2>2 DEF Register, Typed, client
<1> QED BY <1>1, <1>2, <1>3

LEMMA NextTyped == Typed /\ [Next]_vars => Typed'
<1> SUFFICES ASSUME Typed, [Next]_vars PROVE Typed' OBVIOUS
<1>1. CASE Start \/ Stop \/ Register BY <1>1, RunTyped
<1>2. CASE Connect \/ LoadKeyPair \/ SavePublic \/ SavePrivate \/ ReadSettings BY <1>2, LoaderTyped
<1>3. CASE \E g \in Goroutines : LoginStep(g) BY <1>3, LoginStepTyped
<1>4. CASE User BY <1>4, PageTyped DEF User
<1>5. CASE UNCHANGED vars
  <2>1. ArgTyped' BY <1>5 DEF vars, Typed, ArgTyped
  <2> QED BY <1>5, <2>1 DEF vars, program, shown, client, Typed
<1> QED BY <1>1, <1>2, <1>3, <1>4, <1>5 DEF Next, Loader, UI, Goroutines

(* Every variable keeps to its type.                                       *)
THEOREM TypesHold == Spec => []Typed
BY InitTyped, NextTyped, PTL DEF Spec

-----------------------------------------------------------------------------
(* Where the goroutines are.                                               *)

LEMMA NoneIsNoPage == None \notin {"loading", "login", "chats"} /\ None \notin Users \cup Passwords \cup Nat
BY NoneAssumption

LEMMA InitControl == Init => ControlInv
<1> SUFFICES ASSUME Init PROVE ControlInv OBVIOUS
<1>1. PagesTyped BY DEF Init, PagesTyped
<1> QED BY <1>1, NoneIsNoPage DEF Init, ControlInv, Goroutines, LoaderSteps, LoginSteps

(* The chats page is registered last.                                      *)
LEMMA ChatsIsLast == ASSUME ControlInv, Registered("chats") PROVE pc["ui"] # "register"
BY DEF ControlInv, PagesTyped, Registered, Tags

(* The loader shows the login page, and stops.                             *)
LEMMA LoaderStopsControl ==
  ASSUME Typed, ControlInv, pc["loader"] # "idle", SetCurrent("login"), Goto("loader", "idle"),
         UNCHANGED <<running, pages>>
  PROVE  ControlInv'
<1>1. pc' = [pc EXCEPT !["loader"] = "idle"] /\ pc'["ui"] = pc["ui"] /\ pc'["loader"] = "idle"
  BY DEF Goto, Typed, Goroutines
<1>2. pages' = pages /\ running' = running /\ PagesTyped' BY DEF ControlInv, PagesTyped
<1>3. current' \in {"loading", "login", "chats", None} /\ (current' = None <=> pages' = <<>>)
  BY <1>2, NoneIsNoPage DEF ControlInv, SetCurrent, Registered
<1>4. current' # "chats" /\ pc'["ui"] \notin LoginSteps
  BY <1>1, NoneIsNoPage DEF ControlInv, SetCurrent
<1> QED BY <1>1, <1>2, <1>3, <1>4 DEF ControlInv, Goroutines

(* A goroutine takes another step, and the page stays.                     *)
LEMMA StepControl ==
  ASSUME Typed, ControlInv, NEW g \in Goroutines, NEW step \in {"idle"} \cup LoaderSteps \cup LoginSteps,
         Goto(g, step), UNCHANGED program, running,
         g = "ui" => step \notin LoaderSteps /\ (step \in LoginSteps => current = "login"),
         g = "loader" => step = "idle" \/ pc["loader"] # "idle"
  PROVE  ControlInv'
<1>1. /\ pc' = [pc EXCEPT ![g] = step] /\ pc'[g] = step
      /\ \A h \in Goroutines \ {g} : pc'[h] = pc[h]
  BY DEF Goto, Typed
<1>2. pages' = pages /\ running' = running /\ current' = current /\ PagesTyped'
  BY DEF ControlInv, PagesTyped, program, shown
<1> QED BY <1>1, <1>2 DEF ControlInv, Goroutines, LoaderSteps, LoginSteps

(* A login of the login page fails.                                        *)
LEMMA FailControl ==
  ASSUME Typed, ControlInv, NEW g \in Goroutines, Fail(g), UNCHANGED <<running, pages>>,
         running, pc[g] \in LoginSteps \/ (g = "ui" /\ pc["ui"] = "idle")
  PROVE  ControlInv'
<1>1. CASE g = "loader"
  <2>1. pc["loader"] # "idle" BY <1>1 DEF LoginSteps
  <2> QED BY <1>1, <2>1, LoaderStopsControl DEF Fail
<1>2. CASE g = "ui"
  <2>1. Goto("ui", "idle") /\ UNCHANGED program BY <1>2 DEF Fail, program, shown
  <2>2. "idle" \notin LoaderSteps \cup LoginSteps BY DEF LoaderSteps, LoginSteps
  <2> QED BY <1>2, <2>1, <2>2, StepControl
<1> QED BY <1>1, <1>2 DEF Goroutines

(* A goroutine that is anywhere is so in a program that runs.              *)
LEMMA BusyRuns == ASSUME ControlInv, NEW g \in Goroutines, pc[g] # "idle" PROVE running
BY DEF ControlInv

LEMMA LoginStepControl ==
  ASSUME Typed, ControlInv, NEW g \in Goroutines, LoginStep(g)
  PROVE  ControlInv'
<1>1. pc[g] \in LoginSteps /\ running
  <2>1. pc[g] \in LoginSteps
    BY DEF LoginStep, RequestKey, Request, Authorize, SaveUsername, SavePassword, OpenChats, LoginSteps
  <2> QED BY <2>1, BusyRuns DEF LoginSteps
<1>2. g = "ui" => current = "login" BY <1>1 DEF ControlInv
<1>3. ASSUME NEW step \in LoginSteps, Goto(g, step), UNCHANGED program PROVE ControlInv'
  BY <1>1, <1>2, <1>3, StepControl DEF LoginSteps, LoaderSteps
<1>4. ASSUME Fail(g), UNCHANGED <<running, pages>> PROVE ControlInv'
  BY <1>1, <1>4, FailControl
<1>5. CASE RequestKey(g)
  BY <1>3, <1>4, <1>5 DEF RequestKey, program, shown, LoginSteps
<1>6. CASE Request(g)
  BY <1>3, <1>4, <1>6 DEF Request, program, shown, LoginSteps
<1>7. CASE Authorize(g)
  BY <1>3, <1>7 DEF Authorize, program, shown, LoginSteps
<1>8. CASE SaveUsername(g)
  BY <1>3, <1>4, <1>8 DEF SaveUsername, program, shown, LoginSteps
<1>9. CASE SavePassword(g)
  BY <1>3, <1>4, <1>9 DEF SavePassword, program, shown, LoginSteps
<1>10. CASE OpenChats(g)
  <2>1. /\ pc' = [pc EXCEPT ![g] = "idle"] /\ pc'[g] = "idle"
        /\ \A h \in Goroutines \ {g} : pc'[h] = pc[h]
    BY <1>10 DEF OpenChats, Goto, Typed
  <2>2. pages' = pages /\ running' = running /\ PagesTyped'
    BY <1>10 DEF OpenChats, ControlInv, PagesTyped
  <2>3. pc'["loader"] = "idle"
    BY <1>1, <1>2, <2>1 DEF ControlInv, Goroutines
  <2>4. current' \in {"loading", "login", "chats", None} /\ (current' = None <=> pages' = <<>>)
    BY <1>10, <2>2, NoneIsNoPage DEF OpenChats, ControlInv, SetCurrent, Registered
  <2>5. current' = "chats" => pc'["ui"] = "idle"
    BY <1>1, <1>10, <2>1, ChatsIsLast DEF OpenChats, ControlInv, SetCurrent, Goroutines, LoginSteps, Typed, Steps
  <2>6. pc'["ui"] \notin LoginSteps
    BY <1>1, <2>1 DEF ControlInv, Goroutines, LoginSteps
  <2> QED BY <1>1, <2>1, <2>2, <2>3, <2>4, <2>5, <2>6 DEF ControlInv, Goroutines, LoaderSteps
<1> QED BY <1>5, <1>6, <1>7, <1>8, <1>9, <1>10 DEF LoginStep

LEMMA LoaderControl ==
  ASSUME Typed, ControlInv, Connect \/ LoadKeyPair \/ SavePublic \/ SavePrivate \/ ReadSettings
  PROVE  ControlInv'
<1>1. pc["loader"] \in LoaderSteps
  BY DEF Connect, LoadKeyPair, SavePublic, SavePrivate, ReadSettings, LoaderSteps
<1>2. pc["loader"] # "idle" /\ running
  <2>1. pc["loader"] # "idle" BY <1>1 DEF LoaderSteps
  <2> QED BY <2>1, BusyRuns DEF Goroutines
<1>3. ASSUME NEW step \in LoaderSteps \cup LoginSteps, Goto("loader", step), UNCHANGED program
      PROVE  ControlInv'
  BY <1>2, <1>3, StepControl DEF Goroutines
<1>4. CASE Connect BY <1>3, <1>4 DEF Connect, LoaderSteps
<1>5. CASE LoadKeyPair BY <1>3, <1>5 DEF LoadKeyPair, LoaderSteps
<1>6. CASE SavePublic BY <1>3, <1>6 DEF SavePublic, LoaderSteps
<1>7. CASE SavePrivate BY <1>3, <1>7 DEF SavePrivate, LoaderSteps
<1>8. CASE ReadSettings
  <2>1. CASE Goto("loader", "key") /\ UNCHANGED program BY <1>3, <2>1 DEF LoginSteps
  <2>2. CASE Goto("loader", "idle") /\ SetCurrent("login")
    BY <1>2, <1>8, <2>2, LoaderStopsControl DEF ReadSettings
  <2> QED BY <1>8, <2>1, <2>2 DEF ReadSettings, Begin, program, shown
<1> QED BY <1>4, <1>5, <1>6, <1>7, <1>8

LEMMA PageControl ==
  ASSUME Typed, ControlInv, Type \/ SwitchState \/ SignIn \/ Signup
  PROVE  ControlInv'
<1>1. MayUse BY DEF Type, SwitchState, SignIn, Signup, Click
<1>2. running /\ current = "login"
  BY <1>1, NoneIsNoPage DEF MayUse, ControlInv
<1>3. "idle" \notin LoaderSteps \cup LoginSteps /\ "key" \in LoginSteps /\ "key" \notin LoaderSteps
  BY DEF LoaderSteps, LoginSteps
<1>4. CASE UNCHANGED <<program, pc>>
  BY <1>4 DEF program, shown, ControlInv, PagesTyped
<1>5. CASE Goto("ui", "key") /\ UNCHANGED program
  BY <1>2, <1>3, <1>5, StepControl DEF Goroutines
<1>6. CASE Goto("ui", "idle") /\ UNCHANGED program
  BY <1>2, <1>3, <1>6, StepControl DEF Goroutines
<1>7. CASE Type \/ SwitchState BY <1>4, <1>7 DEF Type, SwitchState
<1>8. CASE SignIn
  BY <1>5, <1>6, <1>8 DEF SignIn, Begin, Fail, program, shown
<1>9. CASE Signup
  BY <1>5, <1>6, <1>9 DEF Signup, Begin, program, shown
<1> QED BY <1>7, <1>8, <1>9

LEMMA RunControl ==
  ASSUME Typed, ControlInv, Start \/ Stop \/ Register
  PROVE  ControlInv'
<1>1. CASE Start
  <2>1. /\ pc'["ui"] = "register" /\ pc'["loader"] = "connect" /\ running'
        /\ pages' = <<>> /\ current' = None
    BY <1>1 DEF Start, ControlInv, shown
  <2>2. PagesTyped' BY <2>1 DEF PagesTyped
  <2> QED BY <2>1, <2>2, NoneIsNoPage DEF ControlInv, Goroutines, LoaderSteps, LoginSteps
<1>2. CASE Stop
  <2>1. /\ \A g \in Goroutines : pc'[g] = "idle"
        /\ ~running' /\ pages' = <<>> /\ current' = None
    BY <1>2 DEF Stop
  <2>2. PagesTyped' BY <2>1 DEF PagesTyped
  <2> QED BY <2>1, <2>2, NoneIsNoPage DEF ControlInv, Goroutines, LoaderSteps, LoginSteps
<1>3. CASE Register
  <2> DEFINE tag == Tags[Len(pages) + 1]
  <2>1. running
    BY <1>3, BusyRuns DEF Register, Goroutines
  <2>2. pc["ui"] = "register" /\ Len(pages) \in 0..2
    <3>1. pc["ui"] = "register" BY <1>3 DEF Register
    <3>2. Len(pages) < 3 BY <3>1 DEF ControlInv
    <3>3. Len(pages) \in Nat BY DEF ControlInv, PagesTyped
    <3>4. \A n \in Nat : n < 3 => n \in 0..2 OBVIOUS
    <3>5. Len(pages) \in 0..2 BY <3>2, <3>3, <3>4
    <3> QED BY <3>1, <3>5
  <2>3. /\ tag \in {"loading", "login", "chats"}
        /\ Len(pages) = 0 => tag = "loading"
        /\ tag = "chats" <=> Len(pages) = 2
    <3>1. CASE Len(pages) = 0 BY <3>1 DEF Tags
    <3>2. CASE Len(pages) = 1 BY <3>2 DEF Tags
    <3>3. CASE Len(pages) = 2 BY <3>3 DEF Tags
    <3> QED BY <2>2, <3>1, <3>2, <3>3
  <2>4. PagesTyped' /\ pages' # <<>> /\ Len(pages') = Len(pages) + 1
    <3>1. pages' = Append(pages, tag) /\ pages \in Seq({"loading", "login", "chats"}) BY <1>3 DEF Register, ControlInv, PagesTyped
    <3> QED BY <2>2, <2>3, <3>1 DEF ControlInv, PagesTyped
  <2>5. current' = IF current = None THEN tag ELSE current
    BY <1>3 DEF Register
  <2>6. current = None => tag = "loading"
    BY <2>3 DEF ControlInv
  <2>7. /\ running' = running /\ pc'["loader"] = pc["loader"]
        /\ pc'["ui"] = IF tag = "chats" THEN "idle" ELSE pc["ui"]
    BY <1>3 DEF Register, Typed, Goroutines
  <2> HIDE DEF tag
  <2>8. pc'["ui"] \in {"idle", "register"} /\ (pc'["ui"] = "register" => Len(pages') < 3)
    <3>1. \A n \in 0..2 : n # 2 => n + 1 < 3 OBVIOUS
    <3>2. tag # "chats" => Len(pages') < 3 BY <2>2, <2>3, <2>4, <3>1
    <3>3. pc["ui"] = "register" BY <2>2
    <3> QED BY <2>7, <3>2, <3>3
  <2>9. /\ current' \in {"loading", "login", "chats"}
        /\ current' \in {"login", "chats"} => current' = current
    BY <2>3, <2>5, <2>6 DEF ControlInv
  <2>10. current # "chats"
    BY <2>2 DEF ControlInv
  <2> QED BY <2>1, <2>4, <2>7, <2>8, <2>9, <2>10, NoneIsNoPage DEF ControlInv, LoaderSteps, LoginSteps
<1> QED BY <1>1, <1>2, <1>3

LEMMA NextControl == Typed /\ ControlInv /\ [Next]_vars => ControlInv'
<1> SUFFICES ASSUME Typed, ControlInv, [Next]_vars PROVE ControlInv' OBVIOUS
<1>1. CASE Start \/ Stop \/ Register BY <1>1, RunControl
<1>2. CASE Connect \/ LoadKeyPair \/ SavePublic \/ SavePrivate \/ ReadSettings BY <1>2, LoaderControl
<1>3. CASE \E g \in Goroutines : LoginStep(g) BY <1>3, LoginStepControl
<1>4. CASE User BY <1>4, PageControl DEF User
<1>5. CASE UNCHANGED vars
  BY <1>5 DEF vars, program, shown, ControlInv, PagesTyped
<1> QED BY <1>1, <1>2, <1>3, <1>4, <1>5 DEF Next, Loader, UI, Goroutines

(* The login page and the chats are there only when the loader is done,    *)
(* and the chats when the login page's login is done too.                  *)
THEOREM PagesWait == Spec => []ControlInv
BY InitControl, NextControl, TypesHold, PTL DEF Spec

(* The loader's login and the login page's never run at the same time.     *)
THEOREM LoginsAlternate == Spec => []OneLoginAtATime
<1>1. ControlInv => OneLoginAtATime
  BY DEF ControlInv, OneLoginAtATime, Goroutines, LoginSteps
<1> QED BY <1>1, PagesWait, PTL

-----------------------------------------------------------------------------
(* The key pair.                                                           *)

LEMMA GotoIs ==
  ASSUME Typed, NEW g \in Goroutines, NEW step, Goto(g, step)
  PROVE  pc'[g] = step /\ \A h \in Goroutines \ {g} : pc'[h] = pc[h]
BY DEF Goto, Typed

LEMMA InitKey == Init => KeyInv
BY DEF Init, KeyInv, HasKeyPair, NoKeyPair, NoAccount, Goroutines

(* Nothing of the key pair changes, and the loader is as far with it as    *)
(* before.                                                                 *)
LEMMA KeyKept ==
  ASSUME KeyInv, UNCHANGED <<running, keyPair, account, starts>>,
         db'.public = db.public, db'.private = db.private,
         \/ pc'["loader"] = pc["loader"]
         \/ pc["loader"] \notin LoaderSteps \ {"settings"} /\ pc'["loader"] \notin LoaderSteps
  PROVE  KeyInv'
<1>1. pc'["loader"] \in {"public", "private"} => pc["loader"] = pc'["loader"]
  BY DEF LoaderSteps
<1>2. HasKeyPair' => HasKeyPair
  BY DEF HasKeyPair, LoaderSteps
<1> QED BY <1>1, <1>2 DEF KeyInv

(* An account is made only when there is a key pair in the database, which *)
(* it gets the public half of.                                             *)
LEMMA KeyPublished ==
  ASSUME Typed, ControlInv, KeyInv, NEW g \in Goroutines, Request(g)
  PROVE  KeyInv'
<1>1. UNCHANGED <<running, keyPair, db, starts>> BY DEF Request, client
<1>2. pc[g] = "request" /\ running
  <2>1. pc[g] = "request" BY DEF Request
  <2> QED BY <2>1, BusyRuns
<1>3. HasKeyPair
  BY <1>2 DEF ControlInv, HasKeyPair, LoginSteps, LoaderSteps, Goroutines
<1>4. \/ pc'["loader"] = pc["loader"]
      \/ pc["loader"] \notin LoaderSteps \ {"settings"} /\ pc'["loader"] \notin LoaderSteps
  <2>1. PICK step \in {"authorize", "idle"} : Goto(g, step)
    BY DEF Request, Fail
  <2> QED BY <1>2, <2>1, GotoIs DEF Goroutines, LoaderSteps
<1>5. \A u \in Users : account'[u].public # None => account'[u].public \in {account[u].public, keyPair.public}
  BY DEF Request, Typed
<1>6. \A u \in Users : account'[u].public # None => db.private # None /\ account'[u].public = db.public
  BY <1>3, <1>5 DEF KeyInv
<1>7. pc'["loader"] \in {"public", "private"} => pc["loader"] = pc'["loader"]
  BY <1>4 DEF LoaderSteps
<1>8. db.private # None /\ keyPair.public = db.public
  BY <1>3 DEF KeyInv
<1> QED BY <1>1, <1>6, <1>7, <1>8 DEF KeyInv

LEMMA LoginStepKey ==
  ASSUME Typed, ControlInv, KeyInv, NEW g \in Goroutines, LoginStep(g)
  PROVE  KeyInv'
<1>1. CASE Request(g) BY <1>1, KeyPublished
<1>2. ASSUME ~Request(g) PROVE KeyInv'
  <2>1. PICK step \in {"idle"} \cup LoginSteps : Goto(g, step)
    BY <1>2 DEF LoginStep, RequestKey, Fail, Authorize, SaveUsername, SavePassword, OpenChats, LoginSteps
  <2>2. pc[g] \in LoginSteps
    BY DEF LoginStep, RequestKey, Request, Authorize, SaveUsername, SavePassword, OpenChats, LoginSteps
  <2>3. \/ pc'["loader"] = pc["loader"]
        \/ pc["loader"] \notin LoaderSteps \ {"settings"} /\ pc'["loader"] \notin LoaderSteps
    BY <2>1, <2>2, GotoIs DEF Goroutines, LoaderSteps, LoginSteps
  <2>4. UNCHANGED <<running, keyPair, account, starts>> /\ db'.public = db.public /\ db'.private = db.private
    BY <1>2 DEF LoginStep, RequestKey, Authorize, SaveUsername, SavePassword, OpenChats, program, shown, client, Typed
  <2> QED BY <2>3, <2>4, KeyKept
<1> QED BY <1>1, <1>2

LEMMA PageKey ==
  ASSUME Typed, KeyInv, Type \/ SwitchState \/ SignIn \/ Signup \/ Register
  PROVE  KeyInv'
<1>1. pc'["loader"] = pc["loader"]
  BY DEF Type, SwitchState, SignIn, Signup, Register, Begin, Fail, Goto, Typed, Goroutines
<1>2. UNCHANGED <<running, keyPair, account, starts, db>>
  BY DEF Type, SwitchState, SignIn, Signup, Register, program, shown, client
<1> QED BY <1>1, <1>2, KeyKept

LEMMA RunKey ==
  ASSUME KeyInv, Start \/ Stop
  PROVE  KeyInv'
<1>1. CASE Start
  <2>1. pc'["loader"] = "connect" /\ UNCHANGED <<keyPair, db, account>> BY <1>1 DEF Start, client
  <2> QED BY <2>1 DEF KeyInv, HasKeyPair, LoaderSteps
<1>2. CASE Stop
  <2>1. /\ pc'["loader"] = "idle" /\ ~running' /\ keyPair' = NoKeyPair /\ UNCHANGED <<db, account, starts>>
    BY <1>2 DEF Stop, Goroutines
  <2> QED BY <2>1 DEF KeyInv, HasKeyPair, NoKeyPair
<1> QED BY <1>1, <1>2

LEMMA LoaderKey ==
  ASSUME Typed, KeyInv, Connect \/ LoadKeyPair \/ SavePublic \/ SavePrivate \/ ReadSettings
  PROVE  KeyInv'
<1>1. CASE Connect
  <2>1. pc["loader"] = "connect" /\ pc'["loader"] = "keypair" BY <1>1, GotoIs DEF Connect, Goroutines
  <2>2. UNCHANGED <<keyPair, db, account, starts>> BY <1>1 DEF Connect, client
  <2> QED BY <2>1, <2>2 DEF KeyInv, HasKeyPair, LoaderSteps
<1>2. CASE LoadKeyPair
  <2>1. UNCHANGED <<db, account, starts>> BY <1>2 DEF LoadKeyPair
  <2>2. CASE db.public # None /\ db.private # None
    <3>1. pc'["loader"] = "settings" /\ keyPair' = [public |-> db.public, private |-> db.private]
      BY <1>2, <2>2, GotoIs DEF LoadKeyPair, Goroutines
    <3> QED BY <2>1, <2>2, <3>1 DEF KeyInv
  <2>3. CASE db.public = None \/ db.private = None
    <3>1. pc'["loader"] = "public" /\ UNCHANGED keyPair
      BY <1>2, <2>3, GotoIs DEF LoadKeyPair, Goroutines
    <3>2. db.private = None BY <2>3 DEF KeyInv
    <3> QED BY <2>1, <3>1, <3>2 DEF KeyInv, HasKeyPair, LoaderSteps
  <2> QED BY <2>2, <2>3
<1>3. CASE SavePublic
  <2>1. pc["loader"] = "public" /\ pc'["loader"] = "private" BY <1>3, GotoIs DEF SavePublic, Goroutines
  <2>2. db' = [db EXCEPT !.public = starts] /\ UNCHANGED <<keyPair, account, starts>>
    BY <1>3 DEF SavePublic, client
  <2>3. db'.public = starts /\ db'.private = db.private /\ db.private = None
    BY <2>1, <2>2 DEF Typed, KeyInv
  <2> QED BY <2>1, <2>2, <2>3 DEF KeyInv, HasKeyPair, LoaderSteps
<1>4. CASE SavePrivate
  <2>1. pc["loader"] = "private" /\ pc'["loader"] = "settings" BY <1>4, GotoIs DEF SavePrivate, Goroutines
  <2>2. /\ db' = [db EXCEPT !.private = starts] /\ UNCHANGED <<account, starts>>
        /\ keyPair' = [public |-> starts, private |-> starts]
    BY <1>4 DEF SavePrivate
  <2>3. db'.public = starts /\ db'.private = starts /\ db.private = None
    BY <2>1, <2>2 DEF Typed, KeyInv
  <2>4. starts # None BY NoneIsNoPage DEF Typed
  <2> QED BY <2>1, <2>2, <2>3, <2>4 DEF KeyInv
<1>5. CASE ReadSettings
  <2>1. UNCHANGED <<running, keyPair, db, account, starts>> BY <1>5 DEF ReadSettings
  <2>2. pc["loader"] = "settings" /\ pc'["loader"] \in {"key", "idle"}
    BY <1>5, GotoIs DEF ReadSettings, Begin, Goroutines
  <2> QED BY <2>1, <2>2, KeyKept DEF LoaderSteps
<1> QED BY <1>1, <1>2, <1>3, <1>4, <1>5

LEMMA NextKey == Typed /\ ControlInv /\ KeyInv /\ [Next]_vars => KeyInv'
<1> SUFFICES ASSUME Typed, ControlInv, KeyInv, [Next]_vars PROVE KeyInv' OBVIOUS
<1>1. CASE Start \/ Stop BY <1>1, RunKey
<1>2. CASE Connect \/ LoadKeyPair \/ SavePublic \/ SavePrivate \/ ReadSettings BY <1>2, LoaderKey
<1>3. CASE \E g \in Goroutines : LoginStep(g) BY <1>3, LoginStepKey
<1>4. CASE User \/ Register BY <1>4, PageKey DEF User
<1>5. CASE UNCHANGED vars
  BY <1>5, KeyKept DEF vars, program, shown, client
<1> QED BY <1>1, <1>2, <1>3, <1>4, <1>5 DEF Next, Loader, UI, Goroutines

(* The database's key pair is whole once its private half is there, and is *)
(* then the one every account of this client was made with.                *)
THEOREM KeyPairIsWhole == Spec => []KeyInv
BY InitKey, NextKey, TypesHold, PagesWait, PTL DEF Spec

(* No interrupted start gives the client another key pair than the one its *)
(* accounts were published with.                                           *)
THEOREM PublishedKeyStays == Spec => []PublishedKeyIsKept
<1>1. KeyInv => PublishedKeyIsKept
  BY DEF KeyInv, HasKeyPair, PublishedKeyIsKept
<1> QED BY <1>1, KeyPairIsWhole, PTL

-----------------------------------------------------------------------------
(* Logins.                                                                 *)

LEMMA InitLogin == Init => LoginInv
BY NoneIsNoPage DEF Init, LoginInv, LoginAt, Goroutines, LoginSteps, ChatsAreTheAccounts

(* Two goroutines are never both in Login or Signup.                       *)
LEMMA Alone ==
  ASSUME ControlInv, NEW g \in Goroutines, pc[g] \in LoginSteps
  PROVE  /\ \A h \in Goroutines \ {g} : pc[h] \notin LoginSteps
         /\ current # "chats"
BY DEF ControlInv, Goroutines, LoginSteps

(* No login advances, and nothing it did or goes by changes.               *)
LEMMA LoginKept ==
  ASSUME LoginInv, UNCHANGED <<idHash, authID, mixed, account>>,
         db'.username = db.username, db'.password = db.password,
         \A g \in Goroutines : pc'[g] \in LoginSteps => pc'[g] = pc[g] /\ arg'[g] = arg[g],
         current' = "chats" => current = "chats"
  PROVE  LoginInv'
<1>1. ASSUME NEW u, NEW p PROVE PasswordIs(u, p)' <=> PasswordIs(u, p)
  BY DEF PasswordIs
<1>2. ASSUME NEW g \in Goroutines PROVE LoginAt(g)'
  BY DEF LoginInv, LoginAt, LoginSteps, PasswordIs
<1>3. ChatsAreTheAccounts'
  BY DEF LoginInv, ChatsAreTheAccounts, PasswordIs
<1>4. (db.username # None /\ db.password # None => PasswordIs(db.username, db.password) \/ mixed)'
  BY DEF LoginInv, PasswordIs
<1>5. (pc["loader"] \in {"key", "request"} => PasswordIs(arg["loader"].user, arg["loader"].password) \/ mixed)'
  BY DEF LoginInv, PasswordIs, Goroutines, LoginSteps
<1> QED BY <1>2, <1>3, <1>4, <1>5 DEF LoginInv

(* A step of a login: of the other goroutine there is nothing to show, and *)
(* the settings are good, whether or not they are the login's own.         *)
LEMMA LoginAdvances ==
  ASSUME Typed, ControlInv, NEW g \in Goroutines, pc[g] \in LoginSteps, NEW step, Goto(g, step),
         LoginAt(g)', ChatsAreTheAccounts',
         (db.username # None /\ db.password # None => PasswordIs(db.username, db.password) \/ mixed)',
         step \in {"key", "request"} => g = "ui" \/ (PasswordIs(arg["loader"].user, arg["loader"].password) \/ mixed)'
  PROVE  LoginInv'
<1>1. pc'[g] = step /\ \A h \in Goroutines \ {g} : pc'[h] \notin LoginSteps
  BY GotoIs, Alone
<1>2. \A h \in Goroutines \ {g} : LoginAt(h)'
  BY <1>1 DEF LoginAt, LoginSteps
<1>3. (pc["loader"] \in {"key", "request"} => PasswordIs(arg["loader"].user, arg["loader"].password) \/ mixed)'
  BY <1>1 DEF Goroutines, LoginSteps
<1> QED BY <1>2, <1>3 DEF LoginInv

(* An account that is there keeps its password.                            *)
LEMMA AccountsStay ==
  ASSUME Typed, NEW g \in Goroutines, Request(g), NEW u \in Users, NEW p \in Passwords, PasswordIs(u, p)
  PROVE  PasswordIs(u, p)'
<1>1. p # None BY NoneAssumption
<1>2. account[u] # NoAccount BY <1>1 DEF PasswordIs, NoAccount
<1>3. CASE account' = account BY <1>3 DEF PasswordIs
<1>4. CASE /\ arg[g].new /\ Granted(arg[g])
           /\ account' = [account EXCEPT ![arg[g].user] = [password |-> arg[g].password, public |-> keyPair.public]]
  <2>1. account[arg[g].user] = NoAccount BY <1>4 DEF Granted
  <2> QED BY <1>2, <1>4, <2>1 DEF PasswordIs, Typed
<1> QED BY <1>3, <1>4 DEF Request

(* What a granted request is good for.                                     *)
LEMMA GrantedIsGood ==
  ASSUME Typed, NEW g \in Goroutines, Request(g), pc'[g] = "authorize"
  PROVE  PasswordIs(arg[g].user, arg[g].password)'
<1>1. arg' = arg /\ Granted(arg[g])
  BY GotoIs DEF Request, Fail
<1>2. arg[g].user \in Users /\ arg[g].password \in Passwords
  BY DEF Request, Typed, ArgTyped, LoginSteps
<1>3. CASE arg[g].new
  <2>1. account' = [account EXCEPT ![arg[g].user] = [password |-> arg[g].password, public |-> keyPair.public]]
    BY <1>3, GotoIs DEF Request, Fail
  <2> QED BY <1>1, <1>2, <2>1 DEF PasswordIs, Typed
<1>4. CASE ~arg[g].new
  <2>1. account' = account BY <1>4 DEF Request
  <2> QED BY <1>1, <1>4, <2>1 DEF PasswordIs, Granted
<1> QED BY <1>3, <1>4

LEMMA RequestLogin ==
  ASSUME Typed, Typed', ControlInv, LoginInv, NEW g \in Goroutines, Request(g)
  PROVE  LoginInv'
<1>1. pc[g] = "request" /\ pc[g] \in LoginSteps BY DEF Request, LoginSteps
<1>2. UNCHANGED <<idHash, authID, db, mixed>> BY DEF Request, client
<1>3. PICK step \in {"authorize", "idle"} : Goto(g, step)
  BY DEF Request, Fail
<1>4. pc'[g] = step BY <1>3, GotoIs
<1>5. LoginAt(g)'
  <2>1. CASE step = "authorize"
    <3>1. arg' = arg BY <1>4, <2>1, GotoIs DEF Request, Fail
    <3>2. idHash' = arg'[g].user BY <1>1, <1>2, <3>1 DEF LoginInv, LoginAt
    <3>3. PasswordIs(arg[g].user, arg[g].password)' BY <1>4, <2>1, GrantedIsGood
    <3> QED BY <1>4, <2>1, <3>2, <3>3 DEF LoginAt
  <2>2. CASE step = "idle" BY <1>4, <2>2 DEF LoginAt, LoginSteps
  <2> QED BY <2>1, <2>2
<1>6. ChatsAreTheAccounts'
  <2>1. current' # "chats"
    BY <1>1, Alone, NoneIsNoPage DEF Request, Fail, SetCurrent, shown
  <2> QED BY <2>1 DEF ChatsAreTheAccounts
<1>7. (db.username # None /\ db.password # None => PasswordIs(db.username, db.password) \/ mixed)'
  <2> SUFFICES ASSUME db.username # None, db.password # None
               PROVE  (PasswordIs(db.username, db.password) \/ mixed)'
    BY <1>2
  <2>1. db.username \in Users /\ db.password \in Passwords BY DEF Typed, User0, Password0
  <2>2. CASE PasswordIs(db.username, db.password)
    <3>1. account'[db.username].password = db.password BY <2>1, <2>2, AccountsStay DEF PasswordIs
    <3> QED BY <1>2, <3>1 DEF PasswordIs
  <2>3. CASE mixed BY <1>2, <2>3
  <2> QED BY <2>2, <2>3 DEF LoginInv
<1> QED BY <1>1, <1>3, <1>5, <1>6, <1>7, LoginAdvances

(* A login that ends with an error leaves what it has got done.            *)
LEMMA FailLogin ==
  ASSUME Typed, ControlInv, LoginInv, NEW g \in Goroutines, pc[g] \in LoginSteps, Fail(g),
         UNCHANGED <<idHash, authID, db, mixed, account>>
  PROVE  LoginInv'
<1>1. Goto(g, "idle") /\ pc'[g] = "idle" BY GotoIs DEF Fail
<1>2. LoginAt(g)' BY <1>1 DEF LoginAt, LoginSteps
<1>3. current # "chats" BY Alone
<1>4. ChatsAreTheAccounts'
  BY <1>3, NoneIsNoPage DEF Fail, SetCurrent, shown, ChatsAreTheAccounts
<1>5. (db.username # None /\ db.password # None => PasswordIs(db.username, db.password) \/ mixed)'
  BY DEF LoginInv, PasswordIs
<1> QED BY <1>1, <1>2, <1>4, <1>5, LoginAdvances

LEMMA LoginStepLogin ==
  ASSUME Typed, Typed', ControlInv, LoginInv, NEW g \in Goroutines, LoginStep(g)
  PROVE  LoginInv'
<1>1. pc[g] \in LoginSteps
  BY DEF LoginStep, RequestKey, Request, Authorize, SaveUsername, SavePassword, OpenChats, LoginSteps
<1>2. LoginAt(g) /\ (db.username # None /\ db.password # None => PasswordIs(db.username, db.password) \/ mixed)
  BY DEF LoginInv
<1>3. current # "chats" BY <1>1, Alone
<1>4. arg[g].user \in Users /\ arg[g].password \in Passwords BY <1>1 DEF Typed, ArgTyped
<1>5. CASE Request(g) BY <1>5, RequestLogin
<1>6. CASE RequestKey(g)
  <2>1. UNCHANGED <<idHash, authID, db, mixed, account>> BY <1>6 DEF RequestKey, client
  <2>2. ChatsAreTheAccounts'
    BY <1>3, <1>6, NoneIsNoPage DEF RequestKey, Fail, SetCurrent, shown, ChatsAreTheAccounts
  <2>3. (db.username # None /\ db.password # None => PasswordIs(db.username, db.password) \/ mixed)'
    BY <1>2, <2>1 DEF PasswordIs
  <2>4. CASE Goto(g, "request") /\ UNCHANGED arg
    <3>1. pc[g] = "key" /\ pc'[g] = "request" /\ arg' = arg
      BY <1>6, <2>4, GotoIs DEF RequestKey
    <3>2. LoginAt(g)' BY <1>1, <1>2, <2>1, <3>1 DEF LoginAt
    <3>3. g = "ui" \/ (PasswordIs(arg["loader"].user, arg["loader"].password) \/ mixed)'
      BY <2>1, <3>1 DEF LoginInv, PasswordIs, Goroutines
    <3> QED BY <1>1, <2>2, <2>3, <2>4, <3>2, <3>3, LoginAdvances
  <2>5. CASE Goto(g, "idle")
    <3>1. pc'[g] = "idle" BY <2>5, GotoIs
    <3>2. LoginAt(g)' BY <3>1 DEF LoginAt, LoginSteps
    <3> QED BY <1>1, <2>2, <2>3, <2>5, <3>2, LoginAdvances
  <2> QED BY <1>6, <2>4, <2>5 DEF RequestKey, Fail
<1>7. CASE Authorize(g)
  <2>1. /\ pc[g] = "authorize" /\ pc'[g] = "username" /\ Goto(g, "username") /\ authID' = arg[g].user
        /\ UNCHANGED <<arg, idHash, db, mixed, account, current>>
    BY <1>7, GotoIs DEF Authorize, program, shown
  <2>2. LoginAt(g)' BY <1>1, <1>2, <2>1 DEF LoginAt, PasswordIs
  <2>3. ChatsAreTheAccounts' BY <1>3, <2>1 DEF ChatsAreTheAccounts
  <2>4. (db.username # None /\ db.password # None => PasswordIs(db.username, db.password) \/ mixed)'
    BY <1>2, <2>1 DEF PasswordIs
  <2> QED BY <1>1, <2>1, <2>2, <2>3, <2>4, LoginAdvances
<1>8. CASE SaveUsername(g)
  <2>1. pc[g] = "username" /\ UNCHANGED <<idHash, authID, account>> BY <1>8 DEF SaveUsername, client
  <2>2. CASE Fail(g) /\ UNCHANGED <<db, mixed>> BY <1>1, <2>1, <2>2, FailLogin
  <2>3. CASE /\ db' = [db EXCEPT !.username = arg[g].user]
             /\ mixed' = TRUE /\ Goto(g, "password") /\ UNCHANGED <<shown, form, arg>>
    <3>1. pc'[g] = "password" /\ current' = current BY <2>3, GotoIs DEF shown
    <3>2. db'.username = arg[g].user BY <2>3 DEF Typed
    <3>3. LoginAt(g)' BY <1>1, <1>2, <2>1, <2>3, <3>1, <3>2 DEF LoginAt, PasswordIs
    <3>4. ChatsAreTheAccounts' BY <1>3, <3>1 DEF ChatsAreTheAccounts
    <3> QED BY <1>1, <2>3, <3>1, <3>3, <3>4, LoginAdvances
  <2> QED BY <1>8, <2>2, <2>3 DEF SaveUsername
<1>9. CASE SavePassword(g)
  <2>1. pc[g] = "password" /\ UNCHANGED <<idHash, authID, account>> BY <1>9 DEF SavePassword, client
  <2>2. CASE Fail(g) /\ UNCHANGED <<db, mixed>> BY <1>1, <2>1, <2>2, FailLogin
  <2>3. CASE /\ db' = [db EXCEPT !.password = arg[g].password]
             /\ mixed' = FALSE /\ Goto(g, "open") /\ UNCHANGED <<shown, form, arg>>
    <3>1. pc'[g] = "open" /\ current' = current BY <2>3, GotoIs DEF shown
    <3>2. db'.password = arg[g].password /\ db'.username = db.username BY <2>3 DEF Typed
    <3>3. LoginAt(g)' BY <1>1, <1>2, <2>1, <2>3, <3>1, <3>2 DEF LoginAt, PasswordIs
    <3>4. ChatsAreTheAccounts' BY <1>3, <3>1 DEF ChatsAreTheAccounts
    <3>5. PasswordIs(db.username, db.password)' BY <1>2, <2>1, <3>2 DEF LoginAt, PasswordIs
    <3> QED BY <1>1, <2>3, <3>1, <3>3, <3>4, <3>5, LoginAdvances
  <2> QED BY <1>9, <2>2, <2>3 DEF SavePassword
<1>10. CASE OpenChats(g)
  <2>1. /\ pc[g] = "open" /\ pc'[g] = "idle" /\ Goto(g, "idle")
        /\ UNCHANGED <<idHash, authID, db, mixed, account>>
    BY <1>10, GotoIs DEF OpenChats, client
  <2>2. LoginAt(g)' BY <2>1 DEF LoginAt, LoginSteps
  <2>3. authID = arg[g].user /\ idHash = authID /\ db.username = authID /\ db.password = arg[g].password
    BY <1>1, <1>2, <2>1 DEF LoginAt
  <2>4. ~mixed BY <1>2, <2>1 DEF LoginAt
  <2>5. PasswordIs(authID, db.password) BY <1>2, <2>1, <2>3 DEF LoginAt
  <2>6. authID # None BY <1>4, <2>3, NoneIsNoPage
  <2>7. ChatsAreTheAccounts' BY <2>1, <2>3, <2>4, <2>5, <2>6 DEF ChatsAreTheAccounts, PasswordIs
  <2>8. (db.username # None /\ db.password # None => PasswordIs(db.username, db.password) \/ mixed)'
    BY <1>2, <2>1 DEF PasswordIs
  <2> QED BY <1>1, <2>1, <2>2, <2>7, <2>8, LoginAdvances
<1> QED BY <1>5, <1>6, <1>7, <1>8, <1>9, <1>10 DEF LoginStep

LEMMA PageLogin ==
  ASSUME Typed, ControlInv, LoginInv, Type \/ SwitchState \/ SignIn \/ Signup
  PROVE  LoginInv'
<1>1. MayUse BY DEF Type, SwitchState, SignIn, Signup, Click
<1>2. pc["ui"] = "idle" /\ pc["loader"] = "idle" /\ current = "login"
  BY <1>1 DEF MayUse, ControlInv
<1>3. /\ UNCHANGED <<authID, db, mixed, account>>
      /\ pc'["loader"] = "idle" /\ current' = "login"
  BY <1>2 DEF Type, SwitchState, SignIn, Signup, Begin, Fail, Goto, program, shown, client, Typed, Goroutines
<1>4. pc'["ui"] \in {"idle", "key"} /\ (pc'["ui"] = "key" => idHash' = arg'["ui"].user)
  <2>1. CASE Type \/ SwitchState BY <1>2, <2>1 DEF Type, SwitchState
  <2>2. CASE SignIn \/ Signup
    <3>1. ASSUME NEW l, Begin("ui", l) PROVE pc'["ui"] = "key" /\ idHash' = arg'["ui"].user
      BY <3>1 DEF Begin, Goto, Typed, ArgTyped, Goroutines
    <3>2. ASSUME Goto("ui", "idle") PROVE pc'["ui"] = "idle"
      BY <3>2 DEF Goto, Typed, Goroutines
    <3> QED BY <2>2, <3>1, <3>2 DEF SignIn, Signup, Fail
  <2> QED BY <2>1, <2>2
<1>5. \A g \in Goroutines : LoginAt(g)'
  BY <1>3, <1>4 DEF LoginAt, Goroutines, LoginSteps
<1>6. ChatsAreTheAccounts' BY <1>3 DEF ChatsAreTheAccounts
<1>7. (db.username # None /\ db.password # None => PasswordIs(db.username, db.password) \/ mixed)'
  BY <1>3 DEF LoginInv, PasswordIs
<1> QED BY <1>3, <1>5, <1>6, <1>7 DEF LoginInv

LEMMA RunLogin ==
  ASSUME Typed, ControlInv, LoginInv, Start \/ Stop \/ Register
  PROVE  LoginInv'
<1>1. CASE Start \/ Register
  <2>1. /\ UNCHANGED <<idHash, authID, db, mixed, account, arg>>
        /\ \A g \in Goroutines : pc'[g] \in LoginSteps => pc'[g] = pc[g]
    BY <1>1 DEF Start, Register, client, Goroutines, LoginSteps, Typed
  <2>2. current' = "chats" => current = "chats"
    <3>1. CASE Start BY <3>1 DEF Start, shown
    <3>2. CASE Register
      <4>1. CASE current = None
        <5>1. pages = <<>> BY <4>1 DEF ControlInv
        <5>2. current' = "loading" BY <3>2, <4>1, <5>1 DEF Register, Tags
        <5> QED BY <5>2
      <4>2. CASE current # None BY <3>2, <4>2 DEF Register
      <4> QED BY <4>1, <4>2
    <3> QED BY <1>1, <3>1, <3>2
  <2> QED BY <2>1, <2>2, LoginKept
<1>2. CASE Stop
  <2>1. /\ \A g \in Goroutines : pc'[g] = "idle"
        /\ current' = None /\ UNCHANGED <<db, mixed, account>>
    BY <1>2 DEF Stop
  <2>2. \A g \in Goroutines : LoginAt(g)' BY <2>1 DEF LoginAt, LoginSteps
  <2>3. ChatsAreTheAccounts' BY <2>1, NoneIsNoPage DEF ChatsAreTheAccounts
  <2>4. (db.username # None /\ db.password # None => PasswordIs(db.username, db.password) \/ mixed)'
    BY <2>1 DEF LoginInv, PasswordIs
  <2> QED BY <2>1, <2>2, <2>3, <2>4 DEF LoginInv, Goroutines
<1> QED BY <1>1, <1>2

LEMMA LoaderLogin ==
  ASSUME Typed, ControlInv, LoginInv, Connect \/ LoadKeyPair \/ SavePublic \/ SavePrivate \/ ReadSettings
  PROVE  LoginInv'
<1>1. CASE Connect \/ LoadKeyPair \/ SavePublic \/ SavePrivate
  <2>1. PICK step \in LoaderSteps : Goto("loader", step)
    BY <1>1 DEF Connect, LoadKeyPair, SavePublic, SavePrivate, LoaderSteps
  <2>2. \A g \in Goroutines : pc'[g] \in LoginSteps => pc'[g] = pc[g]
    BY <2>1, GotoIs DEF Goroutines, LoaderSteps, LoginSteps
  <2>3. /\ UNCHANGED <<idHash, authID, mixed, account, arg, current>>
        /\ db'.username = db.username /\ db'.password = db.password
    BY <1>1 DEF Connect, LoadKeyPair, SavePublic, SavePrivate, program, shown, client, Typed
  <2> QED BY <2>2, <2>3, LoginKept
<1>2. CASE ReadSettings
  <2> DEFINE login == [user |-> db.username, password |-> db.password, new |-> FALSE]
  <2>1. /\ pc["loader"] = "settings" /\ current \notin {"login", "chats"}
        /\ UNCHANGED <<authID, db, mixed, account>>
    BY <1>2 DEF ReadSettings, ControlInv
  <2>2. CASE /\ db.username # None /\ db.password # None
             /\ Begin("loader", login) /\ UNCHANGED shown
    <3>1. /\ pc'["loader"] = "key" /\ pc'["ui"] = pc["ui"] /\ idHash' = db.username
          /\ arg'["loader"] = login
      BY <2>2 DEF Begin, Goto, Typed, ArgTyped, Goroutines
    <3>2. pc["ui"] \notin LoginSteps BY <2>1 DEF ControlInv
    <3>3. \A g \in Goroutines : LoginAt(g)'
      BY <3>1, <3>2 DEF LoginAt, Goroutines, LoginSteps
    <3>4. PasswordIs(db.username, db.password) \/ mixed BY <2>2 DEF LoginInv
    <3>5. (db.username # None /\ db.password # None => PasswordIs(db.username, db.password) \/ mixed)'
      BY <2>1, <3>4 DEF PasswordIs
    <3>6. (PasswordIs(arg["loader"].user, arg["loader"].password) \/ mixed)'
      BY <2>1, <3>1, <3>4 DEF PasswordIs
    <3>7. ChatsAreTheAccounts' BY <2>1, <2>2 DEF shown, ChatsAreTheAccounts
    <3> QED BY <3>3, <3>5, <3>6, <3>7 DEF LoginInv
  <2>3. CASE Goto("loader", "idle") /\ SetCurrent("login") /\ UNCHANGED <<arg, idHash>>
    <3>1. \A g \in Goroutines : pc'[g] \in LoginSteps => pc'[g] = pc[g]
      BY <2>3, GotoIs DEF Goroutines, LoginSteps
    <3>2. current' # "chats" BY <2>1, <2>3 DEF SetCurrent
    <3> QED BY <2>1, <2>3, <3>1, <3>2, LoginKept
  <2> QED BY <1>2, <2>2, <2>3 DEF ReadSettings
<1> QED BY <1>1, <1>2

LEMMA NextLogin == Typed /\ Typed' /\ ControlInv /\ LoginInv /\ [Next]_vars => LoginInv'
<1> SUFFICES ASSUME Typed, Typed', ControlInv, LoginInv, [Next]_vars PROVE LoginInv' OBVIOUS
<1>1. CASE Start \/ Stop \/ Register BY <1>1, RunLogin
<1>2. CASE Connect \/ LoadKeyPair \/ SavePublic \/ SavePrivate \/ ReadSettings BY <1>2, LoaderLogin
<1>3. CASE \E g \in Goroutines : LoginStep(g) BY <1>3, LoginStepLogin
<1>4. CASE User BY <1>4, PageLogin DEF User
<1>5. CASE UNCHANGED vars
  BY <1>5, LoginKept DEF vars, program, shown, client
<1> QED BY <1>1, <1>2, <1>3, <1>4, <1>5 DEF Next, Loader, UI, Goroutines

(* At each of its steps, a login has got done what the next ones go by.    *)
THEOREM LoginsAdvance == Spec => []LoginInv
BY InitLogin, NextLogin, TypesHold, PagesWait, PTL DEF Spec

(* The chats shown are those of the account the requests are authenticated *)
(* as, and the next start logs in as that account.                         *)
THEOREM ChatsBelongToTheLogin == Spec => []ChatsAreTheAccounts
BY LoginsAdvance, PTL DEF LoginInv

(* Only a SetLoginData left between its two rows leaves settings that the  *)
(* server refuses.                                                         *)
THEOREM SettingsStayGood == Spec => []StoredLoginIsGood
<1>1. LoginInv => StoredLoginIsGood BY DEF LoginInv, StoredLoginIsGood
<1> QED BY <1>1, LoginsAdvance, PTL

=============================================================================
