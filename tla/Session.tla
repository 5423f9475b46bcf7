------------------------------ MODULE Session ------------------------------
(***************************************************************************)
(* Signing in.  A tab of the browser keeps a session in memory, which      *)
(* decides what the page offers, and all tabs share one stored session,    *)
(* whose token every request carries.  The two are set together and part   *)
(* ways when another tab signs in, or when an answer 401 clears the stored *)
(* one only.  A token says which role its account had when it was issued;  *)
(* nobody asks the account again until the token expires.                  *)
(*                                                                         *)
(* Each tab has at most one login under way, since the page is replaced by *)
(* a notice meanwhile, and here one other request.  Passwords are left     *)
(* out: the page always sends the right one.  A look-up and the signing of *)
(* its token take less than a unit of the clock and are one step.          *)
(***************************************************************************)
EXTENDS Integers

CONSTANTS
  Tabs,         \* tabs of one browser
  Users,        \* user names, which the page derives from roles
  Roles,        \* roles an account can have
  Admin,        \* the user a page signs in as by itself
  Null,         \* no session, no token, no call
  TTL,          \* how long a token is valid
  MaxTime,      \* bound of the model: the clock
  MaxChanges,   \* bound of the model: changes of accounts
  MaxSwitches,  \* bound of the model: role switches by the user
  MaxMishaps    \* bound of the model: failed calls and reloads

ASSUME AdminAssumption == Admin \in Users
ASSUME UsersAssumption == Users \subseteq Roles
ASSUME TimeAssumption == TTL \in Nat \ {0} /\ MaxTime \in Nat
ASSUME BoundsAssumption == MaxChanges \in Nat /\ MaxSwitches \in Nat /\ MaxMishaps \in Nat

VARIABLES
  accounts,  \* the table of users
  lastHeld,  \* history: when an account was last active with a role, or -1
  now,
  stored,    \* localStorage: the session all tabs share
  session,   \* per tab: the session in memory
  loading,   \* per tab: the notice is shown in place of the page
  due,       \* per tab: initialize() has yet to run for what was mounted
  login,     \* per tab: the login under way
  api,       \* per tab: a request under way
  used       \* how much of each bound is used up

backend == <<accounts, lastHeld, now>>
memory == <<session, loading, due>>
calls == <<login, api>>
vars == <<backend, stored, memory, calls, used>>

-----------------------------------------------------------------------------
\* `by` is history: the tab that asked for the token.
Token == [user : Users, role : Roles, issued : Nat, by : Tabs]

Login == [user : Users, answer : {"none", "ok", "refused", "failed"}, token : Token \cup {Null}]

Api == [token : Token \cup {Null}, answer : {"none", "ok", "unauthorized", "failed"}]

ASSUME NullAssumption == Null \notin Token \cup Login \cup Api

\* Mutant: a token is good for ever.
UnexpiringToken(token) == token # Null

Valid(token) == token # Null /\ now < token.issued + TTL

Spend(what) == used' = [used EXCEPT ![what] = @ + 1]

Init ==
  /\ accounts = [u \in Users |-> [active |-> TRUE, role |-> u]]
  /\ lastHeld = [u \in Users |-> [r \in Roles |-> IF r = u THEN 0 ELSE -1]]
  /\ now = 0
  /\ stored = Null
  /\ session = [t \in Tabs |-> Null]
  /\ loading = [t \in Tabs |-> TRUE]
  /\ due = [t \in Tabs |-> TRUE]
  /\ login = [t \in Tabs |-> Null]
  /\ api = [t \in Tabs |-> Null]
  /\ used = [changes |-> 0, switches |-> 0, mishaps |-> 0]

-----------------------------------------------------------------------------
(* The page.                                                               *)

\* The module is loaded anew: memory and calls of the tab are gone.
Load(t) ==
  /\ used.mishaps < MaxMishaps
  /\ Spend("mishaps")
  /\ session' = [session EXCEPT ![t] = stored]
  /\ loading' = [loading EXCEPT ![t] = (stored = Null)]
  /\ due' = [due EXCEPT ![t] = TRUE]
  /\ login' = [login EXCEPT ![t] = Null]
  /\ api' = [api EXCEPT ![t] = Null]
  /\ UNCHANGED <<backend, stored>>

\* set({ loading: true }) and login(user).
SignIn(t, user) ==
  /\ loading' = [loading EXCEPT ![t] = TRUE]
  /\ login' = [login EXCEPT ![t] = [user |-> user, answer |-> "none", token |-> Null]]

\* The effect of whatever calls useAuth() and was just mounted.  `initialized`
\* is set together with the session and never without it.
Initialize(t) ==
  /\ due[t]
  /\ due' = [due EXCEPT ![t] = FALSE]
  /\ \/ /\ session[t] # Null
        /\ UNCHANGED <<session, loading, login>>
     \/ /\ session[t] = Null /\ stored # Null
        /\ session' = [session EXCEPT ![t] = stored]
        /\ UNCHANGED <<loading, login>>
     \/ /\ session[t] = Null /\ stored = Null
        /\ SignIn(t, Admin)
        /\ UNCHANGED session
  /\ UNCHANGED <<backend, stored, api, used>>

\* The user picks another role than the one shown.
SwitchRole(t, user) ==
  /\ ~loading[t] /\ ~due[t]
  /\ user # (IF session[t] = Null THEN Admin ELSE session[t].role)
  /\ used.switches < MaxSwitches
  /\ Spend("switches")
  /\ SignIn(t, user)
  /\ UNCHANGED <<backend, stored, session, due, api>>

\* Mutant: the loading flag is taken back after a success only.
ShowPageOnSuccess(t) ==
  /\ login' = [login EXCEPT ![t] = Null]
  /\ loading' = [loading EXCEPT ![t] = login[t].answer # "ok"]
  /\ due' = [due EXCEPT ![t] = login[t].answer = "ok"]

\* Mutant: only what the application mounts at first initializes.
ShowPageOnce(t) ==
  /\ login' = [login EXCEPT ![t] = Null]
  /\ loading' = [loading EXCEPT ![t] = FALSE]
  /\ UNCHANGED due

\* finally: the notice makes way for the page, whose effects run again.
ShowPage(t) ==
  /\ login' = [login EXCEPT ![t] = Null]
  /\ loading' = [loading EXCEPT ![t] = FALSE]
  /\ due' = [due EXCEPT ![t] = TRUE]

\* Mutant: a session in memory is kept although a new one is stored.
SignedInStoredOnly(t) ==
  /\ login[t] # Null /\ login[t].answer = "ok"
  /\ stored' = login[t].token
  /\ session' = IF session[t] = Null THEN [session EXCEPT ![t] = login[t].token] ELSE session
  /\ ShowPage(t)
  /\ UNCHANGED <<backend, api, used>>

\* Mutant: what is stored is the whole answer and not its data.
SignedInStoringAnswer(t) ==
  /\ login[t] # Null /\ login[t].answer = "ok"
  /\ stored' = login[t]
  /\ session' = [session EXCEPT ![t] = login[t].token]
  /\ ShowPage(t)
  /\ UNCHANGED <<backend, api, used>>

SignedIn(t) ==
  /\ login[t] # Null /\ login[t].answer = "ok"
  /\ stored' = login[t].token
  /\ session' = [session EXCEPT ![t] = login[t].token]
  /\ ShowPage(t)
  /\ UNCHANGED <<backend, api, used>>

\* A refused login is a 401 as any other, and clears what is stored.
NotSignedIn(t) ==
  /\ login[t] # Null /\ login[t].answer \in {"refused", "failed"}
  /\ stored' = IF login[t].answer = "refused" THEN Null ELSE stored
  /\ ShowPage(t)
  /\ UNCHANGED <<backend, session, api, used>>

\* A page that is shown sends requests, with the token that is stored then.
Send(t) ==
  /\ ~loading[t]
  /\ api[t] = Null
  /\ api' = [api EXCEPT ![t] = [token |-> stored, answer |-> "none"]]
  /\ UNCHANGED <<backend, stored, memory, login, used>>

\* Mutant: every error clears the stored session.
ClearsOnError(answer) == answer # "ok"

Clears(answer) == answer = "unauthorized"

\* The answer of a request, however old its token.
ApiArrives(t) ==
  /\ api[t] # Null /\ api[t].answer # "none"
  /\ api' = [api EXCEPT ![t] = Null]
  /\ stored' = IF Clears(api[t].answer) THEN Null ELSE stored
  /\ UNCHANGED <<backend, memory, login, used>>

-----------------------------------------------------------------------------
(* The backend.                                                            *)

Found(user) == accounts[user].active

AnswerLogin(t) ==
  /\ login[t] # Null /\ login[t].answer = "none"
  /\ LET user == login[t].user
         token == [user |-> user, role |-> accounts[user].role, issued |-> now, by |-> t]
     IN  login' = [login EXCEPT ![t] =
           [user |-> user,
            answer |-> IF Found(user) THEN "ok" ELSE "refused",
            token |-> IF Found(user) THEN token ELSE Null]]
  /\ UNCHANGED <<backend, stored, memory, api, used>>

\* Authenticate(); "ok" is whatever the route says after it, 403 included.
Answer(t) ==
  /\ api[t] # Null /\ api[t].answer = "none"
  /\ api' = [api EXCEPT ![t].answer = IF Valid(api[t].token) THEN "ok" ELSE "unauthorized"]
  /\ UNCHANGED <<backend, stored, memory, login, used>>

\* A connection breaks, the database is gone, or the limiter refuses.  The login
\* handler takes every error of the service for a refusal.
CallFails(t) ==
  /\ used.mishaps < MaxMishaps
  /\ Spend("mishaps")
  /\ \/ /\ login[t] # Null /\ login[t].answer = "none"
        /\ \E a \in {"failed", "refused"} : login' = [login EXCEPT ![t].answer = a]
        /\ UNCHANGED api
     \/ /\ api[t] # Null /\ api[t].answer = "none"
        /\ api' = [api EXCEPT ![t].answer = "failed"]
        /\ UNCHANGED login
  /\ UNCHANGED <<backend, stored, memory>>

\* No route does this: accounts are changed in the database.
ChangeAccount(u) ==
  /\ used.changes < MaxChanges
  /\ Spend("changes")
  /\ \E account \in [active : BOOLEAN, role : Roles] :
       /\ accounts' = [accounts EXCEPT ![u] = account]
       /\ lastHeld' = IF account.active
                        THEN [lastHeld EXCEPT ![u][account.role] = now] ELSE lastHeld
  /\ UNCHANGED <<now, stored, memory, calls>>

Tick ==
  /\ now < MaxTime
  /\ now' = now + 1
  /\ lastHeld' = [u \in Users |-> [r \in Roles |->
       IF accounts[u].active /\ accounts[u].role = r THEN now + 1 ELSE lastHeld[u][r]]]
  /\ UNCHANGED <<accounts, stored, memory, calls, used>>

-----------------------------------------------------------------------------
Arrives(t) == SignedIn(t) \/ NotSignedIn(t) \/ ApiArrives(t)

Next ==
  \/ \E t \in Tabs :
       \/ Load(t) \/ Initialize(t) \/ Send(t) \/ Arrives(t)
       \/ \E u \in Users : SwitchRole(t, u)
       \/ AnswerLogin(t) \/ Answer(t) \/ CallFails(t)
  \/ \E u \in Users : ChangeAccount(u)
  \/ Tick

Spec == Init /\ [][Next]_vars

\* Effects of mounted components run, and every login is answered: the server
\* and the proxy have time limits, and failed calls are among the mishaps.
FairSpec ==
  /\ Spec
  /\ \A t \in Tabs :
       WF_vars(Initialize(t) \/ AnswerLogin(t) \/ SignedIn(t) \/ NotSignedIn(t))

-----------------------------------------------------------------------------
\* All variables hold values of their types.
TypeOK ==
  /\ accounts \in [Users -> [active : BOOLEAN, role : Roles]]
  /\ lastHeld \in [Users -> [Roles -> -1 .. MaxTime]]
  /\ now \in 0 .. MaxTime
  /\ stored \in Token \cup {Null}
  /\ session \in [Tabs -> Token \cup {Null}]
  /\ loading \in [Tabs -> BOOLEAN] /\ due \in [Tabs -> BOOLEAN]
  /\ login \in [Tabs -> Login \cup {Null}]
  /\ api \in [Tabs -> Api \cup {Null}]
  /\ used \in [changes : 0 .. MaxChanges, switches : 0 .. MaxSwitches, mishaps : 0 .. MaxMishaps]

\* A request is served with a role only if its account was active with that
\* role less than a token's life ago: the role inside the token goes stale when
\* the account is changed, but no longer than that.
OnlyWhileGranted ==
  [][\A t \in Tabs :
       /\ api[t] # Null /\ api[t].answer = "none"
       /\ api'[t] # Null /\ api'[t].answer = "ok"
       => /\ api[t].token # Null
          /\ now < lastHeld[api[t].token.user][api[t].token.role] + TTL]_vars

\* What the page offers is for the role its requests are sent with, unless
\* another tab signed in since: after its own logins, refused or lost ones and
\* reloads included, a tab never shows one session and sends another.
ShowsWhatItSends ==
  \A t \in Tabs :
    stored # Null /\ session[t] # Null /\ stored.by = t => session[t] = stored

\* A stored token that still works is thrown away only by the answer to a
\* request that was sent with another token or none, or by a login that was
\* refused: no other error signs the user out.
GoodTokenStays ==
  [][ Valid(stored) /\ stored' = Null =>
        \E t \in Tabs :
          \/ login[t] # Null /\ login[t].answer = "refused" /\ login'[t] = Null
          \/ api[t] # Null /\ api[t].token # stored /\ api'[t] = Null ]_vars

\* The notice stays without a login under way in one case only: the tab was
\* loaded without a session and found one that another tab stored meanwhile,
\* where initialize returns without taking the loading flag back.
StuckOnlyByOtherTab ==
  \A t \in Tabs :
    loading[t] /\ login[t] = Null /\ ~due[t] =>
      session[t] # Null /\ session[t].by # t

\* A page without a session gets one, through failed logins and the renewed
\* attempts of the remounted page, as long as the account it signs in with is
\* active.
SignsIn ==
  \A t \in Tabs :
    session[t] = Null ~> (session[t] # Null \/ ~accounts[Admin].active)
=============================================================================
