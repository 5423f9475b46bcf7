--------------------------- MODULE SessionProofs ---------------------------
(***************************************************************************)
(* Proofs about Session, for any tabs, users, roles and length of a token. *)
(***************************************************************************)
EXTENDS Session, TLAPS

\* What is remembered of the accounts is up to date for active ones.
HeldUntilNow ==
  \A u \in Users :
    /\ \A r \in Roles : lastHeld[u][r] <= now
    /\ accounts[u].active => lastHeld[u][accounts[u].role] = now

\* A token is no younger than the last moment its account held its role.
Granted(token) == token # Null => token.issued <= lastHeld[token.user][token.role]

TokensGranted ==
  /\ Granted(stored)
  /\ \A t \in Tabs :
       /\ Granted(session[t])
       /\ login[t] # Null => Granted(login[t].token)
       /\ api[t] # Null => Granted(api[t].token)

\* A login that succeeded has a token, which names its tab.
OwnLogins ==
  \A t \in Tabs :
    login[t] # Null /\ login[t].answer = "ok" =>
      login[t].token # Null /\ login[t].token.by = t

\* A tab that was loaded without a session, and whose effect has yet to run,
\* has none, and what is stored by now is not its own.
FreshPages ==
  \A t \in Tabs :
    loading[t] /\ login[t] = Null /\ due[t] =>
      session[t] = Null /\ (stored # Null => stored.by # t)

\* What was refused with 401 stays refused.
RefusalsLast ==
  \A t \in Tabs :
    api[t] # Null /\ api[t].answer = "unauthorized" => ~Valid(api[t].token)

IInv ==
  /\ TypeOK /\ HeldUntilNow /\ TokensGranted /\ OwnLogins
  /\ ShowsWhatItSends /\ FreshPages /\ StuckOnlyByOtherTab /\ RefusalsLast

-----------------------------------------------------------------------------
(* Types.                                                                  *)

LEMMA NullsApart == Null \notin Token /\ Null \notin Login /\ Null \notin Api
BY NullAssumption

LEMMA InitType == Init => TypeOK
BY AdminAssumption, UsersAssumption, TimeAssumption, BoundsAssumption DEF Init, TypeOK

LEMMA StepType ==
  ASSUME TypeOK, [Next]_vars
  PROVE  TypeOK'
<1> USE TimeAssumption, BoundsAssumption, NullsApart
<1> USE DEF TypeOK, backend, memory, calls, Spend
<1>1. ASSUME NEW t \in Tabs, Load(t) PROVE TypeOK'
  BY <1>1 DEF Load
<1>2. ASSUME NEW t \in Tabs, Initialize(t) PROVE TypeOK'
  <2>1. loading' \in [Tabs -> BOOLEAN] /\ due' \in [Tabs -> BOOLEAN]
    BY <1>2 DEF Initialize, SignIn
  <2>2. session' \in [Tabs -> Token \cup {Null}]
    BY <1>2 DEF Initialize
  <2>3. login' \in [Tabs -> Login \cup {Null}]
    BY <1>2, AdminAssumption DEF Initialize, SignIn, Login
  <2> QED  BY <1>2, <2>1, <2>2, <2>3 DEF Initialize
<1>3. ASSUME NEW t \in Tabs, Send(t) PROVE TypeOK'
  BY <1>3 DEF Send, Api
<1>4. ASSUME NEW t \in Tabs, SignedIn(t) PROVE TypeOK'
  BY <1>4 DEF SignedIn, ShowPage, Login
<1>5. ASSUME NEW t \in Tabs, NotSignedIn(t) PROVE TypeOK'
  BY <1>5 DEF NotSignedIn, ShowPage
<1>6. ASSUME NEW t \in Tabs, ApiArrives(t) PROVE TypeOK'
  BY <1>6 DEF ApiArrives
<1>7. ASSUME NEW t \in Tabs, NEW u \in Users, SwitchRole(t, u) PROVE TypeOK'
  BY <1>7 DEF SwitchRole, SignIn, Login
<1>8. ASSUME NEW t \in Tabs, AnswerLogin(t) PROVE TypeOK'
  <2> DEFINE user == login[t].user
             token == [user |-> user, role |-> accounts[user].role, issued |-> now, by |-> t]
             found == [user |-> user,
                       answer |-> IF Found(user) THEN "ok" ELSE "refused",
                       token |-> IF Found(user) THEN token ELSE Null]
  <2>1. user \in Users
    BY <1>8 DEF AnswerLogin, Login
  <2>2. token \in Token
    BY <2>1 DEF Token
  <2>3. found \in Login
    BY <2>1, <2>2 DEF Login
  <2>4. login' = [login EXCEPT ![t] = found]
    BY <1>8 DEF AnswerLogin
  <2> QED  BY <1>8, <2>3, <2>4 DEF AnswerLogin
<1>9. ASSUME NEW t \in Tabs, Answer(t) PROVE TypeOK'
  BY <1>9 DEF Answer, Api
<1>10. ASSUME NEW t \in Tabs, CallFails(t) PROVE TypeOK'
  <2>1. CASE login[t] # Null /\ login' \in {[login EXCEPT ![t].answer = a] : a \in {"failed", "refused"}}
             /\ UNCHANGED api
    <3>1. login[t] \in Login
      BY <2>1
    <3>2. \A a \in {"failed", "refused"} : [login[t] EXCEPT !.answer = a] \in Login
      BY <3>1 DEF Login
    <3> QED  BY <1>10, <2>1, <3>2 DEF CallFails
  <2>2. CASE api[t] # Null /\ api' = [api EXCEPT ![t].answer = "failed"] /\ UNCHANGED login
    <3>1. [api[t] EXCEPT !.answer = "failed"] \in Api
      BY <2>2 DEF Api
    <3> QED  BY <1>10, <2>2, <3>1 DEF CallFails
  <2> QED  BY <1>10, <2>1, <2>2 DEF CallFails
<1>11. ASSUME NEW u \in Users, ChangeAccount(u) PROVE TypeOK'
  BY <1>11 DEF ChangeAccount
<1>12. CASE Tick
  BY <1>12 DEF Tick
<1>13. CASE UNCHANGED vars
  BY <1>13 DEF vars
<1> QED
  BY <1>1, <1>2, <1>3, <1>4, <1>5, <1>6, <1>7, <1>8, <1>9, <1>10, <1>11, <1>12, <1>13
  DEF Next, Arrives
-----------------------------------------------------------------------------
(* Accounts and time.                                                      *)

\* Time goes on, and an account was last active with a role no earlier.
Later ==
  /\ now <= now'
  /\ \A u \in Users, r \in Roles : lastHeld[u][r] <= lastHeld'[u][r]

\* Only two actions touch the accounts or the clock.
LEMMA BackendStays ==
  ASSUME NEW t \in Tabs,
         \/ Load(t) \/ Initialize(t) \/ Send(t) \/ Arrives(t)
         \/ (\E u \in Users : SwitchRole(t, u))
         \/ AnswerLogin(t) \/ Answer(t) \/ CallFails(t)
  PROVE  UNCHANGED backend
BY DEF Load, Initialize, Send, Arrives, SignedIn, NotSignedIn, ApiArrives, SwitchRole,
       AnswerLogin, Answer, CallFails, backend

LEMMA HeldStep ==
  ASSUME TypeOK, HeldUntilNow, [Next]_vars
  PROVE  HeldUntilNow' /\ Later
<1>0. /\ now \in Int
      /\ accounts \in [Users -> [active : BOOLEAN, role : Roles]]
      /\ lastHeld \in [Users -> [Roles -> Int]]
  BY TimeAssumption DEF TypeOK
<1>1. CASE UNCHANGED backend
  BY <1>0, <1>1 DEF backend, HeldUntilNow, Later
<1>2. ASSUME NEW u \in Users, ChangeAccount(u) PROVE HeldUntilNow' /\ Later
  BY <1>0, <1>2 DEF ChangeAccount, HeldUntilNow, Later
<1>3. CASE Tick
  BY <1>0, <1>3 DEF Tick, HeldUntilNow, Later
<1> QED  BY <1>1, <1>2, <1>3, BackendStays DEF Next, vars, backend

-----------------------------------------------------------------------------
(* Tokens.                                                                 *)

LEMMA TokensStep ==
  ASSUME TypeOK, HeldUntilNow, TokensGranted, [Next]_vars
  PROVE  TokensGranted'
<1> DEFINE G(token) == token # Null => token.issued <= lastHeld'[token.user][token.role]
<1>1. HeldUntilNow' /\ Later
  BY HeldStep
<1>2. /\ login \in [Tabs -> Login \cup {Null}] /\ api \in [Tabs -> Api \cup {Null}]
      /\ session \in [Tabs -> Token \cup {Null}] /\ now \in Int
      /\ \A t \in Tabs : api[t] # Null => api[t] \in Api
      /\ \A t \in Tabs : login[t] # Null => login[t] \in Login
  BY TimeAssumption DEF TypeOK
<1>3. ASSUME NEW token \in Token \cup {Null}, Granted(token) PROVE G(token)
  <2>1. CASE token = Null
    BY <2>1
  <2>2. CASE token \in Token
    <3>1. token.user \in Users /\ token.role \in Roles /\ token.issued \in Int
      BY <2>2 DEF Token
    <3>2. /\ lastHeld[token.user][token.role] \in Int
          /\ lastHeld'[token.user][token.role] \in Int
      BY <3>1, StepType, TimeAssumption DEF TypeOK
    <3> QED  BY <1>1, <1>3, <3>1, <3>2 DEF Granted, Later
  <2> QED  BY <2>1, <2>2
<1>4. /\ G(stored) /\ \A t \in Tabs : G(session[t])
      /\ \A t \in Tabs : login[t] # Null => G(login[t].token)
      /\ \A t \in Tabs : api[t] # Null => G(api[t].token)
  <2>1. /\ stored \in Token \cup {Null}
        /\ \A t \in Tabs : session[t] \in Token \cup {Null}
        /\ \A t \in Tabs : login[t] # Null => login[t].token \in Token \cup {Null}
        /\ \A t \in Tabs : api[t] # Null => api[t].token \in Token \cup {Null}
    BY <1>2 DEF TypeOK, Login, Api
  <2> QED  BY <1>3, <2>1 DEF TokensGranted
<1>5. G(Null)
  OBVIOUS
<1> SUFFICES /\ G(stored') /\ \A q \in Tabs : G(session'[q])
             /\ \A q \in Tabs : login'[q] # Null => G(login'[q].token)
             /\ \A q \in Tabs : api'[q] # Null => G(api'[q].token)
  BY DEF TokensGranted, Granted
<1> DEFINE Goal ==
  /\ G(stored') /\ \A q \in Tabs : G(session'[q])
  /\ \A q \in Tabs : login'[q] # Null => G(login'[q].token)
  /\ \A q \in Tabs : api'[q] # Null => G(api'[q].token)
<1>6. ASSUME NEW t \in Tabs, AnswerLogin(t) PROVE Goal
  <2> DEFINE user == login[t].user
             token == [user |-> user, role |-> accounts[user].role, issued |-> now, by |-> t]
  <2>1. user \in Users /\ accounts[user].role \in Roles
    BY <1>2, <1>6 DEF AnswerLogin, Login, TypeOK
  <2>2. Found(user) => G(token)
    BY <2>1, <1>2, <1>6 DEF AnswerLogin, Found, HeldUntilNow, backend
  <2>3. /\ \A q \in Tabs \ {t} : login'[q] = login[q]
        /\ login'[t].token = IF Found(user) THEN token ELSE Null
        /\ stored' = stored /\ session' = session /\ api' = api
    BY <1>2, <1>6 DEF AnswerLogin, memory
  <2> HIDE DEF G, token
  <2>4. G(login'[t].token)
    BY <2>2, <2>3, <1>5
  <2> QED  BY <1>4, <2>3, <2>4
<1> HIDE DEF G
<1>7. ASSUME NEW t \in Tabs, Load(t) PROVE Goal
  BY <1>2, <1>4, <1>7 DEF Load
<1>8. ASSUME NEW t \in Tabs, Initialize(t) PROVE Goal
  BY <1>2, <1>4, <1>5, <1>8 DEF Initialize, SignIn
<1>9. ASSUME NEW t \in Tabs, Send(t) PROVE Goal
  BY <1>2, <1>4, <1>9 DEF Send, memory
<1>10. ASSUME NEW t \in Tabs, SignedIn(t) PROVE Goal
  BY <1>2, <1>4, <1>10 DEF SignedIn, ShowPage
<1>11. ASSUME NEW t \in Tabs, NotSignedIn(t) PROVE Goal
  BY <1>2, <1>4, <1>5, <1>11 DEF NotSignedIn, ShowPage
<1>12. ASSUME NEW t \in Tabs, ApiArrives(t) PROVE Goal
  BY <1>2, <1>4, <1>5, <1>12 DEF ApiArrives, memory
<1>13. ASSUME NEW t \in Tabs, NEW u \in Users, SwitchRole(t, u) PROVE Goal
  BY <1>2, <1>4, <1>5, <1>13 DEF SwitchRole, SignIn
<1>14. ASSUME NEW t \in Tabs, Answer(t) PROVE Goal
  BY <1>2, <1>4, <1>14 DEF Answer, memory, Api
<1>15. ASSUME NEW t \in Tabs, CallFails(t) PROVE Goal
  <2>1. CASE api' = api /\ login[t] # Null /\ \E a \in {"failed", "refused"} : login' = [login EXCEPT ![t].answer = a]
    <3>1. \A q \in Tabs : (login[q] # Null /\ q = t) \/ login'[q] = login[q]
      BY <1>2, <2>1
    <3>2. login'[t].token = login[t].token
      BY <1>2, <2>1 DEF Login
    <3> QED  BY <1>4, <1>15, <2>1, <3>1, <3>2 DEF CallFails, memory
  <2>2. CASE login' = login /\ api[t] # Null /\ api' = [api EXCEPT ![t].answer = "failed"]
    BY <1>2, <1>4, <1>15, <2>2 DEF CallFails, memory, Api
  <2> QED  BY <1>15, <2>1, <2>2 DEF CallFails
<1>16. CASE UNCHANGED <<stored, memory, calls>>
  BY <1>4, <1>16 DEF memory, calls
<1> QED
  BY <1>6, <1>7, <1>8, <1>9, <1>10, <1>11, <1>12, <1>13, <1>14, <1>15, <1>16
  DEF Next, Arrives, ChangeAccount, Tick, vars
-----------------------------------------------------------------------------
(* The page: what it shows, what is stored, and its notice.                *)

PageInv == OwnLogins /\ ShowsWhatItSends /\ FreshPages /\ StuckOnlyByOtherTab

LEMMA PageStep ==
  ASSUME TypeOK, PageInv, [Next]_vars
  PROVE  PageInv'
<1> USE DEF PageInv, OwnLogins, ShowsWhatItSends, FreshPages, StuckOnlyByOtherTab
<1>1. /\ login \in [Tabs -> Login \cup {Null}]
      /\ session \in [Tabs -> Token \cup {Null}]
      /\ loading \in [Tabs -> BOOLEAN] /\ due \in [Tabs -> BOOLEAN]
      /\ \A t \in Tabs : login[t] # Null => login[t] \in Login
  BY DEF TypeOK
<1>2. ASSUME NEW t \in Tabs, Load(t) PROVE PageInv'
  BY <1>1, <1>2 DEF Load
<1>3. ASSUME NEW t \in Tabs, Initialize(t) PROVE PageInv'
  <2>1. UNCHANGED stored /\ due' = [due EXCEPT ![t] = FALSE] /\ due[t]
    BY <1>3 DEF Initialize
  <2>2. CASE session[t] # Null /\ UNCHANGED <<session, loading, login>>
    BY <1>1, <2>1, <2>2
  <2>3. CASE /\ session[t] = Null /\ stored # Null
             /\ session' = [session EXCEPT ![t] = stored] /\ UNCHANGED <<loading, login>>
    BY <1>1, <2>1, <2>3
  <2>4. CASE SignIn(t, Admin) /\ UNCHANGED session
    <3>1. login' = [login EXCEPT ![t] = [user |-> Admin, answer |-> "none", token |-> Null]]
          /\ loading' = [loading EXCEPT ![t] = TRUE]
      BY <2>4 DEF SignIn
    <3>2. login'[t] \in Login /\ login'[t].answer = "none" /\ login'[t] # Null
      BY <1>1, <3>1, AdminAssumption, NullsApart DEF Login
    <3> QED  BY <1>1, <2>1, <2>4, <3>1, <3>2
  <2> QED  BY <1>3, <2>2, <2>3, <2>4 DEF Initialize
<1>4. ASSUME NEW t \in Tabs, SignedIn(t) PROVE PageInv'
  BY <1>1, <1>4 DEF SignedIn, ShowPage
<1>5. ASSUME NEW t \in Tabs, NotSignedIn(t) PROVE PageInv'
  BY <1>1, <1>5 DEF NotSignedIn, ShowPage
<1>6. ASSUME NEW t \in Tabs, ApiArrives(t) PROVE PageInv'
  BY <1>1, <1>6 DEF ApiArrives, memory
<1>7. ASSUME NEW t \in Tabs, NEW u \in Users, SwitchRole(t, u) PROVE PageInv'
  <2>1. login' = [login EXCEPT ![t] = [user |-> u, answer |-> "none", token |-> Null]]
        /\ loading' = [loading EXCEPT ![t] = TRUE]
    BY <1>7 DEF SwitchRole, SignIn
  <2>2. login'[t] \in Login /\ login'[t].answer = "none" /\ login'[t] # Null
    BY <1>1, <2>1, NullsApart DEF Login
  <2> QED  BY <1>1, <1>7, <2>1, <2>2 DEF SwitchRole
<1>8. ASSUME NEW t \in Tabs, AnswerLogin(t) PROVE PageInv'
  <2> DEFINE user == login[t].user
             token == [user |-> user, role |-> accounts[user].role, issued |-> now, by |-> t]
  <2>1. user \in Users /\ accounts[user].role \in Roles /\ now \in Nat
    BY <1>1, <1>8, TimeAssumption DEF AnswerLogin, Login, TypeOK
  <2>2. token \in Token /\ token # Null
    BY <2>1, NullsApart DEF Token
  <2>3. /\ \A q \in Tabs \ {t} : login'[q] = login[q]
        /\ login'[t].token = IF Found(user) THEN token ELSE Null
        /\ login'[t].answer = IF Found(user) THEN "ok" ELSE "refused"
        /\ login[t] # Null
    BY <1>1, <1>8 DEF AnswerLogin
  <2>4. login'[t].answer = "ok" => login'[t].token # Null /\ login'[t].token.by = t
    BY <2>2, <2>3
  <2>5. \A q \in Tabs : login'[q] = Null => login[q] = Null
    <3>1. login'[t] # Null
      BY <1>8, StepType, <2>2, <2>1, NullsApart DEF AnswerLogin, Login, TypeOK
    <3> QED  BY <2>3, <3>1
  <2> QED  BY <1>1, <1>8, <2>3, <2>4, <2>5 DEF AnswerLogin, memory
<1>9. ASSUME NEW t \in Tabs, CallFails(t) PROVE PageInv'
  <2>1. CASE login' = login
    BY <1>9, <2>1 DEF CallFails, memory
  <2>2. CASE login[t] # Null /\ \E a \in {"failed", "refused"} : login' = [login EXCEPT ![t].answer = a]
    <3>1. PICK a \in {"failed", "refused"} : login' = [login EXCEPT ![t].answer = a]
      BY <2>2
    <3>2. login'[t] \in Login /\ login'[t].answer = a
      BY <1>1, <2>2, <3>1 DEF Login
    <3>3. login'[t] # Null /\ login'[t].answer # "ok"
      BY <3>2, NullsApart
    <3> QED  BY <1>1, <1>9, <2>2, <3>1, <3>3 DEF CallFails, memory
  <2> QED  BY <1>9, <2>1, <2>2 DEF CallFails
<1>10. CASE UNCHANGED <<stored, memory, login>>
  BY <1>10 DEF memory
<1>11. ASSUME NEW t \in Tabs, Answer(t) \/ Send(t) PROVE UNCHANGED <<stored, memory, login>>
  BY <1>11 DEF Answer, Send
<1> QED
  BY <1>2, <1>3, <1>4, <1>5, <1>6, <1>7, <1>8, <1>9, <1>10, <1>11
  DEF Next, Arrives, ChangeAccount, Tick, vars, calls

-----------------------------------------------------------------------------
(* Answers 401.                                                            *)

LEMMA RefusalsStep ==
  ASSUME TypeOK, RefusalsLast, Later, [Next]_vars
  PROVE  RefusalsLast'
<1> DEFINE Dead(token) == ~(token # Null /\ now' < token.issued + TTL)
<1> SUFFICES ASSUME NEW q \in Tabs, api'[q] # Null, api'[q].answer = "unauthorized"
             PROVE  Dead(api'[q].token)
  BY DEF RefusalsLast, Valid
<1>1. /\ api \in [Tabs -> Api \cup {Null}] /\ now \in Int /\ now' \in Int /\ TTL \in Int
      /\ \A t \in Tabs : api[t] # Null => api[t] \in Api
  BY StepType, TimeAssumption DEF TypeOK
<1>2. ASSUME NEW token \in Token \cup {Null}, ~Valid(token) PROVE Dead(token)
  <2>1. token # Null => token.issued \in Int
    BY DEF Token
  <2> QED  BY <1>1, <1>2, <2>1 DEF Valid, Later
<1>3. CASE api'[q] = api[q]
  <2>1. api[q].token \in Token \cup {Null} /\ ~Valid(api[q].token)
    BY <1>1, <1>3 DEF RefusalsLast, Api
  <2> QED  BY <1>2, <1>3, <2>1
<1>4. ASSUME NEW t \in Tabs, Answer(t) PROVE Dead(api'[q].token)
  <2>1. CASE q = t
    <3>1. api'[q].token = api[q].token /\ ~Valid(api[q].token)
      BY <1>1, <1>4, <2>1 DEF Answer, Api
    <3>2. api[q].token \in Token \cup {Null}
      BY <1>1, <1>4, <2>1 DEF Answer, Api
    <3> QED  BY <1>2, <3>1, <3>2
  <2>2. CASE q # t
    BY <1>1, <1>3, <1>4, <2>2 DEF Answer
  <2> QED  BY <2>1, <2>2
<1>5. ASSUME NEW t \in Tabs, Load(t) \/ ApiArrives(t) \/ Send(t) \/ CallFails(t)
      PROVE  api'[q] = api[q]
  BY <1>1, <1>5 DEF Load, ApiArrives, Send, CallFails, Api
<1>6. ASSUME NEW t \in Tabs,
             \/ Initialize(t) \/ SignedIn(t) \/ NotSignedIn(t)
             \/ (\E u \in Users : SwitchRole(t, u)) \/ AnswerLogin(t)
      PROVE  api'[q] = api[q]
  BY <1>6 DEF Initialize, SignedIn, NotSignedIn, SwitchRole, AnswerLogin
<1> QED
  BY <1>3, <1>4, <1>5, <1>6 DEF Next, Arrives, ChangeAccount, Tick, vars, calls

-----------------------------------------------------------------------------
(* The invariant, and what follows from it.                                *)

LEMMA Initially == Init => IInv
<1> SUFFICES ASSUME Init PROVE IInv
  OBVIOUS
<1>1. HeldUntilNow
  BY UsersAssumption DEF Init, HeldUntilNow
<1>2. TokensGranted /\ OwnLogins /\ ShowsWhatItSends /\ FreshPages /\ RefusalsLast
  BY DEF Init, TokensGranted, Granted, OwnLogins, ShowsWhatItSends, FreshPages, RefusalsLast
<1>3. StuckOnlyByOtherTab
  BY DEF Init, StuckOnlyByOtherTab
<1> QED  BY <1>1, <1>2, <1>3, InitType DEF IInv

LEMMA StepKeeps == IInv /\ [Next]_vars => IInv'
BY StepType, HeldStep, TokensStep, PageStep, RefusalsStep DEF IInv, PageInv

LEMMA Inductive == Spec => []IInv
BY Initially, StepKeeps, PTL DEF Spec

\* All variables hold values of their types.
THEOREM TypeCorrect == Spec => []TypeOK
<1>1. IInv => TypeOK
  BY DEF IInv
<1> QED  BY <1>1, Inductive, PTL

\* A tab shows the session its requests are sent with, unless another tab of
\* the browser stored one since.
THEOREM TabsShowWhatTheySend == Spec => []ShowsWhatItSends
<1>1. IInv => ShowsWhatItSends
  BY DEF IInv
<1> QED  BY <1>1, Inductive, PTL

\* The notice stays for good only over a session that another tab stored.
THEOREM NoticeMakesWay == Spec => []StuckOnlyByOtherTab
<1>1. IInv => StuckOnlyByOtherTab
  BY DEF IInv
<1> QED  BY <1>1, Inductive, PTL

\* A role is served for no longer than a token's life after the account last
\* had it, however often accounts change and tokens are renewed.
THEOREM RolesExpire == Spec => OnlyWhileGranted
<1> DEFINE Served(t) ==
      /\ api[t] # Null /\ api[t].answer = "none"
      /\ api'[t] # Null /\ api'[t].answer = "ok"
           Step == \A t \in Tabs :
             /\ api[t] # Null /\ api[t].answer = "none"
             /\ api'[t] # Null /\ api'[t].answer = "ok"
             => /\ api[t].token # Null
                /\ now < lastHeld[api[t].token.user][api[t].token.role] + TTL
           Fresh(token) == token # Null /\ now < lastHeld[token.user][token.role] + TTL
<1>1. ASSUME IInv, [Next]_vars, NEW t \in Tabs, Served(t)
      PROVE  Fresh(api[t].token)
  <2>1. /\ api \in [Tabs -> Api \cup {Null}] /\ api[t] \in Api
        /\ now \in Int /\ TTL \in Int
    BY <1>1, TimeAssumption DEF IInv, TypeOK
  <2>2. Valid(api[t].token)
    <3>1. ASSUME NEW q \in Tabs, Answer(q) PROVE Valid(api[t].token)
      BY <1>1, <2>1, <3>1 DEF Answer, Api
    <3>2. ASSUME NEW q \in Tabs, Load(q) \/ ApiArrives(q) \/ Send(q) \/ CallFails(q)
          PROVE  FALSE
      BY <1>1, <2>1, <3>2 DEF Load, ApiArrives, Send, CallFails, Api
    <3>3. ASSUME NEW q \in Tabs,
                 \/ Initialize(q) \/ SignedIn(q) \/ NotSignedIn(q)
                 \/ (\E u \in Users : SwitchRole(q, u)) \/ AnswerLogin(q)
          PROVE  FALSE
      BY <1>1, <3>3 DEF Initialize, SignedIn, NotSignedIn, SwitchRole, AnswerLogin
    <3> QED
      BY <1>1, <3>1, <3>2, <3>3 DEF Next, Arrives, ChangeAccount, Tick, vars, calls
  <2>3. Granted(api[t].token)
    BY <1>1 DEF IInv, TokensGranted
  <2>4. /\ api[t].token \in Token /\ api[t].token.issued \in Int
        /\ lastHeld[api[t].token.user][api[t].token.role] \in Int
    BY <1>1, <2>1, <2>2, TimeAssumption DEF Valid, Api, Token, IInv, TypeOK
  <2> QED  BY <2>1, <2>2, <2>3, <2>4 DEF Granted, Valid
<1>2. ASSUME IInv, [Next]_vars PROVE Step
  BY <1>1, <1>2
<1> QED  BY <1>2, Inductive, PTL DEF Spec, OnlyWhileGranted

\* Of all answers only a refused login, or 401 for another token, can clear a
\* token that still works.
THEOREM GoodTokensStay == Spec => GoodTokenStays
<1> DEFINE Cleared == Valid(stored) /\ stored' = Null
           Excused ==
             \E t \in Tabs :
               \/ login[t] # Null /\ login[t].answer = "refused" /\ login'[t] = Null
               \/ api[t] # Null /\ api[t].token # stored /\ api'[t] = Null
<1>1. ASSUME IInv, [Next]_vars, Cleared PROVE Excused
  <2>1. stored # Null /\ stored' # stored
    BY <1>1 DEF Valid
  <2>2. login \in [Tabs -> Login \cup {Null}] /\ api \in [Tabs -> Api \cup {Null}]
    BY <1>1 DEF IInv, TypeOK
  <2>3. ASSUME NEW t \in Tabs, SignedIn(t) PROVE FALSE
    BY <1>1, <2>3 DEF SignedIn, IInv, OwnLogins
  <2>4. ASSUME NEW t \in Tabs, NotSignedIn(t) PROVE Excused
    BY <2>1, <2>2, <2>4 DEF NotSignedIn, ShowPage
  <2>5. ASSUME NEW t \in Tabs, ApiArrives(t) PROVE Excused
    <3>1. api[t] # Null /\ api[t].answer = "unauthorized" /\ api'[t] = Null
      BY <2>1, <2>2, <2>5 DEF ApiArrives, Clears
    <3>2. api[t].token # stored
      BY <1>1, <3>1 DEF IInv, RefusalsLast
    <3> QED  BY <3>1, <3>2
  <2>6. ASSUME NEW t \in Tabs,
               \/ Load(t) \/ Initialize(t) \/ Send(t) \/ Answer(t) \/ AnswerLogin(t)
               \/ (\E u \in Users : SwitchRole(t, u)) \/ CallFails(t)
        PROVE  FALSE
    BY <2>1, <2>6 DEF Load, Initialize, Send, Answer, AnswerLogin, SwitchRole, CallFails
  <2> QED
    BY <1>1, <2>1, <2>3, <2>4, <2>5, <2>6 DEF Next, Arrives, ChangeAccount, Tick, vars
<1> QED  BY <1>1, Inductive, PTL DEF Spec, GoodTokenStays
=============================================================================
