------------------------- MODULE AccountSessionProofs -------------------------
(* Proofs about AccountSession: for any number of accounts, phones, request  *)
(* threads and admins, with lost answers and failing commits.                *)
EXTENDS AccountSession, TLAPS

PhoneKinds == {"login", "refresh", "password", "logout"}
AdminKinds == {"on", "off", "exit", "unbind", "reset"}
Stages == {"sent", "bind", "commit", "ok", "refused", "failed"}

-----------------------------------------------------------------------------
(* Jobs *)

LEMMA JobOfKind ==
  ASSUME TypeOK, NEW t \in Threads
  PROVE  /\ job[t] \in PhoneJob \cup AdminJob \cup {Idle}
         /\ job[t].kind \in PhoneKinds => job[t] \in PhoneJob /\ job[t] # Idle
         /\ job[t].kind \in AdminKinds => job[t] \in AdminJob /\ job[t] # Idle
         /\ job[t] # Idle => job[t].account \in Accounts
         /\ job[t] # Idle => job[t] \in PhoneJob \cup AdminJob
  BY DEF TypeOK, PhoneJob, AdminJob, Idle, PhoneKinds, AdminKinds

LEMMA PhoneJobFields ==
  ASSUME NEW j \in PhoneJob
  PROVE  /\ j.kind \in PhoneKinds /\ j.phone \in Phones /\ j.account \in Accounts
         /\ j.token \in Tokens /\ j.stage \in Stages /\ j.waiting \in BOOLEAN /\ j.seen \in Seen
         /\ j # Idle
  BY DEF PhoneJob, PhoneKinds, Stages, Idle

LEMMA AdminJobFields ==
  ASSUME NEW j \in AdminJob
  PROVE  j.kind \in AdminKinds /\ j.account \in Accounts /\ j.seen \in Seen /\ j # Idle
  BY DEF AdminJob, AdminKinds, Idle

LEMMA PhoneJobMoved ==
  ASSUME NEW j \in PhoneJob, NEW stage \in Stages
  PROVE  /\ [j EXCEPT !.stage = stage] \in PhoneJob
         /\ \A seen \in Seen : [j EXCEPT !.stage = stage, !.seen = seen] \in PhoneJob
         /\ \A token \in Tokens : [j EXCEPT !.stage = stage, !.token = token] \in PhoneJob
         /\ [j EXCEPT !.waiting = FALSE] \in PhoneJob
  BY DEF PhoneJob, Stages

LEMMA SeenTyped ==
  ASSUME TypeOK, NEW a \in Accounts
  PROVE  See(a) \in Seen
  BY DEF TypeOK, See, Seen

-----------------------------------------------------------------------------
(* Types *)

\* An answer the phone waits for carries a token pair; only the account of a
\* student is on its way to be bound; no phone waits for a logout.
JobsSound ==
  \A t \in Threads :
    /\ FromPhone(t) /\ job[t].stage = "ok" /\ job[t].waiting => job[t].token # 0
    /\ FromPhone(t) /\ job[t].stage = "bind" => job[t].account \in Students
    /\ job[t].kind = "logout" => ~job[t].waiting

Typed == TypeOK /\ JobsSound

\* One thread's job changed into a sound one.
LEMMA OneJob ==
  ASSUME Typed, NEW t \in Threads, NEW j \in PhoneJob \cup AdminJob \cup {Idle},
         job' = [job EXCEPT ![t] = j],
         j \in PhoneJob /\ j.stage = "ok" /\ j.waiting => j.token # 0,
         j \in PhoneJob /\ j.stage = "bind" => j.account \in Students,
         j \in PhoneJob /\ j.kind = "logout" => ~j.waiting
  PROVE  job' \in [Threads -> PhoneJob \cup AdminJob \cup {Idle}] /\ JobsSound'
<1>1. job' \in [Threads -> PhoneJob \cup AdminJob \cup {Idle}]
  BY DEF Typed, TypeOK
<1>2. ASSUME NEW u \in Threads, job'[u].kind \in PhoneKinds
      PROVE  /\ job'[u].stage = "ok" /\ job'[u].waiting => job'[u].token # 0
             /\ job'[u].stage = "bind" => job'[u].account \in Students
             /\ job'[u].kind = "logout" => ~job'[u].waiting
  <2>1. CASE u = t
    <3>1. job'[u] = j
      BY <2>1 DEF Typed, TypeOK
    <3>2. j \in PhoneJob
      BY <1>2, <3>1 DEF AdminJob, Idle, PhoneKinds
    <3> QED
      BY <3>1, <3>2
  <2>2. CASE u # t
    <3>1. job'[u] = job[u]
      BY <2>2 DEF Typed, TypeOK
    <3> QED
      BY <1>2, <3>1 DEF Typed, JobsSound, FromPhone, PhoneKinds
  <2> QED
    BY <2>1, <2>2
<1> QED
  BY <1>1, <1>2 DEF JobsSound, FromPhone, PhoneKinds

LEMMA SendTyped ==
  ASSUME Typed, NEW t \in Threads, NEW p \in Phones, NEW kind \in PhoneKinds,
         NEW a \in Accounts, NEW token \in Tokens, NEW waiting \in BOOLEAN,
         kind = "logout" => waiting = FALSE,
         Send(t, p, kind, a, token, waiting)
  PROVE  /\ job' \in [Threads -> PhoneJob \cup AdminJob \cup {Idle}] /\ JobsSound'
         /\ overlapped' \subseteq Accounts /\ disturbed' \in BOOLEAN
<1> DEFINE j == [kind |-> kind, phone |-> p, account |-> a, token |-> token,
                 stage |-> "sent", waiting |-> waiting, seen |-> See(a)]
<1>1. j \in PhoneJob
  BY SeenTyped DEF Typed, PhoneJob, PhoneKinds
<1>2. job' = [job EXCEPT ![t] = j]
  BY DEF Send
<1>3. j.stage = "sent" /\ (j.kind = "logout" => ~j.waiting)
  OBVIOUS
<1> HIDE DEF j
<1>4. job' \in [Threads -> PhoneJob \cup AdminJob \cup {Idle}] /\ JobsSound'
  BY <1>1, <1>2, <1>3, OneJob
<1>5. overlapped' \subseteq Accounts /\ disturbed' \in BOOLEAN
  BY DEF Send, TakesUp, Typed, TypeOK
<1> QED
  BY <1>4, <1>5

LEMMA SessionFields ==
  ASSUME TypeOK, NEW p \in Phones, session[p] # SignedOut
  PROVE  /\ session[p].account \in Accounts /\ session[p].token \in Tokens
         /\ session[p].token # 0
  BY DEF TypeOK, Session

LEMMA StartTyped ==
  ASSUME Typed, NEW t \in Threads, NEW p \in Phones,
         \/ \E a \in Accounts : StartLogin(t, p, a)
         \/ StartRefresh(t, p) \/ StartChangePassword(t, p) \/ SignOut(t, p)
  PROVE  Typed'
<1>1. /\ job' \in [Threads -> PhoneJob \cup AdminJob \cup {Idle}] /\ JobsSound'
      /\ overlapped' \subseteq Accounts /\ disturbed' \in BOOLEAN
  <2>1. 0 \in Tokens
    BY AccountAssumption DEF Tokens
  <2>2. CASE \E a \in Accounts : StartLogin(t, p, a)
    <3>1. PICK a \in Accounts : Send(t, p, "login", a, 0, TRUE)
      BY <2>2 DEF StartLogin
    <3> QED
      BY <2>1, <3>1, SendTyped DEF PhoneKinds
  <2>3. CASE StartRefresh(t, p)
    BY <2>3, SendTyped, SessionFields DEF StartRefresh, PhoneKinds, Typed
  <2>4. CASE StartChangePassword(t, p)
    BY <2>4, SendTyped, SessionFields DEF StartChangePassword, PhoneKinds, Typed
  <2>5. CASE SignOut(t, p)
    BY <2>5, SendTyped, SessionFields DEF SignOut, PhoneKinds, Typed
  <2> QED
    BY <2>2, <2>3, <2>4, <2>5
<1>2. session' \in [Phones -> Session \cup {SignedOut}] /\ entitled' \in [Phones -> BOOLEAN]
  BY DEF StartLogin, StartRefresh, StartChangePassword, SignOut, Typed, TypeOK
<1>3. UNCHANGED <<users, issued, admin>>
  BY DEF StartLogin, StartRefresh, StartChangePassword, SignOut
<1> QED
  BY <1>1, <1>2, <1>3 DEF Typed, TypeOK, users

LEMMA GiveUpTyped ==
  ASSUME Typed, NEW t \in Threads, GiveUp(t)
  PROVE  Typed'
<1> DEFINE j == [job[t] EXCEPT !.waiting = FALSE]
<1>1. job[t] \in PhoneJob
  BY JobOfKind DEF GiveUp, FromPhone, PhoneKinds, Typed
<1>2. j \in PhoneJob /\ j.waiting = FALSE /\ j.stage = job[t].stage /\ j.account = job[t].account
  BY <1>1, PhoneJobMoved DEF PhoneJob
<1>3. job' = [job EXCEPT ![t] = j]
  BY DEF GiveUp
<1>4. j.stage = "bind" => j.account \in Students
  BY <1>2 DEF Typed, JobsSound, GiveUp
<1> HIDE DEF j
<1>5. job' \in [Threads -> PhoneJob \cup AdminJob \cup {Idle}] /\ JobsSound'
  BY <1>2, <1>3, <1>4, OneJob
<1> QED
  BY <1>5 DEF GiveUp, Typed, TypeOK, users

LEMMA GetAnswerTyped ==
  ASSUME Typed, NEW t \in Threads, GetAnswer(t)
  PROVE  Typed'
<1> DEFINE j == job[t]
           p == j.phone
           stored == /\ j.waiting /\ j.stage = "ok"
                     /\ j.kind = "password" => session[p] # SignedOut
           rejected == j.waiting /\ j.kind = "refresh" /\ j.stage # "ok" /\ session[p] # SignedOut
           again == [j EXCEPT !.kind = "logout", !.account = session[p].account,
                              !.token = session[p].token, !.stage = "sent",
                              !.waiting = FALSE, !.seen = See(session[p].account)]
<1>1. FromPhone(t) /\ j \in PhoneJob /\ p \in Phones
  BY JobOfKind, PhoneJobFields DEF GetAnswer, FromPhone, PhoneKinds, Typed
<1>2. session' \in [Phones -> Session \cup {SignedOut}]
  <2>1. CASE stored
    <3>1. Stored(j) \in Session
      BY <1>1, <2>1, PhoneJobFields DEF Typed, JobsSound, Stored, Session
    <3>2. session' = [session EXCEPT ![p] = Stored(j)]
      BY <2>1 DEF GetAnswer
    <3> QED
      BY <3>1, <3>2 DEF Typed, TypeOK
  <2>2. CASE ~stored
    <3>1. session' \in {session, [session EXCEPT ![p] = SignedOut]}
      BY <2>2 DEF GetAnswer
    <3> QED
      BY <3>1 DEF Typed, TypeOK
  <2> QED
    BY <2>1, <2>2
<1>3. entitled' \in [Phones -> BOOLEAN]
  <2>1. active[j.account] \in BOOLEAN
    BY <1>1, PhoneJobFields DEF Typed, TypeOK
  <2>2. \/ entitled' = entitled
        \/ entitled' = [entitled EXCEPT ![p] = active[j.account] /\ jti[j.account] = j.token]
    BY DEF GetAnswer
  <2> QED
    BY <1>1, <2>2 DEF Typed, TypeOK
<1>4. /\ job' \in [Threads -> PhoneJob \cup AdminJob \cup {Idle}] /\ JobsSound'
      /\ overlapped' \subseteq Accounts /\ disturbed' \in BOOLEAN
  <2>1. CASE rejected
    <3>1. session[p].account \in Accounts /\ session[p].token \in Tokens
      BY <1>1, <2>1, SessionFields DEF Typed
    <3>2. See(session[p].account) \in Seen
      BY <3>1, SeenTyped DEF Typed
    <3>3. again \in PhoneJob /\ again.stage = "sent" /\ again.waiting = FALSE
      BY <1>1, <3>1, <3>2 DEF PhoneJob
    <3>4. job' = [job EXCEPT ![t] = again] /\ TakesUp(t, session[p].account)
      BY <2>1 DEF GetAnswer
    <3> HIDE DEF again
    <3>5. job' \in [Threads -> PhoneJob \cup AdminJob \cup {Idle}] /\ JobsSound'
      BY <3>3, <3>4, OneJob
    <3> QED
      BY <3>1, <3>4, <3>5 DEF TakesUp, Typed, TypeOK
  <2>2. CASE ~rejected
    <3>1. job' = [job EXCEPT ![t] = Idle] /\ UNCHANGED trouble
      BY <2>2 DEF GetAnswer
    <3>2. Idle \notin PhoneJob
      BY DEF Idle, PhoneJob
    <3>3. job' \in [Threads -> PhoneJob \cup AdminJob \cup {Idle}] /\ JobsSound'
      BY <3>1, <3>2, OneJob
    <3> QED
      BY <3>1, <3>3 DEF trouble, Typed, TypeOK
  <2> QED
    BY <2>1, <2>2
<1>5. UNCHANGED <<users, issued, admin>>
  BY DEF GetAnswer
<1> QED
  BY <1>2, <1>3, <1>4, <1>5 DEF Typed, TypeOK, users

\* A thread at work for a phone goes to another stage.
LEMMA StageTyped ==
  ASSUME Typed, NEW t \in Threads, job[t] \in PhoneJob, NEW stage \in Stages,
         Stage(t, stage) \/ Proceed(t, stage),
         stage = "ok" => ~job[t].waiting \/ job[t].token # 0,
         stage = "bind" => job[t].account \in Students
  PROVE  job' \in [Threads -> PhoneJob \cup AdminJob \cup {Idle}] /\ JobsSound'
<1> DEFINE S == See(job[t].account)
<1>1. S \in Seen
  BY SeenTyped, PhoneJobFields DEF Typed
<1>2. CASE Stage(t, stage)
  <2> DEFINE j == [job[t] EXCEPT !.stage = stage]
  <2>1. j \in PhoneJob
    BY PhoneJobMoved
  <2>2. j.stage = stage /\ j.token = job[t].token /\ j.account = job[t].account
        /\ j.waiting = job[t].waiting /\ j.kind = job[t].kind
    BY DEF PhoneJob
  <2>3. job' = [job EXCEPT ![t] = j]
    BY <1>2 DEF Stage
  <2> HIDE DEF j
  <2> QED
    BY <2>1, <2>2, <2>3, OneJob DEF Typed, JobsSound
<1>3. CASE Proceed(t, stage)
  <2> DEFINE j == [job[t] EXCEPT !.stage = stage, !.seen = S]
  <2>1. j \in PhoneJob
    BY <1>1, PhoneJobMoved
  <2>2. j.stage = stage /\ j.token = job[t].token /\ j.account = job[t].account
        /\ j.waiting = job[t].waiting /\ j.kind = job[t].kind
    BY DEF PhoneJob
  <2>3. job' = [job EXCEPT ![t] = j]
    BY <1>3 DEF Proceed, Typed, TypeOK
  <2> HIDE DEF j
  <2> QED
    BY <2>1, <2>2, <2>3, OneJob DEF Typed, JobsSound
<1> QED
  BY <1>2, <1>3

LEMMA ReadsTyped ==
  ASSUME Typed, NEW t \in Threads, LoginReads(t) \/ RequestReads(t) \/ CommitFails(t)
  PROVE  Typed'
<1>1. job[t] \in PhoneJob
  BY JobOfKind DEF LoginReads, RequestReads, CommitFails, FromPhone, PhoneKinds, Typed
<1>2. job' \in [Threads -> PhoneJob \cup AdminJob \cup {Idle}] /\ JobsSound'
  <2>1. CASE LoginReads(t)
    <3>1. \/ Proceed(t, "commit") \/ Stage(t, "refused")
          \/ Proceed(t, "bind") /\ job[t].account \in Students
      BY <2>1 DEF LoginReads, MayBind
    <3> QED
      BY <1>1, <3>1, StageTyped DEF Stages
  <2>2. CASE RequestReads(t)
    <3>1. Proceed(t, "commit") \/ Stage(t, "refused")
      BY <2>2 DEF RequestReads
    <3> QED
      BY <1>1, <3>1, StageTyped DEF Stages
  <2>3. CASE CommitFails(t)
    BY <1>1, <2>3, StageTyped DEF CommitFails, Stages
  <2> QED
    BY <2>1, <2>2, <2>3
<1>3. UNCHANGED <<users, issued, session, entitled, overlapped, admin>> /\ disturbed' \in BOOLEAN
  BY DEF LoginReads, RequestReads, CommitFails, trouble, Typed, TypeOK
<1> QED
  BY <1>2, <1>3 DEF Typed, TypeOK, users

LEMMA LoginBindsTyped ==
  ASSUME Typed, NEW t \in Threads, LoginBinds(t)
  PROVE  Typed'
<1>1. job[t] \in PhoneJob /\ job[t].account \in Students /\ job[t].phone \in Phones
  BY JobOfKind, PhoneJobFields DEF LoginBinds, FromPhone, PhoneKinds, Typed, JobsSound
<1>2. job' \in [Threads -> PhoneJob \cup AdminJob \cup {Idle}] /\ JobsSound'
  <2>1. Stage(t, "commit") \/ Stage(t, "refused")
    BY DEF LoginBinds
  <2> QED
    BY <1>1, <2>1, StageTyped DEF Stages
<1>3. bound' = bound \/ bound' = [bound EXCEPT ![job[t].account] = job[t].phone]
  BY DEF LoginBinds
<1>4. /\ bound' \in [Accounts -> Phones \cup {NoPhone}]
      /\ \A a \in Accounts \ Students : bound'[a] = NoPhone
  BY <1>1, <1>3 DEF Typed, TypeOK
<1> QED
  BY <1>2, <1>4 DEF LoginBinds, Typed, TypeOK, trouble

LEMMA CommitPairTyped ==
  ASSUME Typed, NEW t \in Threads, CommitPair(t)
  PROVE  Typed'
<1> DEFINE j == [job[t] EXCEPT !.stage = "ok", !.token = issued']
<1>1. job[t] \in PhoneJob /\ job[t].account \in Accounts
  BY JobOfKind, PhoneJobFields DEF CommitPair, FromPhone, PhoneKinds, Typed
<1>2. issued' \in Tokens \ {0}
  BY AccountAssumption DEF CommitPair, Typed, TypeOK, Tokens
<1>3. j \in PhoneJob /\ j.stage = "ok" /\ j.token # 0 /\ j.kind # "logout"
  <2>1. job[t].kind # "logout"
    BY DEF CommitPair
  <2>2. "ok" \in Stages /\ issued' \in Tokens
    BY <1>2 DEF Stages
  <2>3. j \in PhoneJob
    BY <1>1, <2>2, PhoneJobMoved
  <2>4. j.stage = "ok" /\ j.token = issued' /\ j.kind = job[t].kind
    BY <1>1 DEF PhoneJob
  <2>5. issued' # 0
    BY <1>2
  <2> QED
    BY <2>1, <2>3, <2>4, <2>5
<1>4. job' = [job EXCEPT ![t] = j]
  <2>1. job' = [job EXCEPT ![t].stage = "ok", ![t].token = issued']
    BY DEF CommitPair
  <2>2. job \in [Threads -> PhoneJob \cup AdminJob \cup {Idle}]
    BY DEF Typed, TypeOK
  <2> QED
    BY <2>1, <2>2
<1> HIDE DEF j
<1>5. job' \in [Threads -> PhoneJob \cup AdminJob \cup {Idle}] /\ JobsSound'
  BY <1>3, <1>4, OneJob
<1>6. entitled' \in [Phones -> BOOLEAN]
  BY DEF CommitPair, EndOthers, Typed, TypeOK
<1>7. jti' \in [Accounts -> Tokens]
  BY <1>1, <1>2 DEF CommitPair, Typed, TypeOK
<1> QED
  BY <1>2, <1>5, <1>6, <1>7 DEF CommitPair, Typed, TypeOK, trouble

LEMMA CommitLogoutTyped ==
  ASSUME Typed, NEW t \in Threads, CommitLogout(t)
  PROVE  Typed'
<1>1. job[t] \in PhoneJob /\ ~job[t].waiting
  BY JobOfKind DEF CommitLogout, PhoneKinds, Typed, JobsSound
<1>2. job' \in [Threads -> PhoneJob \cup AdminJob \cup {Idle}] /\ JobsSound'
  BY <1>1, StageTyped DEF CommitLogout, Stages
<1>3. jti' \in [Accounts -> Tokens] /\ entitled' \in [Phones -> BOOLEAN]
  <2>1. 0 \in Tokens
    BY AccountAssumption DEF Tokens
  <2>2. jti' = jti \/ jti' = [jti EXCEPT ![job[t].account] = 0]
    BY DEF CommitLogout
  <2>3. entitled' \in [Phones -> BOOLEAN]
    BY DEF CommitLogout, EndOthers, Typed, TypeOK
  <2> QED
    BY <2>1, <2>2, <2>3 DEF Typed, TypeOK
<1> QED
  BY <1>2, <1>3 DEF CommitLogout, Typed, TypeOK, trouble

LEMMA AdminTyped ==
  ASSUME Typed, NEW t \in Threads,
         \/ AdminCommits(t)
         \/ \E a \in Accounts, kind \in AdminKinds : AdminReads(t, kind, a)
  PROVE  Typed'
<1>1. Idle \notin PhoneJob
  BY DEF Idle, PhoneJob
<1>2. CASE AdminCommits(t)
  <2>1. job[t] \in AdminJob
    BY <1>2, JobOfKind DEF AdminCommits, AdminKinds, Typed
  <2>2. job[t].account \in Accounts
    BY <2>1, AdminJobFields
  <2> DEFINE a == job[t].account
  <2>3. active' \in [Accounts -> BOOLEAN]
    <3>1. active' = active \/ active' = [active EXCEPT ![a] = (job[t].kind = "on")]
      BY <1>2 DEF AdminCommits
    <3> QED
      BY <3>1 DEF Typed, TypeOK
  <2>4. /\ bound' \in [Accounts -> Phones \cup {NoPhone}]
        /\ \A b \in Accounts \ Students : bound'[b] = NoPhone
    <3>1. bound' = bound \/ bound' = [bound EXCEPT ![a] = NoPhone]
      BY <1>2 DEF AdminCommits
    <3> QED
      BY <3>1 DEF Typed, TypeOK
  <2>5. jti' \in [Accounts -> Tokens]
    <3>1. jti' = jti \/ jti' = [jti EXCEPT ![a] = 0]
      BY <1>2 DEF AdminCommits
    <3>2. 0 \in Tokens
      BY AccountAssumption DEF Tokens
    <3> QED
      BY <3>1, <3>2 DEF Typed, TypeOK
  <2>6. entitled' \in [Phones -> BOOLEAN]
    BY <1>2 DEF AdminCommits, EndOthers, Typed, TypeOK
  <2>7. job' = [job EXCEPT ![t] = Idle]
    BY <1>2 DEF AdminCommits
  <2>8. job' \in [Threads -> PhoneJob \cup AdminJob \cup {Idle}] /\ JobsSound'
    BY <1>1, <2>7, OneJob
  <2>9. UNCHANGED <<issued, session, trouble, admin>>
    BY <1>2 DEF AdminCommits
  <2> QED
    BY <2>3, <2>4, <2>5, <2>6, <2>8, <2>9 DEF Typed, TypeOK, trouble
<1>3. ASSUME NEW a \in Accounts, NEW kind \in AdminKinds, AdminReads(t, kind, a)
      PROVE  Typed'
  <2> DEFINE j == [kind |-> kind, account |-> a, seen |-> See(a)]
  <2>1. j \in AdminJob
    BY SeenTyped DEF AdminJob, AdminKinds, Typed
  <2>2. j \notin PhoneJob
    BY DEF PhoneJob, AdminKinds
  <2>3. job' = [job EXCEPT ![t] = j]
    BY <1>3 DEF AdminReads
  <2> HIDE DEF j
  <2>4. job' \in [Threads -> PhoneJob \cup AdminJob \cup {Idle}] /\ JobsSound'
    BY <2>1, <2>2, <2>3, OneJob
  <2>5. admin' \in 0..MaxAdmin
    BY <1>3, AccountAssumption DEF AdminReads, Typed, TypeOK
  <2> QED
    BY <1>3, <2>4, <2>5 DEF AdminReads, TakesUp, Typed, TypeOK, users
<1> QED
  BY <1>2, <1>3

LEMMA InitTyped == Init => Typed
<1> SUFFICES ASSUME Init PROVE Typed
  OBVIOUS
<1>1. 0 \in Tokens /\ 0 \in 0..MaxAdmin
  BY AccountAssumption DEF Tokens
<1>2. TypeOK
  BY <1>1 DEF Init, TypeOK
<1>3. JobsSound
  BY DEF Init, JobsSound, FromPhone, Idle
<1> QED
  BY <1>2, <1>3 DEF Typed

LEMMA NextTyped ==
  ASSUME Typed, [Next]_vars
  PROVE  Typed'
<1>1. CASE Next
  <2>1. PICK t \in Threads : PhoneStep(t) \/ ServerStep(t)
    BY <1>1 DEF Next
  <2>2. CASE PhoneStep(t)
    BY <2>2, StartTyped, GiveUpTyped, GetAnswerTyped DEF PhoneStep
  <2>3. CASE ServerStep(t)
    BY <2>3, ReadsTyped, LoginBindsTyped, CommitPairTyped, CommitLogoutTyped, AdminTyped
    DEF ServerStep, AdminKinds
  <2> QED
    BY <2>1, <2>2, <2>3
<1>2. CASE UNCHANGED vars
  BY <1>2 DEF vars, users, trouble, Typed, TypeOK, JobsSound, FromPhone
<1> QED
  BY <1>1, <1>2

\* Accounts, requests and phones have their types, whoever overlaps whom.
THEOREM AccountTypes == Spec => []TypeOK
<1>1. Typed => TypeOK
  BY DEF Typed
<1> QED
  BY <1>1, InitTyped, NextTyped, PTL DEF Spec

-----------------------------------------------------------------------------
(* One account per phone *)

LEMMA BoundByLogins ==
  ASSUME Typed, [Next]_vars, NEW a \in Accounts, bound'[a] # bound[a], bound'[a] # NoPhone
  PROVE  /\ ~Taken(a, bound'[a])
         /\ \A b \in Accounts \ {a} : bound'[b] = bound[b]
         /\ \E t \in Threads : LoginBinds(t) /\ job[t].account = a
<1>1. CASE \E t \in Threads : LoginBinds(t)
  <2>1. PICK t \in Threads : LoginBinds(t)
    BY <1>1
  <2>2. job[t].account \in Accounts /\ job[t].phone \in Phones
    BY <2>1, JobOfKind, PhoneJobFields DEF LoginBinds, PhoneKinds, Typed
  <2>3. /\ PhoneFree(job[t].account, job[t].phone)
        /\ bound' = [bound EXCEPT ![job[t].account] = job[t].phone]
    BY <2>1 DEF LoginBinds
  <2> QED
    BY <2>1, <2>2, <2>3 DEF PhoneFree, Typed, TypeOK
<1>2. CASE \E t \in Threads : AdminCommits(t)
  <2>1. PICK t \in Threads : AdminCommits(t)
    BY <1>2
  <2>2. bound' = bound \/ bound' = [bound EXCEPT ![job[t].account] = NoPhone]
    BY <2>1 DEF AdminCommits
  <2> QED
    BY <2>2 DEF Typed, TypeOK
<1>3. CASE ~(\E t \in Threads : LoginBinds(t) \/ AdminCommits(t))
  <2>1. UNCHANGED bound
    BY <1>3 DEF Next, PhoneStep, ServerStep, StartLogin, StartRefresh, StartChangePassword, SignOut,
       GiveUp, GetAnswer, LoginReads, RequestReads, CommitPair, CommitLogout, CommitFails,
       AdminReads, vars, users
  <2> QED
    BY <2>1
<1> QED
  BY <1>1, <1>2, <1>3

\* No phone is bound to two accounts, however the reads and commits of
\* logins, unbinds and exits interleave: the unique constraint decides.
THEOREM PhonesAreNotShared == Spec => []OneAccountPerPhone
<1>1. Init => OneAccountPerPhone
  BY AccountAssumption DEF Init, OneAccountPerPhone
<1>2. ASSUME Typed, OneAccountPerPhone, [Next]_vars
      PROVE  OneAccountPerPhone'
  <2> SUFFICES ASSUME NEW a \in Students, NEW b \in Students,
                      bound'[a] # NoPhone, bound'[a] = bound'[b], a # b
               PROVE  FALSE
    BY DEF OneAccountPerPhone
  <2>1. a \in Accounts /\ b \in Accounts
    BY AccountAssumption
  <2>2. CASE bound'[a] # bound[a]
    BY <1>2, <2>1, <2>2, BoundByLogins DEF Taken
  <2>3. CASE bound'[b] # bound[b]
    BY <1>2, <2>1, <2>3, BoundByLogins DEF Taken
  <2>4. CASE bound'[a] = bound[a] /\ bound'[b] = bound[b]
    BY <1>2, <2>4 DEF OneAccountPerPhone
  <2> QED
    BY <2>2, <2>3, <2>4
<1> QED
  BY <1>1, <1>2, InitTyped, NextTyped, PTL DEF Spec

-----------------------------------------------------------------------------
(* Accounts one request at a time *)

\* Thread t is at work on account a.
Busy(t, a) == job[t] # Idle /\ job[t].account = a

\* An account nobody overlapped on has one request at most, ...
OneByOne ==
  \A t, u \in Threads : \A a \in Accounts \ overlapped : Busy(t, a) /\ Busy(u, a) => t = u

\* ... whose reads are still true when it commits ...
UpToDate(t) ==
  LET j == job[t] IN
  /\ j.kind \in AdminKinds => j.seen = See(j.account)
  /\ j.kind \in PhoneKinds /\ j.stage \in {"bind", "commit"} => active[j.account]
  /\ j.kind = "login" /\ j.stage = "bind" => bound[j.account] = NoPhone
  /\ j.kind = "refresh" /\ j.stage = "commit" => jti[j.account] = j.token

ReadsHold == \A t \in Threads : job[t] # Idle /\ job[t].account \notin overlapped => UpToDate(t)

\* ... so that it leaves the account revoked if it leaves it off.
Serial == Typed /\ OneByOne /\ ReadsHold /\ OffMeansRevoked

\* What a step of t may touch: its own job, the rows of the account it is at
\* work on, and the record of who overlaps.
Footprint(t) ==
  /\ \A u \in Threads \ {t} : job'[u] = job[u]
  /\ overlapped \subseteq overlapped'
  /\ \A a \in Accounts, u \in Threads \ {t} :
       Busy(t, a)' /\ ~Busy(t, a) /\ Busy(u, a) => a \in overlapped'
  /\ \A a \in Accounts : ~Busy(t, a) =>
       active'[a] = active[a] /\ bound'[a] = bound[a] /\ jti'[a] = jti[a]

LEMMA SendFootprint ==
  ASSUME Typed, NEW t \in Threads, NEW p \in Phones, NEW kind \in PhoneKinds,
         NEW a \in Accounts, NEW token, NEW waiting,
         Send(t, p, kind, a, token, waiting), UNCHANGED users
  PROVE  Footprint(t)
<1> DEFINE j == [kind |-> kind, phone |-> p, account |-> a, token |-> token,
                 stage |-> "sent", waiting |-> waiting, seen |-> See(a)]
<1>1. job' = [job EXCEPT ![t] = j] /\ j.account = a
  BY DEF Send
<1> HIDE DEF j
<1>2. /\ \A u \in Threads \ {t} : job'[u] = job[u]
      /\ job'[t].account = a
  BY <1>1 DEF Typed, TypeOK
<1> QED
  BY <1>2 DEF Send, TakesUp, Footprint, Busy, users

\* Steps that keep to one account and do not change which.
LEMMA SameAccount ==
  ASSUME Typed, NEW t \in Threads, NEW j,
         job' = [job EXCEPT ![t] = j], j = Idle \/ j.account = job[t].account, job[t] # Idle,
         overlapped' = overlapped,
         \A a \in Accounts \ {job[t].account} :
           active'[a] = active[a] /\ bound'[a] = bound[a] /\ jti'[a] = jti[a]
  PROVE  Footprint(t)
<1>1. job'[t] = j /\ \A u \in Threads \ {t} : job'[u] = job[u]
  BY DEF Typed, TypeOK
<1> QED
  BY <1>1 DEF Footprint, Busy

LEMMA StageSame ==
  ASSUME Typed, NEW t \in Threads, job[t] \in PhoneJob, NEW stage,
         Stage(t, stage) \/ Proceed(t, stage)
  PROVE  \E j : /\ job' = [job EXCEPT ![t] = j]
                /\ j.account = job[t].account /\ j.kind = job[t].kind
                /\ j.stage = stage /\ j.token = job[t].token
<1>1. CASE Stage(t, stage)
  <2> DEFINE j == [job[t] EXCEPT !.stage = stage]
  <2>1. job' = [job EXCEPT ![t] = j]
    BY <1>1 DEF Stage
  <2>2. /\ j.account = job[t].account /\ j.kind = job[t].kind
        /\ j.stage = stage /\ j.token = job[t].token
    BY DEF PhoneJob
  <2> HIDE DEF j
  <2> QED
    BY <2>1, <2>2
<1>2. CASE Proceed(t, stage)
  <2> DEFINE j == [job[t] EXCEPT !.stage = stage, !.seen = See(job[t].account)]
  <2>1. job' = [job EXCEPT ![t] = j]
    BY <1>2 DEF Proceed, Typed, TypeOK
  <2>2. /\ j.account = job[t].account /\ j.kind = job[t].kind
        /\ j.stage = stage /\ j.token = job[t].token
    BY DEF PhoneJob
  <2> HIDE DEF j
  <2> QED
    BY <2>1, <2>2
<1> QED
  BY <1>1, <1>2

\* What a step of t leaves true of t's own job and of revoked accounts.
StepKeeps(t) ==
  /\ Footprint(t)
  /\ job'[t] # Idle /\ job'[t].account \notin overlapped' => UpToDate(t)'
  /\ OffMeansRevoked'

LEMMA OffStaysRevoked ==
  ASSUME Serial, overlapped \subseteq overlapped',
         \A a \in Accounts \ overlapped' :
           active'[a] = active[a] /\ (jti'[a] = jti[a] \/ jti'[a] = 0 \/ active[a])
  PROVE  OffMeansRevoked'
  BY DEF Serial, OffMeansRevoked

LEMMA SendKeeps ==
  ASSUME Serial, NEW t \in Threads, NEW p \in Phones, NEW kind \in PhoneKinds,
         NEW a \in Accounts, NEW token, NEW waiting,
         Send(t, p, kind, a, token, waiting), UNCHANGED users
  PROVE  StepKeeps(t)
<1>1. Footprint(t)
  BY SendFootprint DEF Serial
<1>2. job'[t].kind = kind /\ job'[t].stage = "sent"
  BY DEF Send, Serial, Typed, TypeOK
<1>3. UpToDate(t)'
  BY <1>2 DEF UpToDate, PhoneKinds, AdminKinds
<1>4. OffMeansRevoked'
  BY <1>1, OffStaysRevoked DEF Footprint, users
<1> QED
  BY <1>1, <1>3, <1>4 DEF StepKeeps

LEMMA StartKeeps ==
  ASSUME Serial, NEW t \in Threads, NEW p \in Phones,
         \/ \E a \in Accounts : StartLogin(t, p, a)
         \/ StartRefresh(t, p) \/ StartChangePassword(t, p) \/ SignOut(t, p)
  PROVE  StepKeeps(t)
<1>1. CASE \E a \in Accounts : StartLogin(t, p, a)
  BY <1>1, SendKeeps DEF StartLogin, PhoneKinds
<1>2. CASE StartRefresh(t, p)
  BY <1>2, SendKeeps, SessionFields DEF StartRefresh, PhoneKinds, Serial, Typed
<1>3. CASE StartChangePassword(t, p)
  BY <1>3, SendKeeps, SessionFields DEF StartChangePassword, PhoneKinds, Serial, Typed
<1>4. CASE SignOut(t, p)
  BY <1>4, SendKeeps, SessionFields DEF SignOut, PhoneKinds, Serial, Typed, users
<1> QED
  BY <1>1, <1>2, <1>3, <1>4

\* Steps that keep a job at its account and write no row.
LEMMA QuietKeeps ==
  ASSUME Serial, NEW t \in Threads, NEW j, job' = [job EXCEPT ![t] = j], job[t] # Idle,
         j = Idle \/ j.account = job[t].account,
         UNCHANGED <<users, overlapped>>,
         j # Idle /\ j.account \notin overlapped => UpToDate(t)'
  PROVE  StepKeeps(t)
<1>1. Footprint(t)
  BY SameAccount DEF users, Serial
<1>2. job'[t] = j
  BY DEF Serial, Typed, TypeOK
<1>3. OffMeansRevoked'
  BY OffStaysRevoked DEF users
<1> QED
  BY <1>1, <1>2, <1>3 DEF StepKeeps

LEMMA GiveUpKeeps ==
  ASSUME Serial, NEW t \in Threads, GiveUp(t)
  PROVE  StepKeeps(t)
<1> DEFINE j == [job[t] EXCEPT !.waiting = FALSE]
<1>1. job[t] \in PhoneJob /\ job[t] # Idle
  BY JobOfKind DEF GiveUp, FromPhone, PhoneKinds, Serial, Typed
<1>2. /\ j.account = job[t].account /\ j.kind = job[t].kind /\ j.stage = job[t].stage
      /\ j.token = job[t].token /\ j.kind \in PhoneKinds
  BY <1>1, PhoneJobFields DEF PhoneJob
<1>3. job' = [job EXCEPT ![t] = j]
  BY DEF GiveUp
<1> HIDE DEF j
<1>4. job'[t] = j
  BY <1>3 DEF Serial, Typed, TypeOK
<1>5. UNCHANGED <<users, overlapped>>
  BY DEF GiveUp
<1>6. ASSUME j.account \notin overlapped PROVE UpToDate(t)'
  <2>1. UpToDate(t)
    BY <1>1, <1>2, <1>6 DEF Serial, ReadsHold
  <2> QED
    BY <1>2, <1>4, <1>5, <2>1 DEF UpToDate, PhoneKinds, AdminKinds, users
<1> QED
  BY <1>1, <1>2, <1>3, <1>5, <1>6, QuietKeeps

LEMMA GetAnswerKeeps ==
  ASSUME Serial, NEW t \in Threads, GetAnswer(t)
  PROVE  StepKeeps(t)
<1> DEFINE j == job[t]
           p == j.phone
           a == session[p].account
           rejected == j.waiting /\ j.kind = "refresh" /\ j.stage # "ok" /\ session[p] # SignedOut
           again == [j EXCEPT !.kind = "logout", !.account = a, !.token = session[p].token,
                              !.stage = "sent", !.waiting = FALSE, !.seen = See(a)]
<1>1. j \in PhoneJob /\ j # Idle /\ p \in Phones
  BY JobOfKind, PhoneJobFields DEF GetAnswer, FromPhone, PhoneKinds, Serial, Typed
<1>2. UNCHANGED users
  BY DEF GetAnswer
<1>3. CASE rejected
  <2>1. a \in Accounts
    BY <1>1, <1>3, SessionFields DEF Serial, Typed
  <2>2. job' = [job EXCEPT ![t] = again] /\ TakesUp(t, a)
    BY <1>3 DEF GetAnswer
  <2>3. again.account = a /\ again.kind = "logout" /\ again.stage = "sent"
    BY <1>1 DEF PhoneJob
  <2> HIDE DEF again
  <2>4. /\ job'[t].account = a /\ job'[t].kind = "logout" /\ job'[t].stage = "sent"
        /\ \A u \in Threads \ {t} : job'[u] = job[u]
    BY <2>2, <2>3 DEF Serial, Typed, TypeOK
  <2>5. Footprint(t)
    BY <1>2, <2>1, <2>2, <2>4 DEF Footprint, Busy, TakesUp, users
  <2>6. UpToDate(t)'
    BY <2>4 DEF UpToDate, AdminKinds
  <2>7. OffMeansRevoked'
    BY <1>2, <2>5, OffStaysRevoked DEF Footprint, users
  <2> QED
    BY <2>5, <2>6, <2>7 DEF StepKeeps
<1>4. CASE ~rejected
  <2>1. job' = [job EXCEPT ![t] = Idle] /\ UNCHANGED trouble
    BY <1>4 DEF GetAnswer
  <2> QED
    BY <1>1, <1>2, <2>1, QuietKeeps DEF trouble
<1> QED
  BY <1>3, <1>4

LEMMA ReadsKeep ==
  ASSUME Serial, NEW t \in Threads, LoginReads(t) \/ RequestReads(t) \/ CommitFails(t)
  PROVE  StepKeeps(t)
<1>1. job[t] \in PhoneJob /\ job[t] # Idle /\ job[t].kind \in PhoneKinds
  BY JobOfKind DEF LoginReads, RequestReads, CommitFails, FromPhone, PhoneKinds, Serial, Typed
<1>2. UNCHANGED <<users, overlapped>>
  BY DEF LoginReads, RequestReads, CommitFails, trouble
<1>3. ASSUME NEW stage, Stage(t, stage) \/ Proceed(t, stage),
             stage \in {"bind", "commit"} => active[job[t].account],
             stage = "bind" => bound[job[t].account] = NoPhone,
             stage = "commit" /\ job[t].kind = "refresh" => jti[job[t].account] = job[t].token
      PROVE  StepKeeps(t)
  <2>1. PICK j : /\ job' = [job EXCEPT ![t] = j]
                 /\ j.account = job[t].account /\ j.kind = job[t].kind
                 /\ j.stage = stage /\ j.token = job[t].token
    BY <1>1, <1>3, StageSame DEF Serial
  <2>2. job'[t] = j
    BY <2>1 DEF Serial, Typed, TypeOK
  <2>3. UpToDate(t)'
    BY <1>1, <1>2, <1>3, <2>1, <2>2 DEF UpToDate, PhoneKinds, AdminKinds, users
  <2> QED
    BY <1>1, <1>2, <2>1, <2>3, QuietKeeps
<1>4. CASE LoginReads(t)
  <2>1. \/ MayEnter(job[t].account, job[t].phone) /\ Proceed(t, "commit")
        \/ MayBind(job[t].account, job[t].phone) /\ Proceed(t, "bind")
        \/ Stage(t, "refused")
    BY <1>4 DEF LoginReads
  <2>2. job[t].kind = "login"
    BY <1>4 DEF LoginReads
  <2> QED
    BY <1>3, <2>1, <2>2 DEF MayEnter, MayBind
<1>5. CASE RequestReads(t)
  <2>1. \/ Stage(t, "refused")
        \/ /\ Proceed(t, "commit") /\ active[job[t].account]
           /\ job[t].kind = "refresh" => jti[job[t].account] = job[t].token
    BY <1>5 DEF RequestReads, MayRefresh
  <2> QED
    BY <1>3, <2>1
<1>6. CASE CommitFails(t)
  BY <1>3, <1>6 DEF CommitFails
<1> QED
  BY <1>4, <1>5, <1>6

LEMMA LoginBindsKeeps ==
  ASSUME Serial, NEW t \in Threads, LoginBinds(t)
  PROVE  StepKeeps(t)
<1> DEFINE a == job[t].account
<1>1. /\ job[t] \in PhoneJob /\ job[t] # Idle /\ job[t].kind = "login" /\ a \in Accounts
      /\ job[t].stage = "bind"
  BY JobOfKind, PhoneJobFields DEF LoginBinds, PhoneKinds, Serial, Typed
<1>2. PICK stage : Stage(t, stage) /\ stage \in {"commit", "refused"}
  BY DEF LoginBinds
<1>3. PICK j : /\ job' = [job EXCEPT ![t] = j]
               /\ j.account = a /\ j.kind = "login" /\ j.stage = stage
  BY <1>1, <1>2, StageSame DEF Serial
<1>4. /\ UNCHANGED <<active, jti, overlapped>>
      /\ \A b \in Accounts \ {a} : bound'[b] = bound[b]
  BY DEF LoginBinds, trouble, Serial, Typed, TypeOK
<1>5. Footprint(t)
  BY <1>1, <1>3, <1>4, SameAccount DEF Serial
<1>6. job'[t] = j
  BY <1>3 DEF Serial, Typed, TypeOK
<1>7. ASSUME a \notin overlapped PROVE UpToDate(t)'
  <2>1. active[a]
    BY <1>1, <1>7 DEF Serial, ReadsHold, UpToDate, PhoneKinds
  <2> QED
    BY <1>2, <1>3, <1>4, <1>6, <2>1 DEF UpToDate, PhoneKinds, AdminKinds
<1>8. OffMeansRevoked'
  BY <1>4, OffStaysRevoked
<1> QED
  BY <1>3, <1>4, <1>5, <1>6, <1>7, <1>8 DEF StepKeeps

LEMMA CommitPairKeeps ==
  ASSUME Serial, NEW t \in Threads, CommitPair(t)
  PROVE  StepKeeps(t)
<1> DEFINE a == job[t].account
           j == [job[t] EXCEPT !.stage = "ok", !.token = issued']
<1>1. /\ job[t] \in PhoneJob /\ job[t] # Idle /\ job[t].kind \in PhoneKinds /\ a \in Accounts
      /\ job[t].stage = "commit"
  BY JobOfKind, PhoneJobFields DEF CommitPair, PhoneKinds, Serial, Typed
<1>2. j.account = a /\ j.kind = job[t].kind /\ j.stage = "ok"
  BY <1>1 DEF PhoneJob
<1>3. job' = [job EXCEPT ![t] = j]
  <2>1. job' = [job EXCEPT ![t].stage = "ok", ![t].token = issued']
    BY DEF CommitPair
  <2> QED
    BY <2>1 DEF Serial, Typed, TypeOK
<1>4. /\ UNCHANGED <<active, bound, overlapped>>
      /\ \A b \in Accounts \ {a} : jti'[b] = jti[b]
  BY DEF CommitPair, trouble, Serial, Typed, TypeOK
<1> HIDE DEF j
<1>5. Footprint(t)
  BY <1>1, <1>2, <1>3, <1>4, SameAccount DEF Serial
<1>6. job'[t] = j
  BY <1>3 DEF Serial, Typed, TypeOK
<1>7. UpToDate(t)'
  BY <1>1, <1>2, <1>6 DEF UpToDate, PhoneKinds, AdminKinds
<1>8. OffMeansRevoked'
  <2>1. a \notin overlapped => active[a]
    BY <1>1 DEF Serial, ReadsHold, UpToDate
  <2> QED
    BY <1>4, <2>1, OffStaysRevoked
<1> QED
  BY <1>5, <1>7, <1>8 DEF StepKeeps

LEMMA CommitLogoutKeeps ==
  ASSUME Serial, NEW t \in Threads, CommitLogout(t)
  PROVE  StepKeeps(t)
<1> DEFINE a == job[t].account
<1>1. /\ job[t] \in PhoneJob /\ job[t] # Idle /\ job[t].kind = "logout" /\ a \in Accounts
  BY JobOfKind, PhoneJobFields DEF CommitLogout, PhoneKinds, Serial, Typed
<1>2. PICK j : /\ job' = [job EXCEPT ![t] = j]
               /\ j.account = a /\ j.kind = "logout" /\ j.stage = "ok"
  BY <1>1, StageSame DEF CommitLogout, Serial
<1>3. UNCHANGED <<active, bound, overlapped>>
  BY DEF CommitLogout, trouble
<1>4. jti' = jti \/ jti' = [jti EXCEPT ![a] = 0]
  BY DEF CommitLogout
<1>5. Footprint(t)
  BY <1>1, <1>2, <1>3, <1>4, SameAccount DEF Serial, Typed, TypeOK
<1>6. job'[t] = j
  BY <1>2 DEF Serial, Typed, TypeOK
<1>7. UpToDate(t)'
  BY <1>2, <1>6 DEF UpToDate, AdminKinds
<1>8. OffMeansRevoked'
  BY <1>3, <1>4, OffStaysRevoked DEF Serial, Typed, TypeOK
<1> QED
  BY <1>5, <1>7, <1>8 DEF StepKeeps

LEMMA AdminKeeps ==
  ASSUME Serial, NEW t \in Threads,
         \/ AdminCommits(t)
         \/ \E a \in Accounts, kind \in AdminKinds : AdminReads(t, kind, a)
  PROVE  StepKeeps(t)
<1>1. CASE AdminCommits(t)
  <2> DEFINE j == job[t]
             a == j.account
  <2>1. j \in AdminJob /\ j # Idle /\ j.kind \in AdminKinds /\ a \in Accounts
    BY <1>1, JobOfKind DEF AdminCommits, AdminKinds, Serial, Typed
  <2>2. job' = [job EXCEPT ![t] = Idle] /\ UNCHANGED overlapped
    BY <1>1 DEF AdminCommits, trouble
  <2>3. /\ \/ active' = [active EXCEPT ![a] = (j.kind = "on")]
              /\ j.kind \in {"on", "off", "exit"} /\ j.seen.active # (j.kind = "on")
           \/ active' = active /\ ~(j.kind \in {"on", "off", "exit"} /\ j.seen.active # (j.kind = "on"))
        /\ bound' = bound \/ bound' = [bound EXCEPT ![a] = NoPhone]
        /\ \/ jti' = [jti EXCEPT ![a] = 0]
           \/ jti' = jti /\ ~(j.kind \in Revokes /\ j.seen.jti # 0)
    BY <1>1 DEF AdminCommits
  <2>4. \A b \in Accounts \ {a} :
          active'[b] = active[b] /\ bound'[b] = bound[b] /\ jti'[b] = jti[b]
    BY <2>3 DEF Serial, Typed, TypeOK
  <2>5. Footprint(t)
    BY <2>1, <2>2, <2>4, SameAccount DEF Serial
  <2>6. job'[t] = Idle
    BY <2>2 DEF Serial, Typed, TypeOK
  <2>7. ASSUME a \notin overlapped, ~active'[a] PROVE jti'[a] = 0
    <3>1. j.seen.active = active[a] /\ j.seen.jti = jti[a]
      <4>1. j.seen = See(a)
        BY <2>1, <2>7 DEF Serial, ReadsHold, UpToDate
      <4> QED
        BY <4>1 DEF See
    <3>2. ~active[a] => jti[a] = 0
      BY <2>1, <2>7 DEF Serial, OffMeansRevoked
    <3>3. CASE jti' = [jti EXCEPT ![a] = 0]
      BY <2>1, <3>3 DEF Serial, Typed, TypeOK
    <3>4. CASE jti' = jti /\ ~(j.kind \in Revokes /\ j.seen.jti # 0)
      <4>1. CASE j.kind \in Revokes
        BY <3>1, <3>4, <4>1
      <4>2. CASE j.kind \notin Revokes
        <5>1. j.kind = "on"
          BY <2>1, <4>2 DEF Revokes, AdminKinds
        <5>2. ~active[a]
          BY <2>1, <2>3, <2>7, <5>1 DEF Serial, Typed, TypeOK
        <5> QED
          BY <3>2, <3>4, <5>2
      <4> QED
        BY <4>1, <4>2
    <3> QED
      BY <2>3, <3>3, <3>4
  <2>8. OffMeansRevoked'
    BY <2>2, <2>4, <2>7 DEF Serial, OffMeansRevoked
  <2> QED
    BY <2>5, <2>6, <2>8 DEF StepKeeps
<1>2. ASSUME NEW a \in Accounts, NEW kind \in AdminKinds, AdminReads(t, kind, a)
      PROVE  StepKeeps(t)
  <2> DEFINE j == [kind |-> kind, account |-> a, seen |-> See(a)]
  <2>1. job' = [job EXCEPT ![t] = j] /\ TakesUp(t, a) /\ UNCHANGED users
    BY <1>2 DEF AdminReads
  <2>2. j.account = a /\ j.kind = kind /\ j.seen = See(a)
    OBVIOUS
  <2> HIDE DEF j
  <2>3. job'[t] = j /\ \A u \in Threads \ {t} : job'[u] = job[u]
    BY <2>1 DEF Serial, Typed, TypeOK
  <2>4. Footprint(t)
    BY <2>1, <2>2, <2>3 DEF Footprint, Busy, TakesUp, users
  <2>5. UpToDate(t)'
    <3>1. See(a)' = See(a)
      BY <2>1 DEF See, users
    <3> QED
      BY <2>2, <2>3, <3>1 DEF UpToDate, PhoneKinds, AdminKinds
  <2>6. OffMeansRevoked'
    BY <2>1, <2>4, OffStaysRevoked DEF Footprint, users
  <2> QED
    BY <2>4, <2>5, <2>6 DEF StepKeeps
<1> QED
  BY <1>1, <1>2

LEMMA StepKeepsSerial ==
  ASSUME Serial, Typed', NEW t \in Threads, StepKeeps(t)
  PROVE  Serial'
<1>1. OneByOne'
  <2> SUFFICES ASSUME NEW u \in Threads, NEW v \in Threads, NEW a \in Accounts, a \notin overlapped',
                      Busy(u, a)', Busy(v, a)', u # v
               PROVE  FALSE
    BY DEF OneByOne
  <2>1. a \notin overlapped
    BY DEF StepKeeps, Footprint
  <2>2. \A w \in Threads \ {t} : Busy(w, a)' => Busy(w, a)
    BY DEF StepKeeps, Footprint, Busy
  <2>3. CASE u # t /\ v # t
    BY <2>1, <2>2, <2>3 DEF Serial, OneByOne
  <2>4. CASE u = t
    BY <2>1, <2>2, <2>4 DEF Serial, OneByOne, StepKeeps, Footprint
  <2>5. CASE v = t
    BY <2>1, <2>2, <2>5 DEF Serial, OneByOne, StepKeeps, Footprint
  <2> QED
    BY <2>3, <2>4, <2>5
<1>2. ReadsHold'
  <2> SUFFICES ASSUME NEW u \in Threads, job'[u] # Idle, job'[u].account \notin overlapped'
               PROVE  UpToDate(u)'
    BY DEF ReadsHold
  <2>1. CASE u = t
    BY <2>1 DEF StepKeeps
  <2>2. CASE u # t
    <3> DEFINE a == job[u].account
    <3>1. job'[u] = job[u] /\ a \notin overlapped /\ UpToDate(u)
      BY <2>2 DEF StepKeeps, Footprint, Serial, ReadsHold
    <3>2. a \in Accounts
      BY <3>1, JobOfKind DEF Serial, Typed
    <3>3. Busy(u, a) /\ ~Busy(t, a)
      BY <2>2, <3>1, <3>2 DEF Serial, OneByOne, Busy
    <3>4. active'[a] = active[a] /\ bound'[a] = bound[a] /\ jti'[a] = jti[a]
      BY <3>2, <3>3 DEF StepKeeps, Footprint
    <3> QED
      BY <3>1, <3>4 DEF UpToDate, See
  <2> QED
    BY <2>1, <2>2
<1> QED
  BY <1>1, <1>2 DEF Serial, StepKeeps

LEMMA StepOfKeeps ==
  ASSUME Serial, NEW t \in Threads, PhoneStep(t) \/ ServerStep(t)
  PROVE  StepKeeps(t)
<1>1. CASE PhoneStep(t)
  BY <1>1, StartKeeps, GiveUpKeeps, GetAnswerKeeps DEF PhoneStep
<1>2. CASE ServerStep(t)
  BY <1>2, ReadsKeep, LoginBindsKeeps, CommitPairKeeps, CommitLogoutKeeps, AdminKeeps
  DEF ServerStep, AdminKinds
<1> QED
  BY <1>1, <1>2

LEMMA NextSerial ==
  ASSUME Serial, [Next]_vars
  PROVE  Serial'
<1>1. Typed'
  BY NextTyped DEF Serial
<1>2. CASE Next
  <2>1. PICK t \in Threads : PhoneStep(t) \/ ServerStep(t)
    BY <1>2 DEF Next
  <2>2. StepKeeps(t)
    BY <2>1, StepOfKeeps
  <2> QED
    BY <1>1, <2>2, StepKeepsSerial
<1>3. CASE UNCHANGED vars
  BY <1>1, <1>3 DEF Serial, OneByOne, ReadsHold, UpToDate, OffMeansRevoked, Busy, See, vars, users, trouble
<1> QED
  BY <1>2, <1>3

LEMMA InitSerial == Init => Serial
<1> SUFFICES ASSUME Init PROVE Serial
  OBVIOUS
<1>1. \A t \in Threads : job[t] = Idle
  BY DEF Init
<1>2. OneByOne /\ ReadsHold
  BY <1>1 DEF OneByOne, ReadsHold, Busy
<1>3. OffMeansRevoked
  BY DEF Init, OffMeansRevoked
<1> QED
  BY <1>2, <1>3, InitTyped DEF Serial

\* An account that is off has no refresh token, unless two requests about it
\* overlapped: whoever switched it off, and whatever phones did meanwhile.
THEOREM OffIsRevoked == Spec => []OffMeansRevoked
<1>1. Serial => OffMeansRevoked
  BY DEF Serial
<1> QED
  BY <1>1, InitSerial, NextSerial, PTL DEF Spec

\* A refresh takes effect only with the token that counts, unless another
\* request of the account overlaps it.
THEOREM RotationsAreCurrent == Spec => OnlyCurrentTokenRotates
<1>1. ASSUME Serial, NEW t \in Threads, job[t].kind = "refresh", job[t].stage = "commit"
      PROVE  jti[job[t].account] = job[t].token \/ job[t].account \in overlapped
  <2>1. job[t] # Idle
    BY <1>1 DEF Idle
  <2> QED
    BY <1>1, <2>1 DEF Serial, ReadsHold, UpToDate
<1>2. Serial /\ [Next]_vars =>
        [\A t \in Threads :
           (job[t].kind = "refresh" /\ job[t].stage = "commit" /\ job'[t].stage = "ok")
             => \/ jti[job[t].account] = job[t].token
                \/ job[t].account \in overlapped]_vars
  BY <1>1
<1> QED
  BY <1>2, InitSerial, NextSerial, PTL DEF Spec, OnlyCurrentTokenRotates

\* A student's account changes phones only by way of none, unless two
\* requests of the account overlap.
THEOREM MovesAreUnbinds == Spec => MovesOnlyByUnbind
<1>1. ASSUME Serial, [Next]_vars, NEW a \in Students \ overlapped,
             bound[a] # NoPhone, bound'[a] # bound[a]
      PROVE  bound'[a] = NoPhone
  <2> SUFFICES ASSUME bound'[a] # NoPhone PROVE FALSE
    OBVIOUS
  <2>1. a \in Accounts
    BY AccountAssumption
  <2>2. PICK t \in Threads : LoginBinds(t) /\ job[t].account = a
    BY <1>1, <2>1, BoundByLogins DEF Serial
  <2>3. job[t] # Idle /\ job[t].kind = "login" /\ job[t].stage = "bind"
    BY <2>2 DEF LoginBinds, Idle
  <2> QED
    BY <1>1, <2>2, <2>3 DEF Serial, ReadsHold, UpToDate
<1>2. Serial /\ [Next]_vars =>
        [\A a \in Students \ overlapped :
           bound[a] # NoPhone /\ bound'[a] # bound[a] => bound'[a] = NoPhone]_vars
  BY <1>1
<1> QED
  BY <1>2, InitSerial, NextSerial, PTL DEF Spec, MovesOnlyByUnbind

-----------------------------------------------------------------------------
(* Sessions that end *)

\* Phone p has, or is about to be given, refresh token k.
Holds(p, k) ==
  \/ session[p].token = k
  \/ \E t \in Threads : FromPhone(t) /\ job[t].phone = p /\ job[t].token = k

\* A refresh token is in the hands of one phone, and was made.
TokensApart ==
  \A k \in Tokens \ {0} :
    /\ \A p, q \in Phones : Holds(p, k) /\ Holds(q, k) => p = q
    /\ \A p \in Phones : Holds(p, k) => k <= issued

\* Nothing went wrong so far, and no two requests overlapped.
Calm == ~disturbed /\ overlapped = {}

LogsIn(t) == job[t].kind = "login"
Renews(t) == job[t].kind \in {"refresh", "password"}

\* The request t is at work on is still about the session of its phone, ...
InStep(t) ==
  LET j == job[t]
      p == job[t].phone
  IN  /\ LogsIn(t) => session[p] = SignedOut
      /\ Renews(t) => session[p] # SignedOut /\ session[p].account = j.account
      /\ j.kind = "refresh" /\ j.stage # "ok" => j.token = session[p].token
      /\ LogsIn(t) \/ Renews(t) => j.waiting /\ j.stage # "failed"
      /\ j.kind = "refresh" /\ j.stage = "refused" => ~entitled[p]
      /\ Renews(t) /\ j.stage = "ok" /\ entitled[p] => jti[j.account] = j.token

\* ... and a session nobody ended is one the server still answers to: the
\* phone has its token, or an answer with it is on the way.
Current(p) ==
  entitled[p] =>
    /\ session[p] # SignedOut
    /\ active[session[p].account]
    /\ \/ jti[session[p].account] = session[p].token
       \/ \E t \in Threads : Renews(t) /\ job[t].phone = p /\ job[t].stage = "ok"

OneLogin ==
  \A t, u \in Threads : LogsIn(t) /\ LogsIn(u) /\ job[t].phone = job[u].phone => t = u

InOrder ==
  Calm => /\ \A t \in Threads : InStep(t)
          /\ OneLogin
          /\ \A p \in Phones : Current(p)

LEMMA JobsSpeak ==
  ASSUME Typed, NEW t \in Threads, FromPhone(t)
  PROVE  job[t] \in PhoneJob /\ job[t] # Idle /\ job[t].phone \in Phones /\ job[t].account \in Accounts
  BY JobOfKind, PhoneJobFields DEF FromPhone, PhoneKinds, Typed

\* The job thread t has next, where its step is one of a phone's request that
\* goes on: the same request with another stage, and perhaps a newer token.
LEMMA RequestGoesOn ==
  ASSUME Typed, NEW t \in Threads,
         GiveUp(t) \/ LoginReads(t) \/ LoginBinds(t) \/ RequestReads(t)
           \/ CommitPair(t) \/ CommitLogout(t) \/ CommitFails(t)
  PROVE  /\ FromPhone(t) /\ job[t] \in PhoneJob
         /\ \A u \in Threads \ {t} : job'[u] = job[u]
         /\ job'[t].kind = job[t].kind /\ job'[t].phone = job[t].phone
         /\ job'[t].account = job[t].account
         /\ ~CommitPair(t) => job'[t].token = job[t].token
         /\ ~GiveUp(t) => job'[t].waiting = job[t].waiting
<1>1. job[t] \in PhoneJob /\ FromPhone(t)
  BY JobOfKind DEF GiveUp, LoginReads, LoginBinds, RequestReads, CommitPair, CommitLogout,
     CommitFails, FromPhone, PhoneKinds, Typed
<1>2. job \in [Threads -> PhoneJob \cup AdminJob \cup {Idle}]
  BY DEF Typed, TypeOK
<1>3. CASE GiveUp(t)
  <2>1. job' = [job EXCEPT ![t].waiting = FALSE]
    BY <1>3 DEF GiveUp
  <2> QED
    BY <1>1, <1>2, <1>3, <2>1 DEF PhoneJob
<1>4. CASE CommitPair(t)
  <2>1. job' = [job EXCEPT ![t].stage = "ok", ![t].token = issued']
    BY <1>4 DEF CommitPair
  <2> QED
    BY <1>1, <1>2, <1>4, <2>1 DEF PhoneJob
<1>5. CASE ~GiveUp(t) /\ ~CommitPair(t)
  <2>1. PICK stage : Stage(t, stage) \/ Proceed(t, stage)
    BY <1>5 DEF LoginReads, LoginBinds, RequestReads, CommitLogout, CommitFails
  <2>2. CASE Stage(t, stage)
    <3>1. job' = [job EXCEPT ![t].stage = stage]
      BY <2>2 DEF Stage
    <3> QED
      BY <1>1, <1>2, <3>1 DEF PhoneJob
  <2>3. CASE Proceed(t, stage)
    <3>1. job' = [job EXCEPT ![t].stage = stage, ![t].seen = See(job[t].account)]
      BY <2>3 DEF Proceed
    <3> QED
      BY <1>1, <1>2, <3>1 DEF PhoneJob
  <2> QED
    BY <2>1, <2>2, <2>3
<1> QED
  BY <1>3, <1>4, <1>5

\* The stage it is at next.
LEMMA StagesFollow ==
  ASSUME Typed, NEW t \in Threads
  PROVE  /\ LoginReads(t) => job[t].stage = "sent" /\ job'[t].stage \in {"bind", "commit", "refused"}
         /\ LoginBinds(t) => job[t].stage = "bind" /\ job'[t].stage \in {"commit", "refused"}
         /\ RequestReads(t) => job[t].stage = "sent" /\ job'[t].stage \in {"commit", "refused"}
         /\ CommitPair(t) => job[t].stage = "commit" /\ job'[t].stage = "ok" /\ job'[t].token = issued'
<1>1. job \in [Threads -> PhoneJob \cup AdminJob \cup {Idle}]
  BY DEF Typed, TypeOK
<1>2. ASSUME NEW stage, Stage(t, stage) \/ Proceed(t, stage), job[t] \in PhoneJob
      PROVE  job'[t].stage = stage
  BY <1>1, <1>2 DEF Stage, Proceed, PhoneJob
<1>3. CASE LoginReads(t) \/ LoginBinds(t) \/ RequestReads(t)
  <2>1. job[t] \in PhoneJob
    BY <1>3, RequestGoesOn
  <2>2. LoginReads(t) => job[t].stage = "sent" /\ job'[t].stage \in {"bind", "commit", "refused"}
    BY <1>2, <2>1 DEF LoginReads
  <2>3. LoginBinds(t) => job[t].stage = "bind" /\ job'[t].stage \in {"commit", "refused"}
    BY <1>2, <2>1 DEF LoginBinds
  <2>4. RequestReads(t) => job[t].stage = "sent" /\ job'[t].stage \in {"commit", "refused"}
    BY <1>2, <2>1 DEF RequestReads
  <2>5. ~CommitPair(t)
    BY <1>3 DEF LoginReads, LoginBinds, RequestReads, CommitPair
  <2> QED
    BY <2>2, <2>3, <2>4, <2>5
<1>4. CASE CommitPair(t)
  <2>1. job[t] \in PhoneJob
    BY <1>4, RequestGoesOn
  <2>2. job' = [job EXCEPT ![t].stage = "ok", ![t].token = issued']
    BY <1>4 DEF CommitPair
  <2>3. job'[t].stage = "ok" /\ job'[t].token = issued'
    BY <1>1, <2>1, <2>2 DEF PhoneJob
  <2> QED
    BY <1>4, <2>3 DEF LoginReads, LoginBinds, RequestReads, CommitPair
<1> QED
  BY <1>3, <1>4

\* A request a phone sends is about the session it has, or signs in, or out.
LEMMA RequestBegins ==
  ASSUME Typed, NEW t \in Threads, NEW p \in Phones,
         \/ \E a \in Accounts : StartLogin(t, p, a)
         \/ StartRefresh(t, p) \/ StartChangePassword(t, p) \/ SignOut(t, p)
  PROVE  /\ job[t] = Idle /\ job'[t].phone = p /\ job'[t].stage = "sent"
         /\ \A u \in Threads \ {t} : job'[u] = job[u]
         /\ \/ /\ \E a \in Accounts : StartLogin(t, p, a)
               /\ job'[t].kind = "login" /\ job'[t].token = 0 /\ job'[t].waiting
            \/ /\ StartRefresh(t, p) \/ StartChangePassword(t, p) \/ SignOut(t, p)
               /\ job'[t].account = session[p].account /\ job'[t].token = session[p].token
         /\ StartRefresh(t, p) => job'[t].kind = "refresh" /\ job'[t].waiting
         /\ StartChangePassword(t, p) => job'[t].kind = "password" /\ job'[t].waiting
         /\ SignOut(t, p) => job'[t].kind = "logout"
         /\ ~SignOut(t, p) => UNCHANGED <<session, entitled>>
         /\ UNCHANGED users /\ UNCHANGED <<issued, disturbed>>
<1>0. job \in [Threads -> PhoneJob \cup AdminJob \cup {Idle}]
  BY DEF Typed, TypeOK
<1>1. ASSUME NEW kind, NEW a, NEW token, NEW waiting, Send(t, p, kind, a, token, waiting)
      PROVE  /\ job[t] = Idle /\ job'[t].phone = p /\ job'[t].stage = "sent"
             /\ job'[t].kind = kind /\ job'[t].account = a /\ job'[t].token = token
             /\ job'[t].waiting = waiting
             /\ \A u \in Threads \ {t} : job'[u] = job[u]
             /\ UNCHANGED disturbed
  BY <1>0, <1>1 DEF Send, TakesUp
<1>2. CASE \E a \in Accounts : StartLogin(t, p, a)
  <2>1. PICK a \in Accounts : StartLogin(t, p, a)
    BY <1>2
  <2>2. Send(t, p, "login", a, 0, TRUE)
    BY <2>1 DEF StartLogin
  <2>3. session[p] = SignedOut
    BY <2>1 DEF StartLogin
  <2> QED
    BY <1>1, <1>2, <2>1, <2>2, <2>3 DEF StartLogin, StartRefresh, StartChangePassword, SignOut
<1>3. CASE StartRefresh(t, p)
  <2>1. Send(t, p, "refresh", session[p].account, session[p].token, TRUE)
    BY <1>3 DEF StartRefresh
  <2>2. ~StartChangePassword(t, p) /\ ~SignOut(t, p)
    BY <1>1, <2>1 DEF StartChangePassword, SignOut
  <2> QED
    BY <1>1, <1>3, <2>1, <2>2 DEF StartRefresh
<1>4. CASE StartChangePassword(t, p)
  <2>1. Send(t, p, "password", session[p].account, session[p].token, TRUE)
    BY <1>4 DEF StartChangePassword
  <2>2. ~StartRefresh(t, p) /\ ~SignOut(t, p)
    BY <1>1, <2>1 DEF StartRefresh, SignOut
  <2> QED
    BY <1>1, <1>4, <2>1, <2>2 DEF StartChangePassword
<1>5. CASE SignOut(t, p)
  <2>1. Send(t, p, "logout", session[p].account, session[p].token, FALSE)
    BY <1>5 DEF SignOut
  <2>2. ~StartRefresh(t, p) /\ ~StartChangePassword(t, p)
    BY <1>1, <2>1 DEF StartRefresh, StartChangePassword
  <2> QED
    BY <1>1, <1>5, <2>1, <2>2 DEF SignOut
<1> QED
  BY <1>2, <1>3, <1>4, <1>5

\* Which of the answer's three ends it comes to: the pair stored, the phone
\* signed out and saying so, or nothing.
Answers(t, stored, rejected) ==
  LET j == job[t]
      p == job[t].phone
  IN  /\ FromPhone(t) /\ j.stage \in {"ok", "refused", "failed"}
      /\ stored <=> j.waiting /\ j.stage = "ok" /\ (j.kind = "password" => session[p] # SignedOut)
      /\ rejected <=> j.waiting /\ j.kind = "refresh" /\ j.stage # "ok" /\ session[p] # SignedOut
      /\ stored => /\ session'[p] = Stored(j) /\ Stored(j) # SignedOut
                   /\ j.kind # "refresh" =>
                        (entitled'[p] => active[j.account] /\ jti[j.account] = j.token)
      /\ rejected => /\ session'[p] = SignedOut
                     /\ job'[t].kind = "logout" /\ job'[t].phone = p
                     /\ job'[t].token = session[p].token /\ job'[t].account = session[p].account
      /\ ~rejected => job'[t] = Idle
      /\ ~stored /\ ~rejected => session' = session
      /\ ~stored \/ j.kind = "refresh" => entitled' = entitled
      /\ \A q \in Phones \ {p} : session'[q] = session[q] /\ entitled'[q] = entitled[q]
      /\ \A u \in Threads \ {t} : job'[u] = job[u]
      /\ UNCHANGED users /\ UNCHANGED issued

LEMMA AnswersEnd ==
  ASSUME Typed, NEW t \in Threads, GetAnswer(t)
  PROVE  \E stored, rejected \in BOOLEAN : Answers(t, stored, rejected)
<1> DEFINE j == job[t]
           p == j.phone
           stored == /\ j.waiting /\ j.stage = "ok"
                     /\ j.kind = "password" => session[p] # SignedOut
           rejected == j.waiting /\ j.kind = "refresh" /\ j.stage # "ok" /\ session[p] # SignedOut
           again == [j EXCEPT !.kind = "logout", !.account = session[p].account,
                              !.token = session[p].token, !.stage = "sent",
                              !.waiting = FALSE, !.seen = See(session[p].account)]
<1>1. FromPhone(t) /\ j \in PhoneJob /\ p \in Phones
  BY JobsSpeak DEF GetAnswer
<1>2. /\ job \in [Threads -> PhoneJob \cup AdminJob \cup {Idle}]
      /\ session \in [Phones -> Session \cup {SignedOut}] /\ entitled \in [Phones -> BOOLEAN]
  BY DEF Typed, TypeOK
<1>3. /\ stored => session' = [session EXCEPT ![p] = Stored(j)]
      /\ ~stored /\ rejected => session' = [session EXCEPT ![p] = SignedOut]
      /\ ~stored /\ ~rejected => session' = session
  BY DEF GetAnswer
<1>4. /\ stored /\ j.kind # "refresh" =>
           entitled' = [entitled EXCEPT ![p] = active[j.account] /\ jti[j.account] = j.token]
      /\ ~stored \/ j.kind = "refresh" => entitled' = entitled
  BY DEF GetAnswer
<1>5. /\ rejected => job' = [job EXCEPT ![t] = again]
      /\ ~rejected => job' = [job EXCEPT ![t] = Idle]
  BY DEF GetAnswer
<1>6. stored => Stored(j) # SignedOut
  BY <1>1 DEF Typed, JobsSound, Stored, SignedOut
<1>7. again.kind = "logout" /\ again.phone = p /\ again.token = session[p].token
      /\ again.account = session[p].account
  BY <1>1 DEF PhoneJob
<1>8. j.stage \in {"ok", "refused", "failed"} /\ UNCHANGED users /\ UNCHANGED issued
  BY DEF GetAnswer
<1>9. ~(stored /\ rejected)
  OBVIOUS
<1> HIDE DEF again
<1>10. Answers(t, stored, rejected)
  <2>1. stored => session'[p] = Stored(j)
    BY <1>1, <1>2, <1>3
  <2>2. stored /\ j.kind # "refresh" =>
          (entitled'[p] => active[j.account] /\ jti[j.account] = j.token)
    BY <1>1, <1>2, <1>4
  <2>3. rejected => /\ session'[p] = SignedOut
                    /\ job'[t].kind = "logout" /\ job'[t].phone = p
                    /\ job'[t].token = session[p].token /\ job'[t].account = session[p].account
    BY <1>1, <1>2, <1>3, <1>5, <1>7, <1>9
  <2>4. ~rejected => job'[t] = Idle
    BY <1>2, <1>5
  <2>5. \A u \in Threads \ {t} : job'[u] = job[u]
    BY <1>2, <1>5
  <2>6. \A q \in Phones \ {p} : session'[q] = session[q] /\ entitled'[q] = entitled[q]
    BY <1>2, <1>3, <1>4
  <2> QED
    BY <1>1, <1>3, <1>4, <1>6, <1>8, <2>1, <2>2, <2>3, <2>4, <2>5, <2>6 DEF Answers
<1> QED
  BY <1>10

\* A phone comes by a token in a step only as the new one of its request.
LEMMA HoldsOnly ==
  ASSUME Typed, NEW t \in Threads, PhoneStep(t) \/ ServerStep(t),
         NEW p \in Phones, NEW k \in Tokens \ {0}, Holds(p, k)'
  PROVE  \/ Holds(p, k)
         \/ CommitPair(t) /\ k = issued' /\ p = job[t].phone
<1> DEFINE Left == /\ session'[p].token = k => Holds(p, k)
                   /\ \A u \in Threads \ {t} : job'[u] = job[u]
                   /\ FromPhone(t)' /\ job'[t].phone = p /\ job'[t].token = k => Holds(p, k)
<1>1. ASSUME Left PROVE Holds(p, k)
  <2>1. CASE session'[p].token = k
    BY <1>1, <2>1
  <2>2. CASE session'[p].token # k
    <3>1. PICK u \in Threads : FromPhone(u)' /\ job'[u].phone = p /\ job'[u].token = k
      BY <2>2 DEF Holds
    <3>2. CASE u = t
      BY <1>1, <3>1, <3>2
    <3>3. CASE u # t
      BY <1>1, <3>1, <3>3 DEF Holds, FromPhone
    <3> QED
      BY <3>2, <3>3
  <2> QED
    BY <2>1, <2>2
<1>2. ASSUME NEW q \in Phones,
             \/ \E a \in Accounts : StartLogin(t, q, a)
             \/ StartRefresh(t, q) \/ StartChangePassword(t, q) \/ SignOut(t, q)
      PROVE  Left
  <2>1. session'[p].token = k => session[p].token = k
    <3>1. session' = session \/ session' = [session EXCEPT ![q] = SignedOut]
      BY <1>2 DEF StartLogin, StartRefresh, StartChangePassword, SignOut
    <3> QED
      BY <3>1 DEF Typed, TypeOK, SignedOut
  <2>2. job'[t].phone = q /\ job'[t].token \in {0, session[q].token}
    BY <1>2, RequestBegins
  <2>3. \A u \in Threads \ {t} : job'[u] = job[u]
    BY <1>2, RequestBegins
  <2> QED
    BY <2>1, <2>2, <2>3 DEF Holds
<1>3. CASE GetAnswer(t)
  <2>1. PICK stored, rejected \in BOOLEAN : Answers(t, stored, rejected)
    BY <1>3, AnswersEnd
  <2>2. FromPhone(t) /\ \A u \in Threads \ {t} : job'[u] = job[u]
    BY <2>1 DEF Answers
  <2>3. session'[p].token = k => session[p].token = k \/ (p = job[t].phone /\ job[t].token = k)
    <3>1. CASE p # job[t].phone
      BY <2>1, <3>1 DEF Answers
    <3>2. CASE p = job[t].phone
      <4>1. \/ session'[p] = Stored(job[t]) \/ session'[p] = SignedOut
            \/ session'[p] = session[p]
        BY <2>1, <3>2 DEF Answers
      <4> QED
        BY <3>2, <4>1 DEF Stored, SignedOut
    <3> QED
      BY <3>1, <3>2
  <2>4. FromPhone(t)' /\ job'[t].phone = p /\ job'[t].token = k => session[p].token = k
    BY <2>1 DEF Answers, FromPhone, Idle
  <2> QED
    BY <2>2, <2>3, <2>4, <1>1 DEF Holds
<1>4. CASE GiveUp(t) \/ LoginReads(t) \/ LoginBinds(t) \/ RequestReads(t)
           \/ CommitPair(t) \/ CommitLogout(t) \/ CommitFails(t)
  <2>1. session' = session
    BY <1>4 DEF GiveUp, LoginReads, LoginBinds, RequestReads, CommitPair, CommitLogout, CommitFails
  <2>2. /\ FromPhone(t) /\ job'[t].phone = job[t].phone
        /\ \A u \in Threads \ {t} : job'[u] = job[u]
        /\ ~CommitPair(t) => job'[t].token = job[t].token
    BY <1>4, RequestGoesOn
  <2>3. CASE ~CommitPair(t)
    BY <1>1, <2>1, <2>2, <2>3 DEF Holds
  <2>4. CASE CommitPair(t)
    <3>1. job'[t].token = issued'
      BY <2>4, StagesFollow
    <3>2. CASE job'[t].phone = p /\ job'[t].token = k
      BY <2>2, <2>4, <3>1, <3>2
    <3>3. CASE ~(job'[t].phone = p /\ job'[t].token = k)
      BY <1>1, <2>1, <2>2, <3>3 DEF Holds
    <3> QED
      BY <3>2, <3>3
  <2> QED
    BY <2>3, <2>4
<1>5. CASE AdminCommits(t) \/ \E a \in Accounts, kind \in AdminKinds : AdminReads(t, kind, a)
  <2>1. session' = session
    BY <1>5 DEF AdminCommits, AdminReads
  <2>2. /\ \A u \in Threads \ {t} : job'[u] = job[u]
        /\ job'[t].kind \in AdminKinds \cup {"idle"}
    BY <1>5 DEF AdminCommits, AdminReads, Typed, TypeOK, Idle
  <2> QED
    BY <1>1, <2>1, <2>2 DEF Holds, FromPhone, AdminKinds
<1> QED
  BY <1>1, <1>2, <1>3, <1>4, <1>5 DEF PhoneStep, ServerStep, AdminKinds

LEMMA NextTokensApart ==
  ASSUME Typed, Typed', TokensApart, [Next]_vars
  PROVE  TokensApart'
<1>1. CASE UNCHANGED vars
  BY <1>1 DEF vars, TokensApart, Holds, FromPhone
<1>2. ASSUME NEW t \in Threads, PhoneStep(t) \/ ServerStep(t)
      PROVE  TokensApart'
  <2>1. issued \in Int /\ issued' \in Int
    BY AccountAssumption DEF Typed, TypeOK, Tokens
  <2>2. CASE ~CommitPair(t)
    <3>1. issued' = issued
      BY <1>2, <2>2 DEF PhoneStep, ServerStep, StartLogin, StartRefresh, StartChangePassword,
         SignOut, GiveUp, GetAnswer, LoginReads, LoginBinds, RequestReads, CommitLogout,
         CommitFails, AdminCommits, AdminReads
    <3>2. \A p \in Phones, k \in Tokens \ {0} : Holds(p, k)' => Holds(p, k)
      BY <1>2, <2>2, HoldsOnly
    <3> QED
      BY <3>1, <3>2 DEF TokensApart
  <2>3. CASE CommitPair(t)
    <3>1. issued' = issued + 1
      BY <2>3 DEF CommitPair
    <3>2. \A p \in Phones, k \in Tokens \ {0} :
            Holds(p, k)' => Holds(p, k) \/ (k = issued' /\ p = job[t].phone)
      BY <1>2, HoldsOnly
    <3>3. \A p \in Phones, k \in Tokens \ {0} : Holds(p, k) => k <= issued
      BY DEF TokensApart
    <3>4. \A k \in Tokens : k \in Int
      BY AccountAssumption DEF Tokens
    <3>5. ASSUME NEW k \in Tokens \ {0}, NEW p \in Phones, Holds(p, k)'
          PROVE  k <= issued'
      BY <2>1, <3>1, <3>2, <3>3, <3>4, <3>5
    <3>6. ASSUME NEW k \in Tokens \ {0}, NEW p \in Phones, NEW q \in Phones, Holds(p, k)', Holds(q, k)'
          PROVE  p = q
      <4>1. CASE k = issued'
        <5>1. ~(k <= issued)
          BY <2>1, <3>1, <4>1
        <5> QED
          BY <3>2, <3>3, <3>6, <5>1
      <4>2. CASE k # issued'
        BY <3>2, <3>6, <4>2 DEF TokensApart
      <4> QED
        BY <4>1, <4>2
    <3> QED
      BY <3>5, <3>6 DEF TokensApart
  <2> QED
    BY <2>2, <2>3
<1> QED
  BY <1>1, <1>2 DEF Next

\* Whoever takes part in a phone's session speaks for a phone.
LEMMA Partakes ==
  ASSUME Typed, NEW t \in Threads, LogsIn(t) \/ Renews(t)
  PROVE  /\ FromPhone(t) /\ job[t] # Idle /\ job[t].phone \in Phones /\ job[t].account \in Accounts
         /\ ~(LogsIn(t) /\ Renews(t))
<1>1. FromPhone(t)
  BY DEF LogsIn, Renews, FromPhone
<1> QED
  BY <1>1, JobsSpeak DEF LogsIn, Renews

\* A session is changed, or given to its phone again, only by its own user's
\* sign-out or by the answer of a request of the phone.
LEMMA SessionMoves ==
  ASSUME Typed, NEW t \in Threads, PhoneStep(t) \/ ServerStep(t), NEW p \in Phones,
         session'[p] # session[p] \/ (entitled'[p] /\ ~entitled[p])
  PROVE  \/ SignOut(t, p)
         \/ GetAnswer(t) /\ job[t].phone = p /\ job[t].waiting /\ (LogsIn(t) \/ Renews(t))
<1>1. CASE GetAnswer(t)
  <2>1. PICK stored, rejected \in BOOLEAN : Answers(t, stored, rejected)
    BY <1>1, AnswersEnd
  <2>2. job[t].phone = p
    BY <2>1 DEF Answers
  <2>3. stored \/ rejected
    BY <2>1, <2>2 DEF Answers
  <2>4. job[t].waiting
    BY <2>1, <2>3 DEF Answers
  <2>5. job[t].kind # "logout"
    BY <2>4 DEF Typed, JobsSound
  <2> QED
    BY <1>1, <2>1, <2>2, <2>4, <2>5 DEF Answers, FromPhone, LogsIn, Renews
<1>2. ASSUME NEW q \in Phones, SignOut(t, q)
      PROVE  SignOut(t, p)
  <2>1. p = q
    BY <1>2 DEF SignOut, Typed, TypeOK
  <2> QED
    BY <1>2, <2>1
<1>3. CASE ~GetAnswer(t) /\ ~(\E q \in Phones : SignOut(t, q))
  <2>1. session' = session
    BY <1>3 DEF PhoneStep, ServerStep, StartLogin, StartRefresh, StartChangePassword,
       GiveUp, LoginReads, LoginBinds, RequestReads, CommitPair, CommitLogout,
       CommitFails, AdminCommits, AdminReads
  <2>2. entitled' = entitled \/ \E a, q : EndOthers(a, q)
    BY <1>3 DEF PhoneStep, ServerStep, StartLogin, StartRefresh, StartChangePassword,
       GiveUp, LoginReads, LoginBinds, RequestReads, CommitPair, CommitLogout,
       CommitFails, AdminCommits, AdminReads
  <2>3. entitled'[p] => entitled[p]
    BY <2>2 DEF EndOthers
  <2> QED
    BY <2>1, <2>3
<1> QED
  BY <1>1, <1>2, <1>3

LEMMA CalmBefore ==
  ASSUME Serial, NEW t \in Threads, PhoneStep(t) \/ ServerStep(t), StepKeeps(t), Calm'
  PROVE  Calm /\ ~GiveUp(t) /\ ~CommitFails(t)
<1>1. overlapped = {}
  BY DEF StepKeeps, Footprint, Calm
<1>2. disturbed => disturbed'
  BY DEF PhoneStep, ServerStep, StartLogin, StartRefresh, StartChangePassword, SignOut, Send,
     TakesUp, GiveUp, GetAnswer, LoginReads, LoginBinds, RequestReads, CommitPair, CommitLogout,
     CommitFails, AdminCommits, AdminReads, trouble
<1>3. ~GiveUp(t) /\ ~CommitFails(t)
  BY DEF GiveUp, CommitFails, Calm
<1> QED
  BY <1>1, <1>2, <1>3 DEF Calm

\* One request of an account at a time.
LEMMA Alone ==
  ASSUME Serial, overlapped = {}, NEW t \in Threads, NEW u \in Threads, job[t] # Idle, job[u] # Idle,
         job[t].account = job[u].account
  PROVE  t = u
<1>1. job[t].account \in Accounts
  BY JobOfKind DEF Serial, Typed
<1> QED
  BY <1>1 DEF Serial, OneByOne, Busy

LEMMA AloneNext ==
  ASSUME Serial', overlapped' = {}, NEW t \in Threads, NEW u \in Threads, NEW a \in Accounts,
         job'[t] # Idle, job'[u] # Idle, job'[t].account = a, job'[u].account = a
  PROVE  t = u
<1>1. a \in Accounts \ overlapped' /\ Busy(t, a)' /\ Busy(u, a)'
  BY DEF Busy
<1> QED
  BY <1>1 DEF Serial, OneByOne

\* A step of t leaves the phones alone that the others speak for.
LEMMA OthersLeft ==
  ASSUME Serial, Serial', InOrder, NEW t \in Threads, PhoneStep(t) \/ ServerStep(t), StepKeeps(t),
         Calm', NEW u \in Threads \ {t}, LogsIn(u) \/ Renews(u)
  PROVE  /\ job'[u] = job[u]
         /\ session'[job[u].phone] = session[job[u].phone]
         /\ entitled'[job[u].phone] => entitled[job[u].phone]
         /\ jti'[job[u].account] = jti[job[u].account]
<1> DEFINE p == job[u].phone
<1>1. Calm /\ InStep(t) /\ InStep(u) /\ OneLogin
  BY CalmBefore DEF InOrder
<1>2. job[u] # Idle /\ p \in Phones /\ job[u].account \in Accounts
  BY Partakes DEF Serial
<1>3. job'[u] = job[u]
  BY DEF StepKeeps, Footprint
<1>4. job[t] # Idle => job[t].account # job[u].account
  BY <1>1, <1>2, Alone DEF Calm
<1>5. jti'[job[u].account] = jti[job[u].account]
  BY <1>2, <1>4 DEF StepKeeps, Footprint, Busy
<1>6. ASSUME session'[p] # session[p] \/ (entitled'[p] /\ ~entitled[p])
      PROVE  FALSE
  <2>1. CASE SignOut(t, p)
    <3>1. session[p] # SignedOut /\ job'[t].account = session[p].account /\ job'[t].kind = "logout"
      BY <1>2, <2>1, RequestBegins DEF SignOut, Serial
    <3>2. Renews(u) /\ session[p].account = job[u].account
      BY <1>1, <3>1 DEF InStep
    <3>3. job'[t] # Idle /\ job'[u] # Idle /\ job'[t].account = job'[u].account
      BY <1>2, <1>3, <3>1, <3>2 DEF Idle
    <3> QED
      BY <1>2, <1>3, <3>1, <3>2, <3>3, AloneNext DEF Calm
  <2>2. CASE GetAnswer(t) /\ job[t].phone = p /\ (LogsIn(t) \/ Renews(t))
    <3>1. job[t] # Idle
      BY <2>2, Partakes DEF Serial
    <3>2. CASE session[p] = SignedOut
      <4>1. LogsIn(t) /\ LogsIn(u)
        BY <1>1, <2>2, <3>2 DEF InStep
      <4> QED
        BY <1>1, <2>2, <4>1 DEF OneLogin
    <3>3. CASE session[p] # SignedOut
      BY <1>1, <1>4, <2>2, <3>1, <3>3 DEF InStep
    <3> QED
      BY <3>2, <3>3
  <2> QED
    BY <1>2, <1>6, <2>1, <2>2, SessionMoves DEF Serial
<1> QED
  BY <1>3, <1>5, <1>6

LEMMA OthersInStep ==
  ASSUME Serial, Serial', InOrder, NEW t \in Threads, PhoneStep(t) \/ ServerStep(t), StepKeeps(t),
         Calm', NEW u \in Threads \ {t}
  PROVE  InStep(u)'
<1>1. job'[u] = job[u]
  BY DEF StepKeeps, Footprint
<1>2. CASE ~(LogsIn(u) \/ Renews(u))
  BY <1>1, <1>2 DEF InStep, LogsIn, Renews
<1>3. CASE LogsIn(u) \/ Renews(u)
  <2>1. InStep(u)
    BY CalmBefore DEF InOrder
  <2>2. /\ session'[job[u].phone] = session[job[u].phone]
        /\ entitled'[job[u].phone] => entitled[job[u].phone]
        /\ jti'[job[u].account] = jti[job[u].account]
    BY <1>3, OthersLeft
  <2> QED
    BY <1>1, <2>1, <2>2 DEF InStep, LogsIn, Renews
<1> QED
  BY <1>2, <1>3

\* A refresh is refused only to a phone whose session was ended.
LEMMA RefusedWereEnded ==
  ASSUME Serial, InOrder, Calm, NEW t \in Threads, RequestReads(t), job[t].kind = "refresh",
         job'[t].stage = "refused"
  PROVE  ~entitled[job[t].phone]
<1> DEFINE p == job[t].phone
<1>1. Renews(t) /\ job[t].stage = "sent"
  BY DEF Renews, RequestReads
<1>2. /\ p \in Phones /\ job[t] # Idle /\ session[p] # SignedOut
      /\ session[p].account = job[t].account /\ job[t].token = session[p].token
  BY <1>1, Partakes DEF Serial, InOrder, InStep
<1>3. SUFFICES ASSUME entitled[p] PROVE FALSE
  OBVIOUS
<1>4. /\ active[job[t].account]
      /\ \/ jti[job[t].account] = session[p].token
         \/ \E u \in Threads : Renews(u) /\ job[u].phone = p /\ job[u].stage = "ok"
  BY <1>2, <1>3 DEF InOrder, Current
<1>5. ASSUME NEW u \in Threads, Renews(u), job[u].phone = p, job[u].stage = "ok"
      PROVE  FALSE
  <2>1. job[u] # Idle /\ session[p].account = job[u].account
    BY <1>5, Partakes DEF Serial, InOrder, InStep
  <2> QED
    BY <1>1, <1>2, <1>5, <2>1, Alone DEF Calm
<1>6. jti[job[t].account] = job[t].token /\ job[t].token # 0
  BY <1>2, <1>4, <1>5, SessionFields DEF Serial, Typed
<1>7. MayRefresh(t)
  BY <1>4, <1>6 DEF MayRefresh
<1>8. Proceed(t, "commit")
  BY <1>7 DEF RequestReads
<1>9. job'[t].stage = "commit"
  <2>1. job[t] \in PhoneJob
    BY RequestGoesOn DEF Serial
  <2>2. job \in [Threads -> PhoneJob \cup AdminJob \cup {Idle}]
    BY DEF Serial, Typed, TypeOK
  <2> QED
    BY <1>8, <2>1, <2>2 DEF Proceed, PhoneJob
<1> QED
  BY <1>9

LEMMA OwnInStep ==
  ASSUME Serial, Serial', InOrder, NEW t \in Threads, PhoneStep(t) \/ ServerStep(t), StepKeeps(t),
         Calm'
  PROVE  InStep(t)'
<1>0. Calm /\ ~GiveUp(t) /\ ~CommitFails(t) /\ Typed
  BY CalmBefore DEF Serial
<1>1. ASSUME NEW p \in Phones,
             \/ \E a \in Accounts : StartLogin(t, p, a)
             \/ StartRefresh(t, p) \/ StartChangePassword(t, p) \/ SignOut(t, p)
      PROVE  InStep(t)'
  <2>1. job'[t].phone = p /\ job'[t].stage = "sent"
    BY <1>0, <1>1, RequestBegins
  <2>2. CASE \E a \in Accounts : StartLogin(t, p, a)
    <3>1. session[p] = SignedOut /\ session' = session
      BY <2>2 DEF StartLogin
    <3>2. job'[t].kind = "login" /\ job'[t].waiting
      BY <1>0, <1>1, <3>1, RequestBegins DEF StartRefresh, StartChangePassword, SignOut
    <3> QED
      BY <2>1, <3>1, <3>2 DEF InStep, LogsIn, Renews
  <2>3. CASE StartRefresh(t, p) \/ StartChangePassword(t, p)
    <3>1. session[p] # SignedOut /\ session' = session
      BY <2>3 DEF StartRefresh, StartChangePassword
    <3>2. /\ job'[t].kind \in {"refresh", "password"} /\ job'[t].waiting
          /\ job'[t].account = session[p].account /\ job'[t].token = session[p].token
      BY <1>0, <1>1, <2>3, <3>1, RequestBegins DEF StartLogin
    <3> QED
      BY <2>1, <3>1, <3>2 DEF InStep, LogsIn, Renews
  <2>4. CASE SignOut(t, p)
    <3>1. job'[t].kind = "logout"
      BY <1>0, <2>4, RequestBegins
    <3> QED
      BY <3>1 DEF InStep, LogsIn, Renews
  <2> QED
    BY <1>1, <2>2, <2>3, <2>4
<1>2. CASE GetAnswer(t)
  <2>1. job'[t].kind \in {"logout", "idle"}
    BY <1>0, <1>2, AnswersEnd DEF Answers, Idle
  <2> QED
    BY <2>1 DEF InStep, LogsIn, Renews
<1>3. CASE LoginReads(t) \/ LoginBinds(t) \/ RequestReads(t)
  <2>1. /\ FromPhone(t) /\ job'[t].kind = job[t].kind /\ job'[t].phone = job[t].phone
        /\ job'[t].account = job[t].account /\ job'[t].token = job[t].token
        /\ job'[t].waiting = job[t].waiting
    BY <1>0, <1>3, RequestGoesOn DEF LoginReads, LoginBinds, RequestReads, CommitPair
  <2>2. job'[t].stage \in {"bind", "commit", "refused"} /\ job[t].stage # "ok"
    BY <1>0, <1>3, StagesFollow
  <2>3. UNCHANGED <<session, entitled, jti>>
    BY <1>3 DEF LoginReads, LoginBinds, RequestReads, users
  <2>4. job[t].kind = "refresh" /\ job'[t].stage = "refused" => ~entitled[job[t].phone]
    BY <1>0, <1>3, RefusedWereEnded DEF LoginReads, LoginBinds
  <2>5. InStep(t)
    BY <1>0 DEF InOrder
  <2> QED
    BY <2>1, <2>2, <2>3, <2>4, <2>5 DEF InStep, LogsIn, Renews
<1>4. CASE CommitPair(t)
  <2>1. /\ job'[t].kind = job[t].kind /\ job'[t].phone = job[t].phone
        /\ job'[t].account = job[t].account /\ job'[t].waiting = job[t].waiting
    BY <1>0, <1>4, RequestGoesOn DEF CommitPair, GiveUp
  <2>2. job[t].stage = "commit" /\ job'[t].stage = "ok" /\ job'[t].token = issued'
    BY <1>0, <1>4, StagesFollow
  <2>3. session' = session /\ jti'[job[t].account] = issued'
    <3>1. job[t] # Idle
      BY <1>4 DEF CommitPair, Idle
    <3>2. job[t].account \in Accounts
      BY <1>0, <3>1, JobOfKind DEF Typed
    <3> QED
      BY <1>0, <1>4, <3>2 DEF CommitPair, Typed, TypeOK
  <2>4. InStep(t)
    BY <1>0 DEF InOrder
  <2> QED
    BY <2>1, <2>2, <2>3, <2>4 DEF InStep, LogsIn, Renews
<1>5. CASE CommitLogout(t)
  <2>1. job'[t].kind = "logout"
    BY <1>0, <1>5, RequestGoesOn DEF CommitLogout
  <2> QED
    BY <2>1 DEF InStep, LogsIn, Renews
<1>6. CASE AdminCommits(t) \/ \E a \in Accounts, kind \in AdminKinds : AdminReads(t, kind, a)
  <2>1. job'[t].kind \in AdminKinds \cup {"idle"}
    BY <1>0, <1>6 DEF AdminCommits, AdminReads, Typed, TypeOK, Idle
  <2> QED
    BY <2>1 DEF InStep, LogsIn, Renews, AdminKinds
<1> QED
  BY <1>0, <1>1, <1>2, <1>3, <1>4, <1>5, <1>6 DEF PhoneStep, ServerStep, AdminKinds

LEMMA LoginsApart ==
  ASSUME Serial, InOrder, NEW t \in Threads, PhoneStep(t) \/ ServerStep(t), StepKeeps(t), Calm'
  PROVE  OneLogin'
<1>1. Calm /\ Typed /\ OneLogin
  BY CalmBefore DEF Serial, InOrder
<1>2. \A u \in Threads \ {t} : job'[u] = job[u]
  BY DEF StepKeeps, Footprint
<1>3. SUFFICES ASSUME NEW u \in Threads \ {t}, LogsIn(t)', LogsIn(u)', job'[t].phone = job'[u].phone
               PROVE  FALSE
  <2>1. ASSUME NEW v \in Threads \ {t}, NEW w \in Threads \ {t}, LogsIn(v)', LogsIn(w)',
               job'[v].phone = job'[w].phone
        PROVE  v = w
    BY <1>1, <1>2, <2>1 DEF OneLogin, LogsIn
  <2> QED
    BY <2>1 DEF OneLogin
<1>4. LogsIn(u) /\ job[u].waiting
  <2>1. LogsIn(u)
    BY <1>2, <1>3 DEF LogsIn
  <2> QED
    BY <1>1, <2>1 DEF InOrder, InStep
<1>5. ~(LogsIn(t) /\ job'[t].phone = job[t].phone)
  BY <1>1, <1>2, <1>3, <1>4 DEF OneLogin
<1>6. ASSUME NEW p \in Phones,
             \/ \E a \in Accounts : StartLogin(t, p, a)
             \/ StartRefresh(t, p) \/ StartChangePassword(t, p) \/ SignOut(t, p)
      PROVE  FALSE
  <2>1. job'[t].phone = p /\ ~StartRefresh(t, p) /\ ~StartChangePassword(t, p) /\ ~SignOut(t, p)
    BY <1>1, <1>3, <1>6, RequestBegins DEF LogsIn
  <2>2. ~Awaits(p, "login")
    BY <1>6, <2>1 DEF StartLogin
  <2> QED
    BY <1>2, <1>3, <1>4, <2>1, <2>2 DEF Awaits, LogsIn
<1>7. CASE GetAnswer(t)
  <2>1. job'[t].kind \in {"logout", "idle"}
    BY <1>1, <1>7, AnswersEnd DEF Answers, Idle
  <2> QED
    BY <1>3, <2>1 DEF LogsIn
<1>8. CASE GiveUp(t) \/ LoginReads(t) \/ LoginBinds(t) \/ RequestReads(t)
           \/ CommitPair(t) \/ CommitLogout(t) \/ CommitFails(t)
  <2>1. job'[t].kind = job[t].kind /\ job'[t].phone = job[t].phone
    BY <1>1, <1>8, RequestGoesOn
  <2> QED
    BY <1>3, <1>5, <2>1 DEF LogsIn
<1>9. CASE AdminCommits(t) \/ \E a \in Accounts, kind \in AdminKinds : AdminReads(t, kind, a)
  <2>1. job'[t].kind \in AdminKinds \cup {"idle"}
    BY <1>1, <1>9 DEF AdminCommits, AdminReads, Typed, TypeOK, Idle
  <2> QED
    BY <1>3, <2>1 DEF LogsIn, AdminKinds
<1> QED
  BY <1>6, <1>7, <1>8, <1>9 DEF PhoneStep, ServerStep, AdminKinds

\* A step of t leaves the session of p as it was, and the rows behind it.
LEMMA CurrentLeft ==
  ASSUME NEW t \in Threads, NEW p \in Phones, Current(p),
         \A u \in Threads \ {t} : job'[u] = job[u],
         session'[p] = session[p], entitled'[p] => entitled[p],
         entitled'[p] /\ session[p] # SignedOut =>
           /\ active[session[p].account] => active'[session[p].account]
           /\ jti'[session[p].account] = jti[session[p].account],
         ~(Renews(t) /\ job[t].phone = p /\ job[t].stage = "ok")
  PROVE  Current(p)'
<1> SUFFICES ASSUME entitled'[p] PROVE Current(p)'
  BY DEF Current
<1>1. /\ session[p] # SignedOut /\ active[session[p].account]
      /\ \/ jti[session[p].account] = session[p].token
         \/ \E u \in Threads : Renews(u) /\ job[u].phone = p /\ job[u].stage = "ok"
  BY DEF Current
<1>2. ASSUME NEW u \in Threads, Renews(u), job[u].phone = p, job[u].stage = "ok"
      PROVE  Renews(u)' /\ job'[u].phone = p /\ job'[u].stage = "ok"
  <2>1. u # t
    BY <1>2
  <2> QED
    BY <1>2, <2>1 DEF Renews
<1> QED
  BY <1>1, <1>2 DEF Current

LEMMA AnswersCurrent ==
  ASSUME Serial, InOrder, Calm, NEW t \in Threads, GetAnswer(t), NEW p \in Phones
  PROVE  Current(p)'
<1>1. PICK stored, rejected \in BOOLEAN : Answers(t, stored, rejected)
  BY AnswersEnd DEF Serial
<1>2. Current(p) /\ InStep(t)
  BY DEF InOrder
<1>3. /\ \A u \in Threads \ {t} : job'[u] = job[u]
      /\ active' = active /\ jti' = jti
  BY <1>1 DEF Answers, users
<1>4. CASE p # job[t].phone
  <2>1. session'[p] = session[p] /\ entitled'[p] = entitled[p]
    BY <1>1, <1>4 DEF Answers
  <2> QED
    BY <1>2, <1>3, <1>4, <2>1, CurrentLeft
<1>5. CASE p = job[t].phone /\ stored
  <2>1. session'[p] = Stored(job[t]) /\ session'[p] # SignedOut
    BY <1>1, <1>5 DEF Answers
  <2>2. session'[p].account = job[t].account /\ session'[p].token = job[t].token
    BY <2>1 DEF Stored
  <2>3. ASSUME entitled'[p] PROVE active[job[t].account] /\ jti[job[t].account] = job[t].token
    <3>1. CASE job[t].kind # "refresh"
      BY <1>1, <1>5, <2>3, <3>1 DEF Answers
    <3>2. CASE job[t].kind = "refresh"
      <4>1. entitled[p] /\ job[t].stage = "ok" /\ Renews(t)
        BY <1>1, <1>5, <2>3, <3>2 DEF Answers, Renews
      <4> QED
        BY <1>2, <1>5, <4>1 DEF InStep, Current
    <3> QED
      BY <3>1, <3>2
  <2> QED
    BY <1>3, <2>1, <2>2, <2>3 DEF Current
<1>6. CASE p = job[t].phone /\ rejected
  <2>1. ~entitled[p]
    BY <1>1, <1>2, <1>6 DEF Answers, InStep, Renews
  <2>2. entitled' = entitled
    BY <1>1, <1>6 DEF Answers
  <2> QED
    BY <2>1, <2>2 DEF Current
<1>7. CASE p = job[t].phone /\ ~stored /\ ~rejected
  <2>1. session' = session /\ entitled' = entitled
    BY <1>1, <1>7 DEF Answers
  <2>2. ~(Renews(t) /\ job[t].stage = "ok")
    BY <1>1, <1>2, <1>7 DEF Answers, InStep, Renews
  <2> QED
    BY <1>2, <1>3, <2>1, <2>2, CurrentLeft
<1> QED
  BY <1>4, <1>5, <1>6, <1>7

\* Of the phones signed in to an account, the commit of one's refresh leaves no
\* other entitled: the token it was made with counted, and no two phones have it.
LEMMA RefreshesApart ==
  ASSUME Serial, TokensApart, InOrder, Calm, NEW t \in Threads, CommitPair(t),
         job[t].kind = "refresh", NEW p \in Phones, p # job[t].phone, entitled[p],
         session[p].account = job[t].account
  PROVE  FALSE
<1> DEFINE q == job[t].phone
<1>1. Renews(t) /\ job[t].stage = "commit"
  BY DEF Renews, CommitPair
<1>2. FromPhone(t) /\ job[t] # Idle /\ q \in Phones /\ job[t].account \in Accounts
  BY <1>1, Partakes DEF Serial
<1>3. session[q] # SignedOut /\ job[t].token = session[q].token
  BY <1>1 DEF InOrder, InStep
<1>4. jti[job[t].account] = job[t].token
  BY <1>1, <1>2 DEF Serial, ReadsHold, UpToDate, Calm
<1>5. ASSUME NEW u \in Threads, Renews(u), job[u].phone = p, job[u].stage = "ok"
      PROVE  FALSE
  <2>1. job[u] # Idle /\ job[u].account = job[t].account
    BY <1>5, Partakes DEF Serial, InOrder, InStep
  <2> QED
    BY <1>1, <1>2, <1>5, <2>1, Alone DEF Calm
<1>6. session[p].token = job[t].token
  BY <1>4, <1>5 DEF InOrder, Current
<1>7. job[t].token \in Tokens \ {0}
  BY <1>2, <1>3, SessionFields DEF Serial, Typed
<1>8. Holds(p, job[t].token) /\ Holds(q, job[t].token)
  BY <1>2, <1>3, <1>6 DEF Holds
<1> QED
  BY <1>2, <1>7, <1>8 DEF TokensApart

LEMMA CommitsCurrent ==
  ASSUME Serial, TokensApart, InOrder, Calm, NEW t \in Threads, CommitPair(t), NEW p \in Phones
  PROVE  Current(p)'
<1> DEFINE a == job[t].account
           q == job[t].phone
<1>1. /\ FromPhone(t) /\ job'[t].kind = job[t].kind /\ job'[t].phone = q
      /\ \A u \in Threads \ {t} : job'[u] = job[u]
  BY RequestGoesOn DEF Serial
<1>2. job[t].stage = "commit" /\ job'[t].stage = "ok"
  BY StagesFollow DEF Serial
<1>3. q \in Phones /\ a \in Accounts
  BY <1>1, JobsSpeak DEF Serial
<1>4. Current(p) /\ InStep(t)
  BY DEF InOrder
<1>5. /\ UNCHANGED <<active, session>>
      /\ \A b \in Accounts \ {a} : jti'[b] = jti[b]
  BY <1>3 DEF CommitPair, Serial, Typed, TypeOK
<1>6. entitled'[p] => entitled[p] /\ (job[t].kind = "refresh" \/ p = q \/ session[p].account # a)
  BY DEF CommitPair, EndOthers
<1>7. SUFFICES ASSUME entitled'[p] PROVE Current(p)'
  BY DEF Current
<1>8. session[p] # SignedOut /\ active[session[p].account] /\ session[p].account \in Accounts
  BY <1>4, <1>6, <1>7, SessionFields DEF Current, Serial, Typed
<1>9. CASE p = q
  <2>1. Renews(t)
    BY <1>4, <1>8, <1>9 DEF CommitPair, InStep, LogsIn, Renews
  <2>2. Renews(t)' /\ job'[t].phone = p /\ job'[t].stage = "ok"
    BY <1>1, <1>2, <1>9, <2>1 DEF Renews
  <2> QED
    BY <1>5, <1>8, <2>2 DEF Current
<1>10. CASE p # q
  <2>1. session[p].account # a
    BY <1>6, <1>7, <1>10, RefreshesApart
  <2> QED
    BY <1>1, <1>2, <1>4, <1>5, <1>6, <1>8, <2>1, CurrentLeft
<1> QED
  BY <1>9, <1>10

LEMMA NextCurrent ==
  ASSUME Serial, TokensApart, InOrder, NEW t \in Threads, PhoneStep(t) \/ ServerStep(t), StepKeeps(t),
         Calm', NEW p \in Phones
  PROVE  Current(p)'
<1>1. Calm /\ ~GiveUp(t) /\ ~CommitFails(t) /\ Typed
  BY CalmBefore DEF Serial
<1>2. \A u \in Threads \ {t} : job'[u] = job[u]
  BY DEF StepKeeps, Footprint
<1>3. Current(p) /\ InStep(t)
  BY <1>1 DEF InOrder
<1>4. session[p] # SignedOut => session[p].account \in Accounts
  BY <1>1, SessionFields DEF Typed
<1>5. ASSUME NEW q \in Phones,
             \/ \E a \in Accounts : StartLogin(t, q, a)
             \/ StartRefresh(t, q) \/ StartChangePassword(t, q) \/ SignOut(t, q)
      PROVE  Current(p)'
  <2>1. job[t] = Idle /\ active' = active /\ jti' = jti
    BY <1>1, <1>5, RequestBegins DEF users
  <2>2. ~Renews(t)
    BY <2>1 DEF Renews, Idle
  <2>3. \/ UNCHANGED <<session, entitled>>
        \/ /\ session' = [session EXCEPT ![q] = SignedOut]
           /\ entitled' = [entitled EXCEPT ![q] = FALSE]
    BY <1>5 DEF StartLogin, StartRefresh, StartChangePassword, SignOut
  <2>4. \/ session'[p] = session[p] /\ entitled'[p] = entitled[p]
        \/ ~entitled'[p]
    BY <1>1, <2>3 DEF Typed, TypeOK
  <2>5. CASE ~entitled'[p]
    BY <2>5 DEF Current
  <2>6. CASE session'[p] = session[p] /\ entitled'[p] = entitled[p]
    BY <1>2, <1>3, <2>1, <2>2, <2>6, CurrentLeft
  <2> QED
    BY <2>4, <2>5, <2>6
<1>6. CASE LoginReads(t) \/ LoginBinds(t) \/ RequestReads(t)
  <2>1. UNCHANGED <<active, jti, session, entitled>>
    BY <1>6 DEF LoginReads, LoginBinds, RequestReads, users
  <2>2. job[t].stage # "ok"
    BY <1>6 DEF LoginReads, LoginBinds, RequestReads
  <2> QED
    BY <1>2, <1>3, <2>1, <2>2, CurrentLeft
<1>7. CASE CommitLogout(t)
  <2>1. job[t].kind = "logout" /\ job[t].account \in Accounts
    BY <1>1, <1>7, JobsSpeak DEF CommitLogout, FromPhone
  <2>2. UNCHANGED <<active, session>> /\ ~Renews(t)
    BY <1>7, <2>1 DEF CommitLogout, Renews
  <2>3. \/ UNCHANGED <<jti, entitled>>
        \/ jti' = [jti EXCEPT ![job[t].account] = 0] /\ EndOthers(job[t].account, NoPhone)
    BY <1>7 DEF CommitLogout
  <2>4. /\ entitled'[p] => entitled[p]
        /\ entitled'[p] /\ session[p] # SignedOut => jti'[session[p].account] = jti[session[p].account]
    BY <1>1, <1>4, <2>1, <2>3, NoPhoneAssumption DEF EndOthers, Typed, TypeOK
  <2> QED
    BY <1>2, <1>3, <2>2, <2>4, CurrentLeft
<1>8. CASE AdminCommits(t)
  <2> DEFINE a == job[t].account
             k == job[t].kind
  <2>1. k \in AdminKinds /\ a \in Accounts
    <3>1. k \in AdminKinds
      BY <1>8 DEF AdminCommits, AdminKinds
    <3> QED
      BY <1>1, <3>1, JobOfKind DEF Typed
  <2>2. session' = session /\ ~Renews(t)
    BY <1>8, <2>1 DEF AdminCommits, Renews, AdminKinds
  <2>3. CASE k = "on"
    <3>1. UNCHANGED <<jti, entitled>> /\ (active' = active \/ active' = [active EXCEPT ![a] = TRUE])
      BY <1>8, <2>3 DEF AdminCommits, Revokes
    <3>2. session[p] # SignedOut => (active[session[p].account] => active'[session[p].account])
      BY <1>1, <1>4, <2>1, <3>1 DEF Typed, TypeOK
    <3> QED
      BY <1>2, <1>3, <2>2, <3>1, <3>2, CurrentLeft
  <2>4. CASE k # "on"
    <3>1. EndOthers(a, NoPhone)
      BY <1>8, <2>4 DEF AdminCommits
    <3>2. /\ active' = active \/ active' = [active EXCEPT ![a] = (k = "on")]
          /\ jti' = jti \/ jti' = [jti EXCEPT ![a] = 0]
      BY <1>8 DEF AdminCommits
    <3>3. entitled'[p] => entitled[p] /\ session[p].account # a
      BY <3>1, NoPhoneAssumption DEF EndOthers
    <3>4. session[p] # SignedOut /\ session[p].account # a =>
            /\ active'[session[p].account] = active[session[p].account]
            /\ jti'[session[p].account] = jti[session[p].account]
      BY <1>1, <1>4, <2>1, <3>2 DEF Typed, TypeOK
    <3> QED
      BY <1>2, <1>3, <2>2, <3>3, <3>4, CurrentLeft
  <2> QED
    BY <2>3, <2>4
<1>9. CASE \E a \in Accounts, kind \in AdminKinds : AdminReads(t, kind, a)
  <2>1. job[t] = Idle /\ UNCHANGED <<active, jti, session, entitled>>
    BY <1>9 DEF AdminReads, users
  <2>2. ~Renews(t)
    BY <2>1 DEF Renews, Idle
  <2> QED
    BY <1>2, <1>3, <2>1, <2>2, CurrentLeft
<1>10. CASE GetAnswer(t)
  BY <1>1, <1>10, AnswersCurrent
<1>11. CASE CommitPair(t)
  BY <1>1, <1>11, CommitsCurrent
<1> QED
  BY <1>1, <1>5, <1>6, <1>7, <1>8, <1>9, <1>10, <1>11 DEF PhoneStep, ServerStep, AdminKinds

Orderly == Serial /\ TokensApart /\ InOrder

LEMMA InitOrderly == Init => Orderly
<1> SUFFICES ASSUME Init PROVE Orderly
  OBVIOUS
<1>1. /\ \A t \in Threads : job[t] = Idle
      /\ \A p \in Phones : session[p] = SignedOut /\ ~entitled[p]
  BY DEF Init
<1>2. TokensApart
  BY <1>1 DEF TokensApart, Holds, FromPhone, Idle, SignedOut
<1>3. InOrder
  BY <1>1 DEF InOrder, InStep, OneLogin, Current, LogsIn, Renews, Idle
<1> QED
  BY <1>2, <1>3, InitSerial DEF Orderly

LEMMA NextOrderly ==
  ASSUME Orderly, [Next]_vars
  PROVE  Orderly'
<1>1. Serial' /\ Typed /\ Typed'
  BY NextSerial DEF Orderly, Serial
<1>2. TokensApart'
  BY <1>1, NextTokensApart DEF Orderly
<1>3. CASE UNCHANGED vars
  <2>1. InOrder'
    BY <1>3 DEF Orderly, InOrder, Calm, InStep, OneLogin, Current, LogsIn, Renews,
       vars, users, trouble
  <2> QED
    BY <1>1, <1>2, <2>1 DEF Orderly
<1>4. ASSUME NEW t \in Threads, PhoneStep(t) \/ ServerStep(t), Calm'
      PROVE  (\A u \in Threads : InStep(u)') /\ OneLogin' /\ (\A p \in Phones : Current(p)')
  <2>1. StepKeeps(t)
    BY <1>4, StepOfKeeps DEF Orderly
  <2>2. InStep(t)' /\ \A u \in Threads \ {t} : InStep(u)'
    BY <1>1, <1>4, <2>1, OwnInStep, OthersInStep DEF Orderly
  <2>3. OneLogin'
    BY <1>4, <2>1, LoginsApart DEF Orderly
  <2>4. \A p \in Phones : Current(p)'
    BY <1>4, <2>1, NextCurrent DEF Orderly
  <2> QED
    BY <2>2, <2>3, <2>4
<1>5. CASE Next
  <2>1. InOrder'
    BY <1>4, <1>5 DEF Next, InOrder
  <2> QED
    BY <1>1, <1>2, <2>1 DEF Orderly
<1> QED
  BY <1>3, <1>5

\* While every request is answered and no two overlap, a phone loses its
\* session only if somebody ended it: never for the answer of a refresh.
THEOREM SessionsEndByIntent == Spec => OnlyEndedSessionsEnd
<1>1. ASSUME Orderly, NEW t \in Threads, PhoneStep(t) \/ ServerStep(t), NEW p \in Phones,
             session[p] # SignedOut, session'[p] = SignedOut, Calm
      PROVE  ~entitled'[p]
  <2>1. Typed /\ InStep(t)
    BY <1>1 DEF Orderly, Serial, InOrder
  <2>2. CASE SignOut(t, p)
    BY <2>1, <2>2 DEF SignOut, Typed, TypeOK
  <2>3. CASE GetAnswer(t) /\ job[t].phone = p /\ job[t].waiting /\ (LogsIn(t) \/ Renews(t))
    <3>1. PICK stored, rejected \in BOOLEAN : Answers(t, stored, rejected)
      BY <2>1, <2>3, AnswersEnd
    <3>2. ~stored /\ rejected
      BY <1>1, <2>3, <3>1 DEF Answers
    <3>3. ~entitled[p] /\ entitled' = entitled
      BY <2>1, <2>3, <3>1, <3>2 DEF Answers, InStep, Renews, LogsIn
    <3> QED
      BY <3>3
  <2> QED
    BY <1>1, <2>1, <2>2, <2>3, SessionMoves
<1>2. Orderly /\ [Next]_vars =>
        [\A p \in Phones :
           (session[p] # SignedOut /\ session'[p] = SignedOut)
             => ~entitled'[p] \/ disturbed \/ overlapped # {}]_vars
  BY <1>1 DEF Next, Calm
<1> QED
  BY <1>2, InitOrderly, NextOrderly, PTL DEF Spec, OnlyEndedSessionsEnd
=============================================================================
