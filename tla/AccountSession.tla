--------------------------- MODULE AccountSession ---------------------------
(***************************************************************************)
(* Signing in and staying signed in: the phone app's AuthNotifier and      *)
(* AuthService, the /auth endpoints of the server (SUAAMS/api/auth.py) and *)
(* the admin steps that end a session (people_status.py, admin.py).        *)
(*                                                                         *)
(* An account has one refresh token that counts, users.current_refresh_jti. *)
(* Every refresh replaces it, and a phone holds the last one it was given. *)
(* A student's account is bound to one phone.                              *)
(*                                                                         *)
(* Requests are served by threads, each in three steps: the reads of the   *)
(* handler, its commit, its answer.  A commit writes only the columns the  *)
(* handler changed since its reads, whatever others committed meanwhile.   *)
(*                                                                         *)
(* Abstracted: passwords (a login has the right one), access tokens (one   *)
(* may expire at any time), the fourteen days of a refresh token, push     *)
(* registrations, the web portal's own cookie sessions.                    *)
(***************************************************************************)
EXTENDS Integers, FiniteSets

CONSTANTS
  Accounts,
  Students,       \* the accounts that are bound to a phone
  Phones,
  Threads,        \* request threads of the server
  MaxToken,       \* bound: refresh tokens made
  MaxAdmin,       \* bound: admin steps
  Disturbances    \* which of AllDisturbances may happen

\* The phone stops waiting for an answer; the database fails and the server
\* answers 500.
AllDisturbances == {"lost answer", "server error"}

ASSUME AccountAssumption ==
  /\ Students \subseteq Accounts
  /\ MaxToken \in Nat \ {0}
  /\ MaxAdmin \in Nat
  /\ Disturbances \subseteq AllDisturbances

VARIABLES
  active,         \* users.is_active
  bound,          \* students.device_id
  jti,            \* users.current_refresh_jti; 0 is NULL
  issued,         \* refresh tokens made so far
  job,            \* what each thread is at
  session,        \* the account and refresh token a phone is signed in with
  entitled,       \* history: the phone's session was not ended by anybody
  overlapped,     \* history: accounts two requests were at work on at once
  disturbed,      \* history: an answer was lost or a commit failed
  admin           \* admin steps so far

users == <<active, bound, jti>>
trouble == <<overlapped, disturbed>>
vars == <<users, issued, job, session, entitled, trouble, admin>>

NoPhone == "no phone"

ASSUME NoPhoneAssumption == NoPhone \notin Phones

NoAccount == "no account"
SignedOut == [account |-> NoAccount, token |-> 0]
Idle == [kind |-> "idle"]

Tokens == 0..MaxToken
Session == [account : Accounts, token : Tokens \ {0}]

\* What the handler read of the account.
Seen == [active : BOOLEAN, bound : Phones \cup {NoPhone}, jti : Tokens]

\* A request of a phone.  waiting: the phone still awaits its answer.
PhoneJob ==
  [kind : {"login", "refresh", "password", "logout"}, phone : Phones, account : Accounts,
   token : Tokens, stage : {"sent", "bind", "commit", "ok", "refused", "failed"},
   waiting : BOOLEAN, seen : Seen]
AdminJob ==
  [kind : {"on", "off", "exit", "unbind", "reset"}, account : Accounts, seen : Seen]

See(a) == [active |-> active[a], bound |-> bound[a], jti |-> jti[a]]

TypeOK ==
  /\ active \in [Accounts -> BOOLEAN]
  /\ bound \in [Accounts -> Phones \cup {NoPhone}]
  /\ \A a \in Accounts \ Students : bound[a] = NoPhone
  /\ jti \in [Accounts -> Tokens]
  /\ issued \in Tokens
  /\ job \in [Threads -> PhoneJob \cup AdminJob \cup {Idle}]
  /\ session \in [Phones -> Session \cup {SignedOut}]
  /\ entitled \in [Phones -> BOOLEAN]
  /\ overlapped \subseteq Accounts
  /\ disturbed \in BOOLEAN
  /\ admin \in 0..MaxAdmin

Init ==
  /\ active = [a \in Accounts |-> TRUE]
  /\ bound = [a \in Accounts |-> NoPhone]
  /\ jti = [a \in Accounts |-> 0]
  /\ issued = 0
  /\ job = [t \in Threads |-> Idle]
  /\ session = [p \in Phones |-> SignedOut]
  /\ entitled = [p \in Phones |-> FALSE]
  /\ overlapped = {}
  /\ disturbed = FALSE
  /\ admin = 0

-----------------------------------------------------------------------------
(* The phone *)

FromPhone(t) == job[t].kind \in {"login", "refresh", "password", "logout"}

Awaits(p, kind) ==
  \E t \in Threads :
    /\ job[t].kind = kind
    /\ job[t].phone = p
    /\ job[t].waiting

\* Thread t takes up a request about a.
TakesUp(t, a) ==
  /\ overlapped' = overlapped \cup {b \in {a} : \E u \in Threads \ {t} : job[u] # Idle /\ job[u].account = b}
  /\ UNCHANGED disturbed

\* The request of a phone reaches a thread.
Send(t, p, kind, a, token, waiting) ==
  /\ job[t] = Idle
  /\ job' = [job EXCEPT ![t] =
       [kind |-> kind, phone |-> p, account |-> a, token |-> token,
        stage |-> "sent", waiting |-> waiting, seen |-> See(a)]]
  /\ TakesUp(t, a)

\* AuthNotifier.login
StartLogin(t, p, a) ==
  /\ session[p] = SignedOut
  /\ ~Awaits(p, "login")
  /\ Send(t, p, "login", a, 0, TRUE)
  /\ UNCHANGED <<users, issued, session, entitled, admin>>

\* refreshSession: at most one refresh is in flight.
StartRefresh(t, p) ==
  /\ session[p] # SignedOut
  /\ ~Awaits(p, "refresh")
  /\ Send(t, p, "refresh", session[p].account, session[p].token, TRUE)
  /\ UNCHANGED <<users, issued, session, entitled, admin>>

\* AuthNotifier.changePassword, on an access token still good.
StartChangePassword(t, p) ==
  /\ session[p] # SignedOut
  /\ ~Awaits(p, "password")
  /\ Send(t, p, "password", session[p].account, session[p].token, TRUE)
  /\ UNCHANGED <<users, issued, session, entitled, admin>>

\* logout: local at once, the server told without waiting.
SignOut(t, p) ==
  /\ session[p] # SignedOut
  /\ Send(t, p, "logout", session[p].account, session[p].token, FALSE)
  /\ session' = [session EXCEPT ![p] = SignedOut]
  /\ entitled' = [entitled EXCEPT ![p] = FALSE]
  /\ UNCHANGED <<users, issued, admin>>

\* The phone stops waiting: RefreshOutcome.unreachable, the session stays.
GiveUp(t) ==
  /\ "lost answer" \in Disturbances
  /\ FromPhone(t) /\ job[t].waiting
  /\ job' = [job EXCEPT ![t].waiting = FALSE]
  /\ disturbed' = TRUE
  /\ UNCHANGED <<users, issued, session, entitled, overlapped, admin>>

\* Of the new pair, only the access token is stored.
StoredInPart(j) ==
  IF session[j.phone] = SignedOut THEN [account |-> j.account, token |-> j.token]
                                  ELSE session[j.phone]

\* What the phone keeps of an answer with a token pair.
Stored(j) == [account |-> j.account, token |-> j.token]

\* An answer with a token pair is stored, even if its user signed out
\* meanwhile; only a password change then finds no user to give it to.
\* A refresh that was not answered 200 is a rejection: the phone signs out,
\* and tells the server so.
GetAnswer(t) ==
  /\ FromPhone(t) /\ job[t].stage \in {"ok", "refused", "failed"}
  /\ LET j == job[t]
         p == j.phone
         stored == /\ j.waiting /\ j.stage = "ok"
                   /\ j.kind = "password" => session[p] # SignedOut
         rejected == j.waiting /\ j.kind = "refresh" /\ j.stage # "ok" /\ session[p] # SignedOut
     IN  /\ session' =
              CASE stored -> [session EXCEPT ![p] = Stored(j)]
                [] rejected -> [session EXCEPT ![p] = SignedOut]
                [] OTHER -> session
         /\ entitled' =
              IF stored /\ j.kind # "refresh"
                THEN [entitled EXCEPT ![p] = active[j.account] /\ jti[j.account] = j.token]
                ELSE entitled
         /\ job' =
              [job EXCEPT ![t] =
                 IF rejected
                   THEN [j EXCEPT !.kind = "logout", !.account = session[p].account,
                                  !.token = session[p].token, !.stage = "sent",
                                  !.waiting = FALSE, !.seen = See(session[p].account)]
                   ELSE Idle]
         /\ IF rejected THEN TakesUp(t, session[p].account) ELSE UNCHANGED trouble
  /\ UNCHANGED <<users, issued, admin>>

-----------------------------------------------------------------------------
(* The server *)

Stage(t, stage) == job' = [job EXCEPT ![t].stage = stage]

\* The reads done, the handler goes on to its commit.
Proceed(t, stage) ==
  job' = [job EXCEPT ![t].stage = stage, ![t].seen = See(job[t].account)]

\* No session left to any phone but p.
EndOthers(a, p) ==
  entitled' = [q \in Phones |->
                 entitled[q] /\ (q = p \/ session[q].account # a)]

\* Another account's phone.
Taken(a, p) == \E b \in Students \ {a} : bound[b] = p

MayEnter(a, p) == active[a] /\ (a \in Students => bound[a] = p)

\* A login that takes the account along to the new phone.
MayBindAgain(a, p) == active[a] /\ a \in Students /\ ~Taken(a, p)

\* A student's first login.
MayBind(a, p) == active[a] /\ a \in Students /\ bound[a] = NoPhone /\ ~Taken(a, p)

\* mobile_login up to its first commit.
LoginReads(t) ==
  /\ job[t].kind = "login" /\ job[t].stage = "sent"
  /\ LET a == job[t].account
         p == job[t].phone
     IN  \/ MayEnter(a, p) /\ Proceed(t, "commit")
         \/ MayBind(a, p) /\ Proceed(t, "bind")
         \/ ~MayEnter(a, p) /\ ~MayBind(a, p) /\ Stage(t, "refused")
  /\ UNCHANGED <<users, issued, session, entitled, trouble, admin>>

\* A unique constraint left out.
PhoneFreeUnchecked(a, p) == TRUE

\* The unique constraint on students.device_id.
PhoneFree(a, p) == ~Taken(a, p)

\* bind_device and its commit.
LoginBinds(t) ==
  /\ job[t].kind = "login" /\ job[t].stage = "bind"
  /\ LET a == job[t].account
         p == job[t].phone
     IN  \/ /\ PhoneFree(a, p)
            /\ bound' = [bound EXCEPT ![a] = p]
            /\ Stage(t, "commit")
         \/ /\ ~PhoneFree(a, p)
            /\ Stage(t, "refused")
            /\ UNCHANGED bound
  /\ UNCHANGED <<active, jti, issued, session, entitled, trouble, admin>>

\* A refresh that does not look at which token it was given.
MayRefreshAny(t) == active[job[t].account]

\* The checks of mobile_refresh, the account check before it included.
MayRefresh(t) ==
  /\ active[job[t].account]
  /\ jti[job[t].account] # 0
  /\ jti[job[t].account] = job[t].token

\* mobile_refresh, mobile_change_password, mobile_logout: the account check
\* and the handler's own reads.
RequestReads(t) ==
  /\ job[t].kind \in {"refresh", "password", "logout"} /\ job[t].stage = "sent"
  /\ LET allowed == IF job[t].kind = "refresh" THEN MayRefresh(t) ELSE active[job[t].account]
     IN  IF allowed THEN Proceed(t, "commit") ELSE Stage(t, "refused")
  /\ UNCHANGED <<users, issued, session, entitled, trouble, admin>>

\* _issue_token_pair and its commit.
CommitPair(t) ==
  /\ job[t].kind \in {"login", "refresh", "password"} /\ job[t].stage = "commit"
  /\ issued < MaxToken
  /\ issued' = issued + 1
  /\ jti' = [jti EXCEPT ![job[t].account] = issued']
  /\ job' = [job EXCEPT ![t].stage = "ok", ![t].token = issued']
  /\ IF job[t].kind = "refresh" THEN UNCHANGED entitled
                                ELSE EndOthers(job[t].account, job[t].phone)
  /\ UNCHANGED <<active, bound, session, trouble, admin>>

\* mobile_logout ends whatever session the account has now, a newer one
\* included.
CommitLogout(t) ==
  /\ job[t].kind = "logout" /\ job[t].stage = "commit"
  /\ IF job[t].seen.jti = 0
       THEN UNCHANGED <<jti, entitled>>
       ELSE /\ jti' = [jti EXCEPT ![job[t].account] = 0]
            /\ EndOthers(job[t].account, NoPhone)
  /\ Stage(t, "ok")
  /\ UNCHANGED <<active, bound, issued, session, trouble, admin>>

\* The database fails: rolled back, and answered 500.
CommitFails(t) ==
  /\ "server error" \in Disturbances
  /\ FromPhone(t) /\ job[t].stage \in {"bind", "commit"}
  /\ Stage(t, "failed")
  /\ disturbed' = TRUE
  /\ UNCHANGED <<users, issued, session, entitled, overlapped, admin>>

-----------------------------------------------------------------------------
(* The admin *)

\* Off and exit: set_student_status, set_lecturer_status, remove_hod; unbind:
\* reset_student_binding; reset: the password reset.
AdminReads(t, kind, a) ==
  /\ job[t] = Idle
  /\ admin < MaxAdmin
  /\ kind = "on" => ~active[a]
  /\ kind \in {"exit", "unbind"} => a \in Students
  /\ job' = [job EXCEPT ![t] = [kind |-> kind, account |-> a, seen |-> See(a)]]
  /\ TakesUp(t, a)
  /\ admin' = admin + 1
  /\ UNCHANGED <<users, issued, session, entitled>>

\* Switching an account off without ending its session.
RevokesNotOff == {"unbind", "reset"}

Revokes == {"off", "exit", "unbind", "reset"}
Releases == {"exit", "unbind"}

AdminCommits(t) ==
  /\ job[t].kind \in {"on", "off", "exit", "unbind", "reset"}
  /\ LET k == job[t].kind
         a == job[t].account
         saw == job[t].seen
     IN  /\ active' = IF k \in {"on", "off", "exit"} /\ saw.active # (k = "on")
                        THEN [active EXCEPT ![a] = (k = "on")] ELSE active
         /\ bound' = IF k \in Releases /\ saw.bound # NoPhone
                       THEN [bound EXCEPT ![a] = NoPhone] ELSE bound
         /\ jti' = IF k \in Revokes /\ saw.jti # 0 THEN [jti EXCEPT ![a] = 0] ELSE jti
         /\ IF k = "on" THEN UNCHANGED entitled ELSE EndOthers(a, NoPhone)
  /\ job' = [job EXCEPT ![t] = Idle]
  /\ UNCHANGED <<issued, session, trouble, admin>>

-----------------------------------------------------------------------------
PhoneStep(t) ==
  \/ \E p \in Phones :
       \/ \E a \in Accounts : StartLogin(t, p, a)
       \/ StartRefresh(t, p)
       \/ StartChangePassword(t, p)
       \/ SignOut(t, p)
  \/ GiveUp(t)
  \/ GetAnswer(t)

ServerStep(t) ==
  \/ LoginReads(t) \/ LoginBinds(t) \/ RequestReads(t)
  \/ CommitPair(t) \/ CommitLogout(t) \/ CommitFails(t)
  \/ AdminCommits(t)
  \/ \E a \in Accounts : \E kind \in {"on", "off", "exit", "unbind", "reset"} :
       AdminReads(t, kind, a)

Next == \E t \in Threads : PhoneStep(t) \/ ServerStep(t)

Spec == Init /\ [][Next]_vars

-----------------------------------------------------------------------------
(* Properties *)

\* No phone is bound to two accounts, however logins interleave
\* (mobile_login).
OneAccountPerPhone ==
  \A a, b \in Students : bound[a] # NoPhone /\ bound[a] = bound[b] => a = b

\* A refresh takes effect only while the token presented counts: not after
\* another refresh with it, a logout, or an admin ended the session
\* (mobile_refresh).  It needs that no two requests of the account overlap:
\* the token is compared when it is read and replaced by the commit.
OnlyCurrentTokenRotates ==
  [][\A t \in Threads :
       (job[t].kind = "refresh" /\ job[t].stage = "commit" /\ job'[t].stage = "ok")
         => \/ jti[job[t].account] = job[t].token
            \/ job[t].account \in overlapped]_vars

\* Switching an account off leaves it no refresh token (_switch_login), unless
\* a request that read the account before overlaps it.
OffMeansRevoked == \A a \in Accounts \ overlapped : ~active[a] => jti[a] = 0

\* A student's account moves to another phone only by way of no phone
\* (mobile_login), unless two requests of the account overlap: then nothing
\* stops the later of two first logins.
MovesOnlyByUnbind ==
  [][\A a \in Students \ overlapped :
       bound[a] # NoPhone /\ bound'[a] # bound[a] => bound'[a] = NoPhone]_vars

\* While every request is answered and none overlap, a phone loses its session
\* only if its account was signed out somewhere, an admin ended it, or the
\* account was signed in to, or its password changed, on another phone: never
\* for the answer of a refresh (RefreshOutcome).
OnlyEndedSessionsEnd ==
  [][\A p \in Phones :
       (session[p] # SignedOut /\ session'[p] = SignedOut)
         => ~entitled'[p] \/ disturbed \/ overlapped # {}]_vars
=============================================================================
