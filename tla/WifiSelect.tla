----------------------------- MODULE WifiSelect -----------------------------
(***************************************************************************)
(* How the reader at the door picks a network and leaves one that has no   *)
(* internet (src/ESP32_ARDUINO CODE/SUAAMS_HCE/SUAAMS_HCE.ino, wifiStep    *)
(* and noteServerReply).                                                   *)
(*                                                                         *)
(* The sketch scans, joins the strongest listed network, tries the next    *)
(* one when that fails, and counts requests that got no answer as strikes. *)
(* The Wi-Fi driver is a second actor: it goes on dialling what it was     *)
(* told to until it is told to stop, whatever the sketch thinks by then.   *)
(*                                                                         *)
(* millis() wraps around: ms runs from 1 to Wrap and starts over.          *)
(*                                                                         *)
(* A join may succeed after the sketch gave up on it, until the next scan  *)
(* or join tells the driver to stop.                                       *)
(*                                                                         *)
(* Abstracted: credentials, access points, the length of the retry and     *)
(* join timers (a timer may run out whenever it runs), the boot wait.      *)
(***************************************************************************)
EXTENDS Integers, Sequences, FiniteSets

CONSTANTS
  Networks,       \* WIFI_NETWORKS
  DeadStrikes,    \* NETWORK_DEAD_STRIKES
  Skip,           \* NETWORK_DEAD_SKIP_MS, in ticks
  Wrap            \* after how many ticks millis() starts over

ASSUME WifiAssumption ==
  /\ Networks # {} /\ IsFiniteSet(Networks)
  /\ DeadStrikes \in Nat \ {0}
  /\ Skip \in Nat
  /\ Wrap \in Nat /\ Wrap > Skip

VARIABLES
  phase,          \* wifiPhase
  candidates,     \* those of the last scan not tried yet, strongest first
  current,        \* wifiCurrentNetwork
  ready,          \* wifiReady
  strikes,        \* networkStrikes
  skippedAt,      \* networkSkippedAt; 0 for a network that is fine
  ms,             \* millis()
  dialling,       \* what the driver is trying to join
  link,           \* what it is joined to
  online,         \* the networks that reach the server
  silent          \* history: unanswered requests in a row on this link

sketch == <<phase, candidates, current, ready, strikes, skippedAt>>
driver == <<dialling, link>>
vars == <<sketch, ms, driver, online, silent>>

NoNetwork == "none"

-----------------------------------------------------------------------------
\* networkSkipped, in the arithmetic of an unsigned counter.
Skipped(n) == skippedAt[n] # 0 /\ (ms - skippedAt[n]) % Wrap < Skip

Orders(S) == {s \in [1..Cardinality(S) -> S] : \A i, j \in DOMAIN s : s[i] = s[j] => i = j}

TypeOK ==
  /\ phase \in {"idle", "scanning", "joining"}
  /\ candidates \in Seq(Networks)
  /\ current \in Networks \cup {NoNetwork}
  /\ ready \in BOOLEAN
  /\ strikes \in 0..(DeadStrikes - 1)
  /\ skippedAt \in [Networks -> 0..Wrap]
  /\ ms \in 1..Wrap
  /\ dialling \in Networks \cup {NoNetwork}
  /\ link \in Networks \cup {NoNetwork}
  /\ online \subseteq Networks
  /\ silent \in 0..DeadStrikes

Init ==
  /\ phase = "idle"
  /\ candidates = <<>>
  /\ current = NoNetwork
  /\ ready = FALSE
  /\ strikes = 0
  /\ skippedAt = [n \in Networks |-> 0]
  /\ ms = 1
  /\ dialling = NoNetwork
  /\ link = NoNetwork
  /\ online \in SUBSET Networks
  /\ silent = 0

-----------------------------------------------------------------------------
(* wifiStep *)

\* A network just joined inherits the strikes of the one before.
NoticeLinkDirty ==
  /\ link # NoNetwork
  /\ ~ready \/ phase # "idle"
  /\ ready' = TRUE
  /\ phase' = "idle"
  /\ silent' = IF ready THEN silent ELSE 0
  /\ UNCHANGED <<candidates, current, strikes, skippedAt, ms, driver, online>>

\* The link is up: a network just joined starts with a clean record.
NoticeLink ==
  /\ link # NoNetwork
  /\ ~ready \/ phase # "idle"
  /\ strikes' = IF ready THEN strikes ELSE 0
  /\ ready' = TRUE
  /\ phase' = "idle"
  /\ silent' = IF ready THEN silent ELSE 0
  /\ UNCHANGED <<candidates, current, skippedAt, ms, driver, online>>

\* wifiStartScan, after a link that went down at once.
StartScan ==
  /\ link = NoNetwork
  /\ ready \/ phase = "idle"
  /\ ready' = FALSE
  /\ current' = IF ready THEN NoNetwork ELSE current
  /\ dialling' = NoNetwork
  /\ phase' \in {"scanning", "idle"}
  /\ UNCHANGED <<candidates, strikes, skippedAt, ms, link, online, silent>>

\* wifiBuildCandidates: those set aside only if nothing else was heard.
Usable(found) ==
  LET fine == {n \in found : ~Skipped(n)}
  IN  IF fine = {} THEN found ELSE fine

\* The next candidate dialled under the name of the last.
JoinNextUnnamed(list) ==
  IF list = <<>>
    THEN /\ phase' = "idle"
         /\ UNCHANGED <<candidates, current, dialling>>
    ELSE /\ current' = IF current = NoNetwork THEN Head(list) ELSE current
         /\ dialling' = Head(list)
         /\ phase' = "joining"
         /\ candidates' = Tail(list)

\* wifiJoinNext: dial the next candidate, or give up until the next scan.
\* Giving up does not tell the driver to stop.
JoinNext(list) ==
  IF list = <<>>
    THEN /\ current' = NoNetwork
         /\ phase' = "idle"
         /\ candidates' = <<>>
         /\ UNCHANGED dialling
    ELSE /\ current' = Head(list)
         /\ dialling' = Head(list)
         /\ phase' = "joining"
         /\ candidates' = Tail(list)

ScanDone ==
  /\ phase = "scanning" /\ link = NoNetwork /\ ~ready
  /\ \E found \in SUBSET Networks : \E list \in Orders(Usable(found)) : JoinNext(list)
  /\ UNCHANGED <<ready, strikes, skippedAt, ms, link, online, silent>>

ScanFailed ==
  /\ phase = "scanning" /\ link = NoNetwork /\ ~ready
  /\ phase' = "idle"
  /\ UNCHANGED <<candidates, current, ready, strikes, skippedAt, ms, driver, online, silent>>

\* The network refused, or WIFI_PER_NETWORK_TIMEOUT_MS ran out.
GiveUpJoin ==
  /\ phase = "joining" /\ link = NoNetwork /\ ~ready
  /\ JoinNext(candidates)
  /\ UNCHANGED <<ready, strikes, skippedAt, ms, link, online, silent>>

-----------------------------------------------------------------------------
(* noteServerReply *)

Answered ==
  /\ ready /\ link \in online
  /\ strikes' = 0
  /\ silent' = 0
  /\ UNCHANGED <<phase, candidates, current, ready, skippedAt, ms, driver, online>>

\* Strikes are counted against a network only if there is another to go to.
Counts == Cardinality(Networks) >= 2 /\ current # NoNetwork

OutOfStrikes == strikes + 1 >= DeadStrikes

\* Set aside without dropping the link.
SetAsideStaying ==
  /\ Counts /\ OutOfStrikes
  /\ skippedAt' = [skippedAt EXCEPT ![current] = ms]
  /\ strikes' = 0
  /\ UNCHANGED <<link, dialling>>

SetAside ==
  /\ Counts /\ OutOfStrikes
  /\ skippedAt' = [skippedAt EXCEPT ![current] = ms]
  /\ strikes' = 0
  /\ link' = NoNetwork
  /\ dialling' = NoNetwork

Strike ==
  /\ Counts /\ ~OutOfStrikes
  /\ strikes' = strikes + 1
  /\ UNCHANGED <<skippedAt, link, dialling>>

NotCounted ==
  /\ ~Counts
  /\ UNCHANGED <<skippedAt, strikes, link, dialling>>

NoAnswer ==
  /\ ready
  /\ SetAside \/ Strike \/ NotCounted
  /\ silent' = IF silent = DeadStrikes THEN silent ELSE silent + 1
  /\ UNCHANGED <<phase, candidates, current, ready, ms, online>>

-----------------------------------------------------------------------------
(* The driver, the networks and time *)

\* A join succeeds, while the sketch waits for it or later.
DriverJoins ==
  /\ dialling # NoNetwork
  /\ link' = dialling
  /\ dialling' = NoNetwork
  /\ UNCHANGED <<sketch, ms, online, silent>>

\* A join fails for good.
DriverFails ==
  /\ dialling # NoNetwork
  /\ dialling' = NoNetwork
  /\ UNCHANGED <<sketch, ms, link, online, silent>>

LinkLost ==
  /\ link # NoNetwork
  /\ link' = NoNetwork
  /\ UNCHANGED <<sketch, ms, dialling, online, silent>>

OnlineChanges ==
  /\ online' \in (SUBSET Networks) \ {online}
  /\ UNCHANGED <<sketch, ms, driver, silent>>

Tick ==
  /\ ms' = IF ms = Wrap THEN 1 ELSE ms + 1
  /\ UNCHANGED <<sketch, driver, online, silent>>

WifiStep == NoticeLink \/ StartScan \/ ScanDone \/ ScanFailed \/ GiveUpJoin

Next ==
  \/ WifiStep
  \/ Answered \/ NoAnswer
  \/ DriverJoins \/ DriverFails \/ LinkLost
  \/ OnlineChanges
  \/ Tick

Spec == Init /\ [][Next]_vars

\* The loop runs on, and goes on sending requests: pings on an empty field,
\* taps otherwise.  An offline network gives no answer.
Fairness == WF_vars(WifiStep) /\ WF_vars(Answered \/ NoAnswer)

FairSpec == Spec /\ Fairness

-----------------------------------------------------------------------------
(* Properties *)

\* The strikes, and the time aside, never go to a network that did not earn
\* them: while a link is up the sketch has the right name for it, or none
\* (wifiCurrentNetwork; none after a join that succeeded late).
NeverTheWrongName == ready /\ link # NoNetwork => current \in {link, NoNetwork}

\* A network is set aside only for DeadStrikes silent requests in a row since
\* it was joined: an answer, or a new link, wipes the slate
\* (noteServerReply, wifiStep).
NotSetAsideEarly ==
  [][\A n \in Networks :
       skippedAt'[n] # skippedAt[n] => silent + 1 >= DeadStrikes]_vars

\* A network without internet that was joined in time is left in the end,
\* "and the terminal moves on" (noteServerReply).  One joined late has no
\* name, gets no strikes and is kept.
DeadNetworkLeft ==
  \A n \in Networks :
    ready /\ link = n /\ current = n /\ n \notin online
      ~> link # n \/ n \in online
=============================================================================
