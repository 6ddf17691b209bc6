----------------------------- MODULE TapJourney -----------------------------
(***************************************************************************)
(* A tap from the phone to the server: TerminalReader composed with what   *)
(* the server makes of the reader's requests, one tap at a time.  A live   *)
(* request is checked and then committed (submit_checkin_beacon), an       *)
(* uploaded capture is looked up and then filed                            *)
(* (sync_offline_checkin_backlog); CheckIn has the same handlers with      *)
(* everybody else who writes their tables.                                 *)
(*                                                                         *)
(* A request the reader stopped waiting for is still on its way, or is     *)
(* already being handled, and may finish at any later time: two uploads of *)
(* one capture may be handled at once.  Tokens are genuine, and their      *)
(* student and session stay.                                               *)
(***************************************************************************)
EXTENDS TerminalReader

CONSTANT MaxLag   \* OFFLINE_READ_MAX_LAG_SECONDS, in ticks

ASSUME JourneyAssumption == MaxLag \in Nat

VARIABLES
  waiting,        \* live requests without an answer, not yet handled
  checked,        \* those the server found valid and is about to commit
  uploads,        \* uploaded captures the server has yet to file
  credited,       \* taps recorded live
  filed,          \* offline_checkin_logs, by tap
  refused         \* history: taps the server answered for with a refusal

serverVars == <<waiting, checked, uploads, credited, filed, refused>>
journeyVars == <<vars, serverVars>>

Verdicts == {"none", "pending_verification", "superseded", "rejected"}

\* A capture of an upload, with the verdict once it was looked up, and
\* whether the reader still waits for the answer.
Upload == [capture : Capture, verdict : Verdicts, awaited : BOOLEAN]

JourneyTypeOK ==
  /\ TypeOK
  /\ waiting \subseteq Taps
  /\ checked \subseteq Taps
  /\ uploads \subseteq Upload
  /\ credited \subseteq Taps
  /\ filed \in [Taps -> Verdicts]
  /\ refused \subseteq Taps

JourneyInit ==
  /\ Init
  /\ waiting = {}
  /\ checked = {}
  /\ uploads = {}
  /\ credited = {}
  /\ filed = [t \in Taps |-> "none"]
  /\ refused = {}

Elements(s) == {s[i] : i \in DOMAIN s}

\* verify_beacon: the code's own expiry, counted from when it was made.
IsFresh(t) == clock <= phone[t].made + Ttl

-----------------------------------------------------------------------------
(* What the reader's requests leave with the server *)

\* An answer: recorded, or refused for whatever reason.
Answered ==
  /\ PostAnswered
  /\ \/ IsFresh(cur.tap) /\ credited' = credited \cup {cur.tap} /\ UNCHANGED refused
     \/ refused' = refused \cup {cur.tap} /\ UNCHANGED credited
  /\ UNCHANGED <<waiting, checked, uploads, filed>>

\* No answer, or power cut while waiting for one: the request may arrive.
GaveUp ==
  /\ PostNoAnswer \/ (PowerCut /\ pc = "post")
  /\ waiting' \in {waiting, waiting \cup {cur.tap}}
  /\ UNCHANGED <<checked, uploads, credited, filed, refused>>

ChunkSent ==
  /\ SendChunk
  /\ uploads' = uploads \cup
       {[capture |-> c, verdict |-> "none", awaited |-> TRUE] : c \in Elements(Oldest)}
  /\ UNCHANGED <<waiting, checked, credited, filed, refused>>

Strays == {u \in uploads : ~u.awaited}

\* The answer is sent as soon as the records are there.
Received == TRUE

\* Every record of the chunk was handled.
Handled == uploads = Strays

\* 200 comes after the last record.  Any other status: the rest of the chunk
\* never will be handled.
ChunkAnswered ==
  /\ \E accepted \in BOOLEAN :
       /\ FlushAnswered(accepted)
       /\ accepted => Handled
       /\ refused' = IF accepted THEN refused ELSE refused \cup TapsOf(Oldest)
  /\ uploads' = Strays
  /\ UNCHANGED <<waiting, checked, credited, filed>>

\* No answer, or power cut while waiting for one: the chunk may not have
\* arrived, or be handled later.
ChunkUnanswered ==
  /\ FlushNoAnswer \/ (PowerCut /\ pc = "flush")
  /\ uploads' \in {Strays, {[u EXCEPT !.awaited = FALSE] : u \in uploads}}
  /\ UNCHANGED <<waiting, checked, credited, filed, refused>>

\* Steps that send nothing.
Local ==
  /\ \/ \E t \in Taps : ReadTap(t) \/ ShowCode(t)
     \/ QueueOffline
     \/ StartPost
     \/ PostNoConnection
     \/ Save
     \/ SyncClock
     \/ PowerCut /\ pc \notin {"post", "flush"}
     \/ Tick
  /\ UNCHANGED serverVars

-----------------------------------------------------------------------------
(* The server *)

\* A request nobody waits for reaches the checks of submit_checkin_beacon.
ServerChecks(t) ==
  /\ t \in waiting
  /\ waiting' = waiting \ {t}
  /\ \/ IsFresh(t) /\ checked' = checked \cup {t}
     \/ UNCHANGED checked
  /\ UNCHANGED <<vars, uploads, credited, filed, refused>>

\* .. and its commit.
ServerCommits(t) ==
  /\ t \in checked
  /\ checked' = checked \ {t}
  /\ credited' = credited \cup {t}
  /\ UNCHANGED <<vars, waiting, uploads, filed, refused>>

\* The lag of a read that has no usable time counts as none.
ReadTooLate(c) == c.at # 0 /\ c.at - phone[c.tap].made > MaxLag

\* What the sync makes of a capture it has no record of.
Verdict(c) ==
  IF ReadTooLate(c) THEN "rejected"
  ELSE IF c.tap \in credited THEN "superseded" ELSE "pending_verification"

\* The reads of the sync for one record: one on file is handled with that.
ServerLooksUp(u) ==
  /\ u.verdict = "none"
  /\ \/ /\ filed[u.capture.tap] # "none"
        /\ uploads' = uploads \ {u}
     \/ /\ filed[u.capture.tap] = "none"
        /\ uploads' = (uploads \ {u}) \cup {[u EXCEPT !.verdict = Verdict(u.capture)]}
  /\ UNCHANGED <<vars, waiting, checked, credited, filed, refused>>

\* .. and its commit, each record on its own: the unique key turns away what
\* another upload filed meanwhile (IntegrityError).
ServerFiles(u) ==
  /\ u.verdict # "none"
  /\ uploads' = uploads \ {u}
  /\ filed' = [filed EXCEPT ![u.capture.tap] = IF @ = "none" THEN u.verdict ELSE @]
  /\ UNCHANGED <<vars, waiting, checked, credited, refused>>

JourneyNext ==
  \/ Answered
  \/ GaveUp
  \/ ChunkSent
  \/ ChunkAnswered
  \/ ChunkUnanswered
  \/ Local
  \/ \E t \in Taps : ServerChecks(t) \/ ServerCommits(t)
  \/ \E u \in uploads : ServerLooksUp(u) \/ ServerFiles(u)

JourneySpec == JourneyInit /\ [][JourneyNext]_journeyVars

-----------------------------------------------------------------------------
(* Properties *)

\* How long the answer of the mint took to reach the phone.
MintDelay(t) == phone[t].until - Ttl - phone[t].made

\* A code read off a phone that was still showing it is filed as a replay only
\* if the answer to its mint took longer than the slack between the two limits
\* (OFFLINE_READ_MAX_LAG_SECONDS, BEACON_TOKEN_TTL_SECONDS): no posting, retry,
\* queueing, power cut or repeated upload after that ever makes a tap late.
LateOnlyBySlowMint ==
  \A t \in Taps : filed[t] = "rejected" => MintDelay(t) > MaxLag - Ttl

\* Every tap read off a phone arrives: it is with the reader still, or credited,
\* or on file, or the server refused it, or it was the oldest of a full queue or
\* in RAM when power was cut.  So an upload lets captures go only once each of
\* them is on file, be it by an upload that raced it
\* (sync_offline_checkin_backlog, flushBacklog).
TapsArrive ==
  \A t \in Taps :
    last.tap = t =>
      \/ cur.tap = t
      \/ t \in TapsOf(flash) \cup credited \cup refused \cup dropped \cup lost
      \/ filed[t] # "none"
=============================================================================
