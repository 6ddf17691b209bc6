--------------------------- MODULE TerminalReader ---------------------------
(***************************************************************************)
(* The reader at the lecture-room door (an ESP32 with a PN532) and the     *)
(* phones held against it                                                  *)
(* (src/ESP32_ARDUINO CODE/SUAAMS_HCE/SUAAMS_HCE.ino).                     *)
(*                                                                         *)
(* The reader is one sequential loop: it reads a code off a phone, posts   *)
(* it, keeps it in flash when no answer came, and uploads what it kept     *)
(* while no phone is in the field.  pc is where that loop is; time, the    *)
(* phones and the power switch act in between.                             *)
(*                                                                         *)
(* The reader's RAM (ram, cur, last, attempt, synced) is lost when power   *)
(* is; flash is not.  The queue is changed in RAM first and then saved, so *)
(* power may be cut in between.                                            *)
(*                                                                         *)
(* The network and the server are only how a request turns out: answered,  *)
(* sent without an answer, or not sent at all, whichever comes.  TapJourney *)
(* adds what the server makes of the requests.                             *)
(*                                                                         *)
(* Abstracted: the screen, Bluetooth, TLS, the timers that space flushes   *)
(* and pings, the choice of network; a clock that is set is right.         *)
(***************************************************************************)
EXTENDS Integers, Sequences, FiniteSets

CONSTANTS
  Taps,           \* the codes phones show, one per tap
  MaxQueue,       \* MAX_OFFLINE_QUEUE
  Chunk,          \* BACKLOG_CHUNK
  PostAttempts,   \* POST_ATTEMPTS
  Window,         \* SAME_CODE_WINDOW_MS, in ticks
  Ttl,            \* BEACON_TOKEN_TTL_SECONDS and the phone's deadline, in ticks
  MaxDelay,       \* the longest a mint's answer may take to reach the phone
  MaxClock,       \* bound: ticks that pass
  MaxReads,       \* bound: captures saved
  MaxCuts         \* bound: power cuts

NoTap == "no tap"

ASSUME ReaderAssumption ==
  /\ NoTap \notin Taps
  /\ MaxQueue \in Nat \ {0}
  /\ Chunk \in Nat \ {0}
  /\ PostAttempts \in Nat \ {0}
  /\ Window \in Nat
  /\ Ttl \in Nat \ {0}
  /\ MaxDelay \in Nat
  /\ MaxClock \in Nat \ {0}
  /\ MaxReads \in Nat
  /\ MaxCuts \in Nat

VARIABLES
  clock,          \* time, in ticks; 0 stands for "not known"
  phone,          \* the code each phone shows: when made, until when shown
  pc,             \* where the reader's loop is
  cur,            \* the capture being submitted or saved
  attempt,        \* which attempt of the POST is under way
  last,           \* lastSubmittedToken and lastSubmittedAt
  synced,         \* the clock was set since boot
  ram,            \* g_backlog
  flash,          \* the saved copy of it
  told,           \* history: taps the server gave a final answer to
  dropped,        \* history: taps dropped from a full queue
  lost,           \* history: taps in RAM only when power was cut
  captured,       \* history: every capture saved, in order
  cuts            \* power cuts so far

historyVars == <<told, dropped, lost, captured>>
vars == <<clock, phone, pc, cur, attempt, last, synced, ram, flash,
          historyVars, cuts>>

-----------------------------------------------------------------------------
Times == 0..MaxClock
Capture == [tap : Taps, at : Times]
NoCapture == [tap |-> NoTap, at |-> 0]
Shown == [made : Times, until : 0..(MaxClock + Ttl)]

TapsOf(s) == {s[i].tap : i \in DOMAIN s}

TypeOK ==
  /\ clock \in 1..MaxClock
  /\ phone \in [Taps -> Shown]
  /\ pc \in {"loop", "ready", "post", "save", "flush"}
  /\ cur \in Capture \cup {NoCapture}
  /\ attempt \in 0..PostAttempts
  /\ last \in [tap : Taps \cup {NoTap}, at : Times]
  /\ synced \in BOOLEAN
  /\ ram \in Seq(Capture) /\ Len(ram) <= MaxQueue
  /\ flash \in Seq(Capture) /\ Len(flash) <= MaxQueue
  /\ told \subseteq Taps
  /\ dropped \subseteq Taps
  /\ lost \subseteq Taps
  /\ captured \in Seq(Capture)
  /\ cuts \in 0..MaxCuts

Init ==
  /\ clock = 1
  /\ phone = [t \in Taps |-> [made |-> 0, until |-> 0]]
  /\ pc = "loop"
  /\ cur = NoCapture
  /\ attempt = 0
  /\ last = [tap |-> NoTap, at |-> 0]
  /\ synced = FALSE
  /\ ram = <<>>
  /\ flash = <<>>
  /\ told = {}
  /\ dropped = {}
  /\ lost = {}
  /\ captured = <<>>
  /\ cuts = 0

-----------------------------------------------------------------------------
(* The phone *)

\* The answer of a mint reaches the phone, which shows the code for Ttl from
\* NOW (SuaamsHceService.setBeaconToken), not from when the server made it.
ShowCode(t) ==
  /\ phone[t].made = 0
  /\ \E delay \in 0..MaxDelay :
       /\ delay < clock
       /\ phone' = [phone EXCEPT ![t] =
                      [made |-> clock - delay, until |-> clock + Ttl]]
  /\ UNCHANGED <<clock, pc, cur, attempt, last, synced, ram, flash,
                 historyVars, cuts>>

\* liveToken: nothing is served at or after the deadline.
Serves(t) == phone[t].made # 0 /\ clock < phone[t].until

-----------------------------------------------------------------------------
(* The reader's loop *)

\* A short gap between reads in place of the comparison with the last code.
HeldForOneTick(t) == last.tap = t /\ clock - last.at < 1

\* The phone of the last tap is still on the reader.
StillHeld(t) == last.tap = t /\ clock - last.at < Window

\* readTimeNow: 0 until the clock was set.
ReadTimeNow == IF synced THEN clock ELSE 0

\* readBeacon and the comparison with the last code, which is remembered
\* before anything is sent.
ReadTap(t) ==
  /\ pc = "loop"
  /\ Len(captured) < MaxReads
  /\ Serves(t)
  /\ ~StillHeld(t)
  /\ cur' = [tap |-> t, at |-> ReadTimeNow]
  /\ last' = [tap |-> t, at |-> clock]
  /\ pc' = "ready"
  /\ UNCHANGED <<clock, phone, attempt, synced, ram, flash,
                 historyVars, cuts>>

\* A full queue that refuses the newcomer.
QueueWithoutTheLast(c) == IF Len(ram) >= MaxQueue THEN ram ELSE Append(ram, c)

\* appendToBacklog: the oldest capture makes room for the newest.
QueueWith(c) ==
  Append(IF Len(ram) >= MaxQueue THEN Tail(ram) ELSE ram, c)

\* A capture stamped when it is queued, not when the phone was read.
StampedLate(c) == [c EXCEPT !.at = ReadTimeNow]

\* What is queued for the tap just read.
ToQueue(c) == c

\* The tap goes to the queue in RAM; saveBacklog is next.
Enqueue ==
  /\ ram' = QueueWith(ToQueue(cur))
  /\ dropped' = dropped \cup (TapsOf(ram) \ TapsOf(ram'))
  /\ cur' = ToQueue(cur)
  /\ pc' = "save"
  /\ attempt' = 0

\* submitBeaconToken with no network at all.
QueueOffline ==
  /\ pc = "ready"
  /\ Enqueue
  /\ UNCHANGED <<clock, phone, last, synced, flash, told, lost, captured, cuts>>

\* The pre-flight ping, then the first POST; the link may go meanwhile.
StartPost ==
  /\ pc = "ready"
  /\ pc' = "post"
  /\ attempt' = 1
  /\ UNCHANGED <<clock, phone, cur, last, synced, ram, flash,
                 historyVars, cuts>>

\* -1, no connection: nothing was sent.  Retried, then queued.
PostNoConnection ==
  /\ pc = "post"
  /\ \/ /\ attempt < PostAttempts
        /\ attempt' = attempt + 1
        /\ UNCHANGED <<pc, cur, ram, dropped>>
     \/ /\ attempt = PostAttempts
        /\ Enqueue
  /\ UNCHANGED <<clock, phone, last, synced, flash, told, lost, captured, cuts>>

\* A request without an answer taken for a refusal.
PostNoAnswerDropped ==
  /\ pc = "post"
  /\ cur' = NoCapture
  /\ attempt' = 0
  /\ pc' = "loop"
  /\ UNCHANGED <<clock, phone, last, synced, ram, flash, historyVars, cuts>>

\* Any other negative code: sent, but no answer; queued, not retried.  The
\* request may still be on its way.
PostNoAnswer ==
  /\ pc = "post"
  /\ Enqueue
  /\ UNCHANGED <<clock, phone, last, synced, flash, told, lost, captured, cuts>>

\* Any HTTP status is the server's answer and final: recorded, or refused
\* for whatever reason (expired, session ended, rate limit, server error).
PostAnswered ==
  /\ pc = "post"
  /\ told' = told \cup {cur.tap}
  /\ cur' = NoCapture
  /\ attempt' = 0
  /\ pc' = "loop"
  /\ UNCHANGED <<clock, phone, last, synced, ram, flash, dropped, lost, captured, cuts>>

\* saveBacklog.
Save ==
  /\ pc = "save"
  /\ flash' = ram
  /\ captured' = IF cur = NoCapture THEN captured ELSE Append(captured, cur)
  /\ cur' = NoCapture
  /\ pc' = "loop"
  /\ UNCHANGED <<clock, phone, attempt, last, synced, ram, told, dropped, lost, cuts>>

\* The captures of one flush, oldest first, and what stays behind.
ChunkSize == IF Len(ram) < Chunk THEN Len(ram) ELSE Chunk
Oldest == SubSeq(ram, 1, ChunkSize)
Unsent == SubSeq(ram, ChunkSize + 1, Len(ram))

\* One refused chunk empties the whole queue.
KeepNothing(accepted) == <<>>

\* A refused chunk is sent again.
KeepIfRefused(accepted) == IF accepted THEN Unsent ELSE ram

\* What an answered flush leaves queued: any answer takes the chunk out.
Remaining(accepted) == Unsent

\* flushBacklog, on an empty field: the oldest captures are posted.
SendChunk ==
  /\ pc = "loop"
  /\ ram # <<>>
  /\ pc' = "flush"
  /\ UNCHANGED <<clock, phone, cur, attempt, last, synced, ram, flash, historyVars, cuts>>

\* 200: every record of the chunk was handled.  Any other status: the rest
\* of it never will be.
FlushAnswered(accepted) ==
  /\ pc = "flush"
  /\ told' = told \cup TapsOf(Oldest)
  /\ ram' = Remaining(accepted)
  /\ pc' = "save"
  /\ UNCHANGED <<clock, phone, cur, attempt, last, synced, flash, dropped, lost, captured, cuts>>

\* No answer: the queue is kept; the request may not have arrived at all.
FlushNoAnswer ==
  /\ pc = "flush"
  /\ pc' = "loop"
  /\ UNCHANGED <<clock, phone, cur, attempt, last, synced, ram, flash, historyVars, cuts>>

\* NTP, or the Date header of an answer, sets the clock.
SyncClock ==
  /\ ~synced
  /\ synced' = TRUE
  /\ UNCHANGED <<clock, phone, pc, cur, attempt, last, ram, flash,
                 historyVars, cuts>>

\* Power is cut and comes back: setup loads the queue from flash.
PowerCut ==
  /\ cuts < MaxCuts
  /\ cuts' = cuts + 1
  /\ pc' = "loop"
  /\ ram' = flash
  /\ lost' = lost \cup ({cur.tap} \ {NoTap})
  /\ cur' = NoCapture
  /\ attempt' = 0
  /\ last' = [tap |-> NoTap, at |-> 0]
  /\ synced' = FALSE
  /\ UNCHANGED <<clock, phone, flash, told, dropped, captured>>

-----------------------------------------------------------------------------
Tick ==
  /\ clock < MaxClock
  /\ clock' = clock + 1
  /\ UNCHANGED <<phone, pc, cur, attempt, last, synced, ram, flash,
                 historyVars, cuts>>

Reader ==
  \/ \E t \in Taps : ReadTap(t)
  \/ QueueOffline
  \/ StartPost
  \/ PostNoConnection
  \/ PostNoAnswer
  \/ PostAnswered
  \/ Save
  \/ SendChunk
  \/ \E accepted \in BOOLEAN : FlushAnswered(accepted)
  \/ FlushNoAnswer
  \/ SyncClock
  \/ PowerCut

Next ==
  \/ Reader
  \/ \E t \in Taps : ShowCode(t)
  \/ Tick

Spec == Init /\ [][Next]_vars

\* The loop runs on; Wi-Fi comes back; flushes find the link up and are
\* answered again and again, with whatever status.
Fairness ==
  /\ WF_vars(QueueOffline \/ StartPost \/ PostNoConnection \/ PostNoAnswer
             \/ PostAnswered \/ Save \/ FlushNoAnswer)
  /\ SF_vars(SendChunk)
  /\ SF_vars(\E accepted \in BOOLEAN : FlushAnswered(accepted))

FairSpec == Spec /\ Fairness

-----------------------------------------------------------------------------
(* Properties *)

\* No tap read off a phone just vanishes: it is in hand, in the saved queue,
\* or the server gave its answer for it, or it was the oldest of a full
\* queue, or power was cut before it was saved.  In particular one bad
\* answer never costs captures it was not about (flushBacklog,
\* submitBeaconToken).
NothingVanishes ==
  \A t \in Taps :
    last.tap = t =>
      \/ cur.tap = t
      \/ t \in TapsOf(flash) \cup told \cup dropped \cup lost

\* .. and what was once saved leaves the queue only so: it is still in
\* flash, or answered for, or dropped as the oldest.  A power cut between an
\* answer and the save, or between a drop and the save, loses nothing.
SavedIsKept ==
  \A t \in TapsOf(captured) : t \in TapsOf(flash) \cup told \cup dropped

\* The saved queue is always the most recent captures, in the order read:
\* overflow, flushes and power cuts only ever take from its old end
\* (MAX_OFFLINE_QUEUE).
QueueIsNewest ==
  \E n \in 0..Len(captured) : flash = SubSeq(captured, n + 1, Len(captured))

\* A phone resting on the reader is submitted once per code: between two
\* submissions of one code another was read or the reader rebooted
\* (SAME_CODE_WINDOW_MS outlasts the code).
HeldPhoneSentOnce ==
  [][pc = "loop" /\ pc' = "ready" => cur'.tap # last.tap]_vars

\* Every saved capture leaves the queue in the end, even if the server
\* refuses every upload: no answer wedges it (flushBacklog).
QueueDrains ==
  \A t \in Taps : t \in TapsOf(flash) ~> t \notin TapsOf(flash)
=============================================================================
