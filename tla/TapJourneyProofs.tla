-------------------------- MODULE TapJourneyProofs --------------------------
(* Proofs about TerminalReader, and about TapJourney which extends it.        *)
(* First, for a queue, a chunk and codes of any size, what the reader keeps   *)
(* over full queues, answers and power cuts.  Then, for clocks and delays of  *)
(* any size, that a tap is late only by a slow mint, and that what the reader *)
(* lets go of has arrived.                                                    *)
EXTENDS TapJourney, TLAPS, SequenceTheorems

-----------------------------------------------------------------------------
(* Suffixes *)

\* s is the end of c.
Suffix(s, c) ==
  /\ Len(s) <= Len(c)
  /\ \A i \in 1..Len(s) : s[i] = c[Len(c) - Len(s) + i]

LEMMA SuffixIsSubSeq ==
  ASSUME NEW S, NEW s \in Seq(S), NEW c \in Seq(S), Suffix(s, c)
  PROVE  \E n \in 0..Len(c) : s = SubSeq(c, n + 1, Len(c))
<1> DEFINE n == Len(c) - Len(s)
           e == SubSeq(c, n + 1, Len(c))
<1>1. n \in 0..Len(c)
  BY DEF Suffix
<1>2. /\ e \in Seq(S)
      /\ Len(e) = Len(s)
      /\ \A i \in 1..Len(s) : e[i] = c[n + i]
  <2>1. \A i \in (n + 1)..Len(c) : c[i] \in S
    BY <1>1
  <2> QED
    BY <1>1, <2>1, SubSeqProperties
<1>3. s = e
  BY <1>2, SeqEqual DEF Suffix
<1> QED
  BY <1>1, <1>3

\* One more capture on both keeps a suffix a suffix.
LEMMA SuffixAppend ==
  ASSUME NEW S, NEW s \in Seq(S), NEW c \in Seq(S), NEW e \in S, Suffix(s, c)
  PROVE  Suffix(Append(s, e), Append(c, e))
<1> DEFINE sx == Append(s, e)
           cx == Append(c, e)
<1>1. /\ Len(sx) = Len(s) + 1
      /\ \A i \in 1..Len(s) : sx[i] = s[i]
      /\ sx[Len(s) + 1] = e
  BY AppendProperties
<1>2. /\ Len(cx) = Len(c) + 1
      /\ \A i \in 1..Len(c) : cx[i] = c[i]
      /\ cx[Len(c) + 1] = e
  BY AppendProperties
<1>3. Len(s) \in Nat /\ Len(c) \in Nat
  BY LenProperties
<1> HIDE DEF sx, cx
<1>4. ASSUME NEW i \in 1..Len(sx)
      PROVE  sx[i] = cx[Len(cx) - Len(sx) + i]
  <2>1. CASE i = Len(s) + 1
    BY <1>1, <1>2, <1>3, <2>1
  <2>2. CASE i \in 1..Len(s)
    <3> DEFINE m == Len(c) - Len(s) + i
    <3>1. m \in 1..Len(c)
      BY <1>3, <2>2 DEF Suffix
    <3>2. m = Len(cx) - Len(sx) + i
      BY <1>1, <1>2, <1>3, <2>2
    <3>3. s[i] = c[m]
      BY <2>2 DEF Suffix
    <3> HIDE DEF m
    <3>4. sx[i] = s[i] /\ cx[m] = c[m]
      BY <1>1, <1>2, <2>2, <3>1
    <3> QED
      BY <3>2, <3>3, <3>4
  <2> QED
    BY <1>1, <1>3, <2>1, <2>2
<1>5. Suffix(sx, cx)
  BY <1>1, <1>2, <1>3, <1>4 DEF Suffix
<1> QED
  BY <1>5 DEF sx, cx

\* What is left of a suffix when its oldest go is a suffix.
LEMMA SuffixTail ==
  ASSUME NEW S, NEW s \in Seq(S), NEW c \in Seq(S), s # <<>>, Suffix(s, c)
  PROVE  Suffix(Tail(s), c)
  BY HeadTailProperties DEF Suffix

LEMMA SuffixSubSeq ==
  ASSUME NEW S, NEW s \in Seq(S), NEW c \in Seq(S), Suffix(s, c),
         NEW k \in 0..Len(s)
  PROVE  Suffix(SubSeq(s, k + 1, Len(s)), c)
<1> DEFINE e == SubSeq(s, k + 1, Len(s))
<1>1. \A i \in (k + 1)..Len(s) : s[i] \in S
  OBVIOUS
<1>2. /\ Len(e) = Len(s) - k
      /\ \A i \in 1..Len(e) : e[i] = s[k + i]
  BY <1>1, SubSeqProperties
<1>3. Len(s) \in Nat /\ Len(c) \in Nat
  BY LenProperties
<1> HIDE DEF e
<1>4. ASSUME NEW i \in 1..Len(e)
      PROVE  e[i] = c[Len(c) - Len(e) + i]
  <2>1. k + i \in 1..Len(s)
    BY <1>2, <1>3
  <2> QED
    BY <1>2, <1>3, <2>1 DEF Suffix
<1>5. Suffix(e, c)
  BY <1>2, <1>3, <1>4 DEF Suffix
<1> QED
  BY <1>5 DEF e

-----------------------------------------------------------------------------
(* The queue *)

\* A capture that is queued: the queue stays within its limit, holds the new
\* capture, and is still the newest of what was captured.
LEMMA QueueWithKeeps ==
  ASSUME TypeOK, NEW c \in Capture
  PROVE  /\ QueueWith(c) \in Seq(Capture)
         /\ Len(QueueWith(c)) <= MaxQueue
         /\ c.tap \in TapsOf(QueueWith(c))
         /\ Suffix(ram, captured) => Suffix(QueueWith(c), Append(captured, c))
<1> DEFINE kept == IF Len(ram) >= MaxQueue THEN Tail(ram) ELSE ram
<1>1. ram \in Seq(Capture) /\ Len(ram) <= MaxQueue /\ captured \in Seq(Capture)
  BY DEF TypeOK
<1>2. Len(ram) >= MaxQueue => ram # <<>>
  BY <1>1, ReaderAssumption DEF ReaderAssumption
<1>3. kept \in Seq(Capture) /\ Len(kept) < MaxQueue
  BY <1>1, <1>2, HeadTailProperties, ReaderAssumption DEF ReaderAssumption
<1>4. Suffix(ram, captured) => Suffix(kept, captured)
  BY <1>1, <1>2, SuffixTail
<1>5. QueueWith(c) = Append(kept, c)
  BY DEF QueueWith
<1> HIDE DEF kept
<1>6. /\ QueueWith(c) \in Seq(Capture)
      /\ Len(QueueWith(c)) = Len(kept) + 1
      /\ QueueWith(c)[Len(kept) + 1] = c
  BY <1>3, <1>5, AppendProperties
<1>7. Suffix(ram, captured) => Suffix(QueueWith(c), Append(captured, c))
  BY <1>1, <1>3, <1>4, <1>5, SuffixAppend
<1>8. c.tap \in TapsOf(QueueWith(c))
  <2>1. Len(kept) + 1 \in DOMAIN QueueWith(c)
    BY <1>3, <1>6
  <2> QED
    BY <2>1, <1>6 DEF TapsOf
<1>9. Len(QueueWith(c)) <= MaxQueue
  BY <1>3, <1>6, ReaderAssumption DEF ReaderAssumption
<1> QED
  BY <1>6, <1>7, <1>8, <1>9

\* The taps of captures are taps.
LEMMA TapsOfTyped ==
  ASSUME NEW s \in Seq(Capture)
  PROVE  TapsOf(s) \subseteq Taps
<1>1. ASSUME NEW i \in DOMAIN s
      PROVE  s[i].tap \in Taps
  <2>1. s[i] \in Capture
    OBVIOUS
  <2> QED
    BY <2>1 DEF Capture
<1> QED
  BY <1>1 DEF TapsOf

\* A flush splits the queue: what is not uploaded stays, in order.
LEMMA FlushSplits ==
  ASSUME TypeOK
  PROVE  /\ Unsent \in Seq(Capture)
         /\ Len(Unsent) <= MaxQueue
         /\ TapsOf(Oldest) \subseteq Taps
         /\ TapsOf(ram) \subseteq TapsOf(Oldest) \cup TapsOf(Unsent)
         /\ Suffix(ram, captured) => Suffix(Unsent, captured)
<1>1. ram \in Seq(Capture) /\ Len(ram) <= MaxQueue /\ captured \in Seq(Capture)
  BY DEF TypeOK
<1>2. ChunkSize \in 0..Len(ram)
  BY <1>1, ReaderAssumption DEF ChunkSize, ReaderAssumption
<1>3. /\ Oldest \in Seq(Capture)
      /\ Len(Oldest) = ChunkSize
      /\ \A i \in 1..ChunkSize : Oldest[i] = ram[i]
  <2>1. \A i \in 1..ChunkSize : ram[i] \in Capture
    BY <1>1, <1>2
  <2> QED
    BY <1>2, <2>1, SubSeqProperties DEF Oldest
<1>4. /\ Unsent \in Seq(Capture)
      /\ Len(Unsent) = Len(ram) - ChunkSize
      /\ \A i \in 1..Len(Unsent) : Unsent[i] = ram[ChunkSize + i]
  <2>1. \A i \in (ChunkSize + 1)..Len(ram) : ram[i] \in Capture
    BY <1>1, <1>2
  <2> QED
    BY <1>1, <1>2, <2>1, SubSeqProperties DEF Unsent
<1>5. TapsOf(Oldest) \subseteq Taps
  BY <1>3, TapsOfTyped
<1>6. ASSUME NEW i \in DOMAIN ram
      PROVE  ram[i].tap \in TapsOf(Oldest) \cup TapsOf(Unsent)
  <2>1. CASE i <= ChunkSize
    <3>1. i \in DOMAIN Oldest /\ Oldest[i] = ram[i]
      BY <1>1, <1>2, <1>3, <2>1
    <3> QED
      BY <3>1 DEF TapsOf
  <2>2. CASE i > ChunkSize
    <3> DEFINE j == i - ChunkSize
    <3>1. j \in DOMAIN Unsent /\ Unsent[j] = ram[i]
      BY <1>1, <1>2, <1>4, <2>2
    <3> QED
      BY <3>1 DEF TapsOf
  <2> QED
    BY <1>1, <1>2, <2>1, <2>2
<1>7. TapsOf(ram) \subseteq TapsOf(Oldest) \cup TapsOf(Unsent)
  BY <1>6 DEF TapsOf
<1>8. Suffix(ram, captured) => Suffix(Unsent, captured)
  BY <1>1, <1>2, SuffixSubSeq DEF Unsent
<1>9. Len(Unsent) <= MaxQueue
  BY <1>1, <1>2, <1>4, ReaderAssumption DEF ReaderAssumption
<1> QED
  BY <1>4, <1>5, <1>7, <1>8, <1>9

\* One more capture adds at most its own tap.
LEMMA TapsOfAppend ==
  ASSUME NEW s \in Seq(Capture), NEW c \in Capture
  PROVE  TapsOf(Append(s, c)) \subseteq TapsOf(s) \cup {c.tap}
<1>1. ASSUME NEW i \in DOMAIN Append(s, c)
      PROVE  Append(s, c)[i].tap \in TapsOf(s) \cup {c.tap}
  <2>1. Len(Append(s, c)) = Len(s) + 1
    BY AppendProperties
  <2>2. CASE i \in DOMAIN s
    BY <2>2, AppendProperties DEF TapsOf
  <2>3. CASE i = Len(s) + 1
    BY <2>3, AppendProperties
  <2> QED
    BY <2>1, <2>2, <2>3, AppendProperties
<1> QED
  BY <1>1 DEF TapsOf

-----------------------------------------------------------------------------
(* The inductive invariant *)

\* A capture is in hand exactly while it is submitted; away from a save,
\* flash is what is in RAM.
LoopAgrees ==
  /\ pc \in {"ready", "post"} => cur \in Capture
  /\ pc \in {"loop", "flush"} => cur = NoCapture
  /\ pc # "save" => ram = flash

\* The queue in RAM is the newest of what is captured, the capture about to
\* be saved included.
QueuesInOrder ==
  /\ Suffix(flash, captured)
  /\ pc = "save" =>
       Suffix(ram, IF cur = NoCapture THEN captured ELSE Append(captured, cur))

\* What is in flash but no longer in RAM was answered for or dropped, and
\* the capture about to be saved is in RAM.
Accounted ==
  /\ TapsOf(flash) \subseteq TapsOf(ram) \cup told \cup dropped
  /\ pc = "save" /\ cur # NoCapture => cur.tap \in TapsOf(ram)

\* A code is shown for at most Ttl, and the last one read was shown by then.
CodeEnds ==
  \A t \in Taps :
    /\ phone[t].made # 0 => phone[t].until <= clock + Ttl
    /\ last.tap = t => phone[t].made # 0 /\ phone[t].until <= last.at + Ttl

Inv ==
  /\ TypeOK
  /\ LoopAgrees
  /\ QueuesInOrder
  /\ Accounted
  /\ NothingVanishes
  /\ SavedIsKept
  /\ CodeEnds

-----------------------------------------------------------------------------
(* The types *)

LEMMA InitTyped == Init => TypeOK
<1> SUFFICES ASSUME Init PROVE TypeOK
  OBVIOUS
<1> USE ReaderAssumption DEF ReaderAssumption
<1>1. phone \in [Taps -> Shown]
  BY DEF Init, Shown, Times
<1>2. <<>> \in Seq(Capture) /\ Len(<<>>) = 0
  OBVIOUS
<1>3. last \in [tap : Taps \cup {NoTap}, at : Times]
  BY DEF Init, Times
<1>4. /\ clock \in 1..MaxClock
      /\ attempt \in 0..PostAttempts
      /\ cuts \in 0..MaxCuts
  BY DEF Init
<1>5. /\ ram \in Seq(Capture) /\ Len(ram) <= MaxQueue
      /\ flash \in Seq(Capture) /\ Len(flash) <= MaxQueue
      /\ captured \in Seq(Capture)
  BY <1>2 DEF Init
<1>6. /\ pc \in {"loop", "ready", "post", "save", "flush"}
      /\ cur \in Capture \cup {NoCapture}
      /\ synced \in BOOLEAN
      /\ told \subseteq Taps /\ dropped \subseteq Taps /\ lost \subseteq Taps
  BY DEF Init
<1> QED
  BY <1>1, <1>3, <1>4, <1>5, <1>6 DEF TypeOK

\* The queue after the tap in hand is queued.
LEMMA EnqueueTyped ==
  ASSUME TypeOK, cur \in Capture, Enqueue
  PROVE  /\ ram' \in Seq(Capture) /\ Len(ram') <= MaxQueue
         /\ dropped' \subseteq Taps
         /\ cur' \in Capture /\ cur' = cur
         /\ pc' = "save"
         /\ attempt' \in 0..PostAttempts
<1>1. ram' = QueueWith(cur) /\ cur' = cur
  BY DEF Enqueue, ToQueue
<1>2. TapsOf(ram) \subseteq Taps
  BY TapsOfTyped DEF TypeOK
<1> QED
  BY <1>1, <1>2, QueueWithKeeps, ReaderAssumption DEF Enqueue, TypeOK, ReaderAssumption

LEMMA StepTyped ==
  ASSUME TypeOK, LoopAgrees, [Next]_vars
  PROVE  TypeOK'
<1> USE ReaderAssumption DEF ReaderAssumption, historyVars
<1>1. ASSUME NEW t \in Taps, ReadTap(t)
      PROVE  TypeOK'
  <2>1. cur' \in Capture
    BY <1>1 DEF ReadTap, ReadTimeNow, Capture, Times, TypeOK
  <2>2. last' \in [tap : Taps \cup {NoTap}, at : Times]
    BY <1>1 DEF ReadTap, Times, TypeOK
  <2> QED
    BY <1>1, <2>1, <2>2 DEF ReadTap, TypeOK
<1>2. CASE QueueOffline
  <2>1. cur \in Capture /\ Enqueue
    BY <1>2 DEF QueueOffline, LoopAgrees
  <2> QED
    BY <1>2, <2>1, EnqueueTyped DEF QueueOffline, TypeOK
<1>3. CASE StartPost
  BY <1>3 DEF StartPost, TypeOK
<1>4. CASE PostNoConnection
  <2>1. CASE attempt < PostAttempts /\ attempt' = attempt + 1 /\ UNCHANGED <<pc, cur, ram, dropped>>
    BY <1>4, <2>1 DEF PostNoConnection, TypeOK
  <2>2. CASE Enqueue
    <3>1. cur \in Capture
      BY <1>4 DEF PostNoConnection, LoopAgrees
    <3> QED
      BY <1>4, <2>2, <3>1, EnqueueTyped DEF PostNoConnection, TypeOK
  <2> QED
    BY <1>4, <2>1, <2>2 DEF PostNoConnection
<1>5. CASE PostNoAnswer
  <2>1. cur \in Capture /\ Enqueue
    BY <1>5 DEF PostNoAnswer, LoopAgrees
  <2> QED
    BY <1>5, <2>1, EnqueueTyped DEF PostNoAnswer, TypeOK
<1>6. CASE PostAnswered
  <2>1. cur.tap \in Taps
    BY <1>6 DEF PostAnswered, LoopAgrees, Capture
  <2> QED
    BY <1>6, <2>1 DEF PostAnswered, TypeOK
<1>7. CASE Save
  <2>1. captured' \in Seq(Capture)
    BY <1>7, AppendProperties DEF Save, TypeOK
  <2> QED
    BY <1>7, <2>1 DEF Save, TypeOK
<1>8. CASE SendChunk
  BY <1>8 DEF SendChunk, TypeOK
<1>9. ASSUME NEW accepted \in BOOLEAN, FlushAnswered(accepted)
      PROVE  TypeOK'
  BY <1>9, FlushSplits DEF FlushAnswered, Remaining, TypeOK
<1>10. CASE FlushNoAnswer
  BY <1>10 DEF FlushNoAnswer, TypeOK
<1>11. CASE SyncClock
  BY <1>11 DEF SyncClock, TypeOK
<1>12. CASE PowerCut
  <2>1. {cur.tap} \ {NoTap} \subseteq Taps
    BY DEF TypeOK, Capture, NoCapture
  <2>2. last' \in [tap : Taps \cup {NoTap}, at : Times]
    BY <1>12 DEF PowerCut, Times
  <2>3. /\ clock' \in 1..MaxClock
        /\ phone' \in [Taps -> Shown]
        /\ attempt' \in 0..PostAttempts
        /\ cuts' \in 0..MaxCuts
    BY <1>12 DEF PowerCut, TypeOK
  <2>4. /\ ram' \in Seq(Capture) /\ Len(ram') <= MaxQueue
        /\ flash' \in Seq(Capture) /\ Len(flash') <= MaxQueue
        /\ captured' \in Seq(Capture)
    BY <1>12 DEF PowerCut, TypeOK
  <2>5. /\ pc' \in {"loop", "ready", "post", "save", "flush"}
        /\ cur' \in Capture \cup {NoCapture}
        /\ synced' \in BOOLEAN
        /\ told' \subseteq Taps /\ dropped' \subseteq Taps /\ lost' \subseteq Taps
    BY <1>12, <2>1 DEF PowerCut, TypeOK
  <2> QED
    BY <2>2, <2>3, <2>4, <2>5 DEF TypeOK
<1>13. ASSUME NEW t \in Taps, ShowCode(t)
       PROVE  TypeOK'
  <2> PICK delay \in 0..MaxDelay :
             /\ delay < clock
             /\ phone' = [phone EXCEPT ![t] =
                            [made |-> clock - delay, until |-> clock + Ttl]]
    BY <1>13 DEF ShowCode
  <2>1. [made |-> clock - delay, until |-> clock + Ttl] \in Shown
    BY DEF Shown, Times, TypeOK
  <2>2. phone' \in [Taps -> Shown]
    BY <2>1 DEF TypeOK
  <2> QED
    BY <1>13, <2>2 DEF ShowCode, TypeOK
<1>14. CASE Tick
  BY <1>14 DEF Tick, TypeOK
<1>15. CASE UNCHANGED vars
  BY <1>15 DEF vars, TypeOK
<1> QED
  BY <1>1, <1>2, <1>3, <1>4, <1>5, <1>6, <1>7, <1>8, <1>9, <1>10, <1>11, <1>12,
     <1>13, <1>14, <1>15 DEF Next, Reader

-----------------------------------------------------------------------------
(* Where the loop is, and the code last read *)

LEMMA StepLoopAgrees ==
  ASSUME TypeOK, LoopAgrees, [Next]_vars
  PROVE  LoopAgrees'
<1> USE DEF LoopAgrees, historyVars
<1>1. ASSUME NEW t \in Taps, ReadTap(t)
      PROVE  LoopAgrees'
  <2>1. cur' = [tap |-> t, at |-> ReadTimeNow] /\ ReadTimeNow \in Times
    BY <1>1, ReaderAssumption DEF ReadTap, ReadTimeNow, Times, TypeOK, ReaderAssumption
  <2> QED
    BY <1>1, <2>1 DEF ReadTap, Capture
<1>2. ASSUME Enqueue
      PROVE  LoopAgrees'
  BY <1>2 DEF Enqueue
<1>3. CASE StartPost \/ PostAnswered \/ Save \/ SendChunk \/ FlushNoAnswer \/ SyncClock
  BY <1>3 DEF StartPost, PostAnswered, Save, SendChunk, FlushNoAnswer, SyncClock
<1>4. CASE PostNoConnection
  BY <1>4, <1>2 DEF PostNoConnection
<1>5. ASSUME NEW accepted \in BOOLEAN, FlushAnswered(accepted)
      PROVE  LoopAgrees'
  BY <1>5 DEF FlushAnswered
<1>6. CASE PowerCut
  BY <1>6 DEF PowerCut
<1>7. CASE (\E t \in Taps : ShowCode(t)) \/ Tick \/ UNCHANGED vars
  BY <1>7 DEF ShowCode, Tick, vars
<1> QED
  BY <1>1, <1>2, <1>3, <1>4, <1>5, <1>6, <1>7
  DEF Next, Reader, QueueOffline, PostNoAnswer

LEMMA StepCodeEnds ==
  ASSUME TypeOK, CodeEnds, [Next]_vars
  PROVE  CodeEnds'
<1> USE ReaderAssumption DEF ReaderAssumption, CodeEnds, historyVars
<1>1. ASSUME NEW t \in Taps, ReadTap(t)
      PROVE  CodeEnds'
  BY <1>1 DEF ReadTap, Serves, TypeOK
<1>2. ASSUME UNCHANGED <<clock, phone, last>>
      PROVE  CodeEnds'
  BY <1>2
<1>3. CASE PowerCut
  BY <1>3 DEF PowerCut
<1>4. ASSUME NEW t \in Taps, ShowCode(t)
      PROVE  CodeEnds'
  <2>1. phone'[t].until = clock + Ttl /\ \A u \in Taps \ {t} : phone'[u] = phone[u]
    BY <1>4 DEF ShowCode, TypeOK
  <2>2. phone[t].made = 0 /\ UNCHANGED <<clock, last>>
    BY <1>4 DEF ShowCode
  <2> QED
    BY <2>1, <2>2 DEF TypeOK
<1>5. CASE Tick
  <2>1. clock' = clock + 1 /\ UNCHANGED <<phone, last>>
    BY <1>5 DEF Tick
  <2>2. ASSUME NEW u \in Taps
        PROVE  phone[u].until \in Int
    BY DEF TypeOK, Shown
  <2> QED
    BY <2>1, <2>2 DEF TypeOK
<1> QED
  BY <1>1, <1>2, <1>3, <1>4, <1>5
  DEF Next, Reader, QueueOffline, StartPost, PostNoConnection, PostNoAnswer,
      PostAnswered, Save, SendChunk, FlushAnswered, FlushNoAnswer, SyncClock, vars

-----------------------------------------------------------------------------
(* What the queue holds *)

QueueSafe == QueuesInOrder /\ Accounted /\ NothingVanishes /\ SavedIsKept

LEMMA EnqueueSafe ==
  ASSUME TypeOK, LoopAgrees, QueueSafe, pc \in {"ready", "post"}, Enqueue,
         UNCHANGED <<last, flash, told, lost, captured>>
  PROVE  QueueSafe'
<1> USE DEF QueueSafe
<1>1. cur \in Capture /\ cur # NoCapture /\ cur' = cur
  <2>1. cur \in Capture /\ cur' = cur
    BY DEF LoopAgrees, Enqueue, ToQueue
  <2>2. cur.tap # NoTap
    BY <2>1, ReaderAssumption DEF Capture, ReaderAssumption
  <2> QED
    BY <2>1, <2>2 DEF NoCapture
<1>2. ram' = QueueWith(cur) /\ pc' = "save"
  BY DEF Enqueue, ToQueue
<1>3. Suffix(ram, captured)
  BY DEF LoopAgrees, QueuesInOrder
<1>4. QueuesInOrder'
  BY <1>1, <1>2, <1>3, QueueWithKeeps DEF QueuesInOrder
<1>5. TapsOf(ram) \subseteq TapsOf(ram') \cup dropped' /\ dropped \subseteq dropped'
  BY DEF Enqueue
<1>6. Accounted'
  BY <1>1, <1>2, <1>5, QueueWithKeeps DEF Accounted
<1>7. NothingVanishes' /\ SavedIsKept'
  BY <1>1, <1>5 DEF NothingVanishes, SavedIsKept
<1> QED
  BY <1>4, <1>6, <1>7

LEMMA SaveSafe ==
  ASSUME TypeOK, QueueSafe, Save
  PROVE  QueueSafe'
<1> USE DEF QueueSafe
<1>1. /\ pc = "save" /\ pc' = "loop"
      /\ flash' = ram /\ cur' = NoCapture
      /\ captured' = IF cur = NoCapture THEN captured ELSE Append(captured, cur)
      /\ UNCHANGED <<last, ram, told, dropped, lost>>
  BY DEF Save
<1>2. QueuesInOrder'
  BY <1>1 DEF QueuesInOrder
<1>3. Accounted'
  BY <1>1 DEF Accounted
<1>4. ASSUME NEW t \in Taps, t \in TapsOf(flash) \/ (cur # NoCapture /\ cur.tap = t)
      PROVE  t \in TapsOf(flash') \cup told' \cup dropped'
  BY <1>1, <1>4 DEF Accounted
<1>5. TapsOf(captured') \subseteq
        TapsOf(captured) \cup IF cur = NoCapture THEN {} ELSE {cur.tap}
  BY <1>1, TapsOfAppend DEF TypeOK
<1>6. TapsOf(captured) \subseteq Taps
  BY TapsOfTyped DEF TypeOK
<1>7. ASSUME NEW t \in TapsOf(captured')
      PROVE  t \in TapsOf(flash') \cup told' \cup dropped'
  <2>1. CASE t \in TapsOf(captured)
    BY <1>1, <1>4, <1>6, <2>1 DEF SavedIsKept
  <2>2. CASE cur # NoCapture /\ t = cur.tap
    <3>1. t \in Taps
      BY <2>2 DEF TypeOK, Capture
    <3> QED
      BY <1>4, <2>2, <3>1
  <2> QED
    BY <1>5, <2>1, <2>2
<1>8. SavedIsKept'
  BY <1>7 DEF SavedIsKept
<1>9. ASSUME NEW t \in Taps, last'.tap = t
      PROVE  t \in TapsOf(flash') \cup told' \cup dropped' \cup lost'
  <2>1. cur.tap = t => cur # NoCapture
    BY ReaderAssumption DEF NoCapture, ReaderAssumption
  <2>2. t \in TapsOf(flash) \cup told \cup dropped \cup lost \/ cur.tap = t
    BY <1>1, <1>9 DEF NothingVanishes
  <2> QED
    BY <1>1, <1>4, <2>1, <2>2
<1>10. NothingVanishes'
  BY <1>9 DEF NothingVanishes
<1> QED
  BY <1>2, <1>3, <1>8, <1>10

LEMMA FlushAnsweredSafe ==
  ASSUME TypeOK, LoopAgrees, QueueSafe, NEW accepted \in BOOLEAN,
         FlushAnswered(accepted)
  PROVE  QueueSafe'
<1> USE DEF QueueSafe
<1>1. /\ ram' = Unsent /\ told' = told \cup TapsOf(Oldest)
      /\ cur = NoCapture /\ ram = flash /\ pc = "flush" /\ pc' = "save"
      /\ UNCHANGED <<cur, last, flash, dropped, lost, captured>>
  BY DEF FlushAnswered, Remaining, LoopAgrees, historyVars
<1>2. QueuesInOrder'
  BY <1>1, FlushSplits DEF QueuesInOrder
<1>3. Accounted'
  BY <1>1, FlushSplits DEF Accounted
<1>4. NothingVanishes' /\ SavedIsKept'
  BY <1>1 DEF NothingVanishes, SavedIsKept
<1> QED
  BY <1>2, <1>3, <1>4

LEMMA PowerCutSafe ==
  ASSUME TypeOK, QueueSafe, PowerCut
  PROVE  QueueSafe'
<1> USE DEF QueueSafe
<1>1. /\ pc' = "loop" /\ ram' = flash /\ cur' = NoCapture
      /\ last' = [tap |-> NoTap, at |-> 0]
      /\ UNCHANGED <<flash, told, dropped, captured>>
  BY DEF PowerCut
<1>2. QueuesInOrder' /\ Accounted' /\ SavedIsKept'
  BY <1>1 DEF QueuesInOrder, Accounted, SavedIsKept
<1>3. NothingVanishes'
  <2>1. last'.tap \notin Taps
    BY <1>1, ReaderAssumption DEF ReaderAssumption
  <2> QED
    BY <2>1 DEF NothingVanishes
<1> QED
  BY <1>2, <1>3

LEMMA StepQueueSafe ==
  ASSUME TypeOK, LoopAgrees, QueueSafe, [Next]_vars
  PROVE  QueueSafe'
<1> USE DEF historyVars
<1>1. ASSUME NEW t \in Taps, ReadTap(t)
      PROVE  QueueSafe'
  <2>1. /\ pc = "loop" /\ pc' = "ready" /\ cur'.tap = t /\ last'.tap = t
        /\ UNCHANGED <<ram, flash, told, dropped, lost, captured>>
    BY <1>1 DEF ReadTap
  <2> QED
    BY <2>1 DEF QueueSafe, QueuesInOrder, Accounted, NothingVanishes, SavedIsKept
<1>2. CASE QueueOffline \/ PostNoAnswer
  BY <1>2, EnqueueSafe DEF QueueOffline, PostNoAnswer
<1>3. ASSUME pc # "save", pc' # "save",
             UNCHANGED <<cur, last, ram, flash, told, dropped, lost, captured>>
      PROVE  QueueSafe'
  BY <1>3 DEF QueueSafe, QueuesInOrder, Accounted, NothingVanishes, SavedIsKept
<1>4. CASE PostNoConnection
  <2>1. CASE Enqueue
    BY <1>4, <2>1, EnqueueSafe DEF PostNoConnection
  <2>2. CASE UNCHANGED <<pc, cur, ram, dropped>>
    BY <1>3, <1>4, <2>2 DEF PostNoConnection
  <2> QED
    BY <1>4, <2>1, <2>2 DEF PostNoConnection
<1>5. CASE PostAnswered
  <2>1. /\ pc = "post" /\ pc' = "loop" /\ told' = told \cup {cur.tap}
        /\ UNCHANGED <<last, ram, flash, dropped, lost, captured>>
    BY <1>5 DEF PostAnswered
  <2> QED
    BY <2>1 DEF QueueSafe, QueuesInOrder, Accounted, NothingVanishes, SavedIsKept
<1>6. CASE StartPost \/ SendChunk \/ FlushNoAnswer
  BY <1>3, <1>6 DEF StartPost, SendChunk, FlushNoAnswer
<1>7. CASE Save
  BY <1>7, SaveSafe
<1>8. ASSUME NEW accepted \in BOOLEAN, FlushAnswered(accepted)
      PROVE  QueueSafe'
  BY <1>8, FlushAnsweredSafe
<1>9. CASE PowerCut
  BY <1>9, PowerCutSafe
<1>10. ASSUME UNCHANGED <<pc, cur, last, ram, flash, told, dropped, lost, captured>>
       PROVE  QueueSafe'
  BY <1>10 DEF QueueSafe, QueuesInOrder, Accounted, NothingVanishes, SavedIsKept
<1>11. CASE SyncClock \/ (\E t \in Taps : ShowCode(t)) \/ Tick \/ UNCHANGED vars
  BY <1>10, <1>11 DEF SyncClock, ShowCode, Tick, vars
<1> QED
  BY <1>1, <1>2, <1>4, <1>5, <1>6, <1>7, <1>8, <1>9, <1>11 DEF Next, Reader

-----------------------------------------------------------------------------
(* The theorems *)

LEMMA InitInv == Init => Inv
<1> SUFFICES ASSUME Init PROVE Inv
  OBVIOUS
<1>1. TypeOK
  BY InitTyped
<1>2. LoopAgrees
  BY DEF Init, LoopAgrees
<1>3. TapsOf(<<>>) = {}
  BY DEF TapsOf
<1>4. Suffix(<<>>, <<>>)
  BY DEF Suffix
<1>5. NoTap \notin Taps
  BY ReaderAssumption DEF ReaderAssumption
<1>6. QueuesInOrder /\ Accounted /\ SavedIsKept
  BY <1>3, <1>4 DEF Init, QueuesInOrder, Accounted, SavedIsKept
<1>7. NothingVanishes
  BY <1>5 DEF Init, NothingVanishes
<1>8. CodeEnds
  BY <1>5 DEF Init, CodeEnds
<1> QED
  BY <1>1, <1>2, <1>6, <1>7, <1>8 DEF Inv

LEMMA StepInv == Inv /\ [Next]_vars => Inv'
  BY StepTyped, StepLoopAgrees, StepCodeEnds, StepQueueSafe DEF Inv, QueueSafe

LEMMA InvAlways == Spec => []Inv
  BY InitInv, StepInv, PTL DEF Spec

\* The reader's state keeps its types, the queue's limit included.
THEOREM TypeCorrect == Spec => []TypeOK
<1>1. Inv => TypeOK
  BY DEF Inv
<1> QED
  BY <1>1, InvAlways, PTL

\* No tap read off a phone just vanishes (flushBacklog, submitBeaconToken).
THEOREM TapsAccountedFor == Spec => []NothingVanishes
<1>1. Inv => NothingVanishes
  BY DEF Inv
<1> QED
  BY <1>1, InvAlways, PTL

\* A saved capture leaves flash only when answered for, or as the oldest of
\* a full queue, wherever power is cut (saveBacklog).
THEOREM SavedStays == Spec => []SavedIsKept
<1>1. Inv => SavedIsKept
  BY DEF Inv
<1> QED
  BY <1>1, InvAlways, PTL

\* The saved queue is always the most recent captures, in the order read
\* (appendToBacklog, flushBacklog).
THEOREM QueueInOrder == Spec => []QueueIsNewest
<1>1. Inv => QueueIsNewest
  <2> SUFFICES ASSUME Inv PROVE QueueIsNewest
    OBVIOUS
  <2>1. flash \in Seq(Capture) /\ captured \in Seq(Capture) /\ Suffix(flash, captured)
    BY DEF Inv, TypeOK, QueuesInOrder
  <2> QED
    BY <2>1, SuffixIsSubSeq DEF QueueIsNewest
<1> QED
  BY <1>1, InvAlways, PTL

\* Where the same-code window outlasts the code, a phone resting on the
\* reader is submitted once (SAME_CODE_WINDOW_MS).
THEOREM HeldPhoneOnce ==
  ASSUME Ttl <= Window
  PROVE  Spec => HeldPhoneSentOnce
<1>1. ASSUME Inv, [Next]_vars, pc = "loop", pc' = "ready"
      PROVE  cur'.tap # last.tap
  <2>1. PICK t \in Taps : ReadTap(t)
    BY <1>1
    DEF Next, Reader, QueueOffline, StartPost, PostNoConnection, PostNoAnswer,
        PostAnswered, Save, SendChunk, FlushAnswered, FlushNoAnswer, SyncClock,
        PowerCut, ShowCode, Tick, vars, historyVars
  <2>2. cur'.tap = t /\ Serves(t) /\ ~StillHeld(t)
    BY <2>1 DEF ReadTap
  <2>3. phone[t].until \in Int /\ clock \in Int /\ last.at \in Int
    BY <1>1 DEF Inv, TypeOK, Shown, Times
  <2>4. last.tap = t => phone[t].until <= last.at + Ttl
    BY <1>1 DEF Inv, CodeEnds
  <2> QED
    BY <2>2, <2>3, <2>4, ReaderAssumption
    DEF Serves, StillHeld, ReaderAssumption
<1>2. Inv /\ [Next]_vars
        => [pc = "loop" /\ pc' = "ready" => cur'.tap # last.tap]_vars
  BY <1>1
<1> QED
  BY <1>2, InvAlways, PTL DEF Spec, HeldPhoneSentOnce

-----------------------------------------------------------------------------
(* The captures of a sequence *)

LEMMA ElementsTyped ==
  ASSUME NEW s \in Seq(Capture)
  PROVE  Elements(s) \subseteq Capture
<1>1. \A i \in DOMAIN s : s[i] \in Capture
  OBVIOUS
<1> QED
  BY <1>1 DEF Elements

LEMMA QueueElements ==
  ASSUME TypeOK, NEW c \in Capture
  PROVE  Elements(QueueWith(c)) \subseteq Elements(ram) \cup {c}
<1> DEFINE kept == IF Len(ram) >= MaxQueue THEN Tail(ram) ELSE ram
<1>1. ram \in Seq(Capture) /\ (Len(ram) >= MaxQueue => ram # <<>>)
  BY ReaderAssumption DEF TypeOK, ReaderAssumption
<1>2. kept \in Seq(Capture)
  BY <1>1, HeadTailProperties
<1>3. \A i \in DOMAIN kept : kept[i] \in Elements(ram)
  <2>1. CASE Len(ram) >= MaxQueue
    <3>1. ram # <<>> /\ kept = Tail(ram)
      BY <1>1, <2>1
    <3>2. Len(kept) = Len(ram) - 1 /\ \A i \in 1..Len(kept) : kept[i] = ram[i + 1]
      BY <1>1, <3>1, HeadTailProperties
    <3> QED
      BY <1>1, <1>2, <3>2 DEF Elements
  <2>2. CASE ~(Len(ram) >= MaxQueue)
    BY <2>2 DEF Elements
  <2> QED
    BY <2>1, <2>2
<1>4. QueueWith(c) = Append(kept, c)
  BY DEF QueueWith
<1> HIDE DEF kept
<1>5. \A i \in DOMAIN Append(kept, c) : Append(kept, c)[i] \in Elements(ram) \cup {c}
  <2>1. Len(Append(kept, c)) = Len(kept) + 1
    BY <1>2, AppendProperties
  <2>2. \A i \in 1..Len(kept) : Append(kept, c)[i] = kept[i]
    BY <1>2, AppendProperties
  <2>3. Append(kept, c)[Len(kept) + 1] = c
    BY <1>2, AppendProperties
  <2>4. Append(kept, c) \in Seq(Capture)
    BY <1>2, AppendProperties
  <2> QED
    BY <1>2, <1>3, <2>1, <2>2, <2>3, <2>4
<1> QED
  BY <1>4, <1>5 DEF Elements

LEMMA ChunkElements ==
  ASSUME TypeOK
  PROVE  Elements(Oldest) \subseteq Elements(ram) /\ Elements(Unsent) \subseteq Elements(ram)
<1>1. ram \in Seq(Capture)
  BY DEF TypeOK
<1>2. ChunkSize \in 0..Len(ram)
  BY <1>1, ReaderAssumption DEF ChunkSize, ReaderAssumption
<1>3. Oldest \in Seq(Capture) /\ Len(Oldest) = ChunkSize
      /\ \A i \in 1..ChunkSize : Oldest[i] = ram[i]
  <2>1. \A i \in 1..ChunkSize : ram[i] \in Capture
    BY <1>1, <1>2
  <2> QED
    BY <1>2, <2>1, SubSeqProperties DEF Oldest
<1>4. Unsent \in Seq(Capture) /\ Len(Unsent) = Len(ram) - ChunkSize
      /\ \A i \in 1..Len(Unsent) : Unsent[i] = ram[ChunkSize + i]
  <2>1. \A i \in (ChunkSize + 1)..Len(ram) : ram[i] \in Capture
    BY <1>1, <1>2
  <2> QED
    BY <1>1, <1>2, <2>1, SubSeqProperties DEF Unsent
<1>5. \A i \in DOMAIN Oldest : Oldest[i] \in Elements(ram)
  BY <1>1, <1>2, <1>3 DEF Elements
<1>6. \A i \in DOMAIN Unsent : Unsent[i] \in Elements(ram)
  <2> TAKE i \in DOMAIN Unsent
  <2>1. i \in 1..Len(Unsent) /\ ChunkSize + i \in DOMAIN ram
    BY <1>1, <1>2, <1>4
  <2> QED
    BY <1>4, <2>1 DEF Elements
<1> QED
  BY <1>5, <1>6 DEF Elements

-----------------------------------------------------------------------------
(* The inductive invariant *)

\* The captures the reader has, and those it has uploaded.
OnReader == {cur} \cup Elements(ram) \cup Elements(flash)
Uploaded == {u.capture : u \in uploads}

\* A capture of a code that was still shown when it was read.
InTime(c) == phone[c.tap].made # 0 /\ c.at < phone[c.tap].until

ReadsInTime == \A c \in Capture : c \in OnReader \cup Uploaded => InTime(c)

\* What is about to be filed as a replay is of a slow mint.
VerdictsFair ==
  \A u \in uploads : u.verdict = "rejected" => MintDelay(u.capture.tap) > MaxLag - Ttl

\* What is on file was made.
FiledMinted == \A t \in Taps : filed[t] # "none" => phone[t].made # 0

\* A tap answered for arrived.
ToldArrived == \A t \in told : t \in credited \cup refused \/ filed[t] # "none"

\* The server works on each capture of the chunk the reader waits for, unless
\* it is on file.
ChunkUnderWay ==
  pc = "flush" =>
    \A c \in Elements(Oldest) :
      filed[c.tap] # "none" \/ \E u \in uploads : u.awaited /\ u.capture = c

JourneyInv ==
  /\ Inv
  /\ JourneyTypeOK
  /\ ReadsInTime /\ VerdictsFair /\ FiledMinted /\ LateOnlyBySlowMint
  /\ ToldArrived /\ ChunkUnderWay

-----------------------------------------------------------------------------
(* The reader's part of a step *)

LEMMA JourneyStepsRead ==
  ASSUME [JourneyNext]_journeyVars
  PROVE  [Next]_vars
<1>1. CASE UNCHANGED journeyVars
  BY <1>1 DEF journeyVars, vars
<1>2. CASE JourneyNext
  BY <1>2
  DEF JourneyNext, Answered, GaveUp, ChunkSent, ChunkAnswered, ChunkUnanswered, Local,
      ServerChecks, ServerCommits, ServerLooksUp, ServerFiles, Next, Reader
<1> QED
  BY <1>1, <1>2

\* A code once made stays as it is.
LEMMA CodesStay ==
  ASSUME TypeOK, [Next]_vars
  PROVE  \A t \in Taps : phone[t].made # 0 => phone'[t] = phone[t]
<1>1. ASSUME NEW t \in Taps, ShowCode(t)
      PROVE  \A u \in Taps : phone[u].made # 0 => phone'[u] = phone[u]
  BY <1>1 DEF ShowCode, TypeOK
<1> QED
  BY <1>1
  DEF Next, Reader, vars, ReadTap, QueueOffline, StartPost, PostNoConnection, PostNoAnswer,
      PostAnswered, Save, SendChunk, FlushAnswered, FlushNoAnswer, SyncClock, PowerCut, Tick,
      historyVars

\* A capture the reader did not have before is of a code it just read.
LEMMA CapturesAreRead ==
  ASSUME Inv, [Next]_vars, NEW c \in Capture, c \in OnReader'
  PROVE  \/ c \in OnReader
         \/ /\ c.at \in {0, clock}
            /\ Serves(c.tap) /\ UNCHANGED phone
<1> USE DEF OnReader
<1>0. TypeOK /\ LoopAgrees
  BY DEF Inv
<1>e. ASSUME Enqueue, cur \in Capture, flash' = flash
      PROVE  c \in OnReader
  <2>1. Elements(QueueWith(cur)) \subseteq Elements(ram) \cup {cur}
    BY <1>0, <1>e, QueueElements
  <2> QED
    BY <1>e, <2>1 DEF Enqueue, ToQueue, Elements
<1>n. NoCapture \notin Capture
  BY ReaderAssumption DEF NoCapture, Capture, ReaderAssumption
<1>1. ASSUME NEW t \in Taps, ReadTap(t)
      PROVE  c \in OnReader \/ (c.at \in {0, clock} /\ Serves(c.tap) /\ UNCHANGED phone)
  BY <1>1 DEF ReadTap, ReadTimeNow, Elements
<1>2. CASE QueueOffline
  BY <1>0, <1>2, <1>e DEF QueueOffline, LoopAgrees
<1>3. CASE PostNoConnection
  BY <1>0, <1>3, <1>e DEF PostNoConnection, LoopAgrees, Elements
<1>4. CASE PostNoAnswer
  BY <1>0, <1>4, <1>e DEF PostNoAnswer, LoopAgrees
<1>5. CASE Save
  BY <1>n, <1>5 DEF Save, Elements
<1>6. ASSUME NEW accepted \in BOOLEAN, FlushAnswered(accepted)
      PROVE  c \in OnReader
  <2>1. Elements(Unsent) \subseteq Elements(ram)
    BY <1>0, ChunkElements
  <2> QED
    BY <1>6, <2>1 DEF FlushAnswered, Remaining, Elements
<1>7. CASE PowerCut
  BY <1>n, <1>7 DEF PowerCut, Elements
<1>8. CASE PostAnswered
  BY <1>n, <1>8 DEF PostAnswered, Elements
<1>9. CASE UNCHANGED <<cur, ram, flash>>
  BY <1>9 DEF Elements
<1> QED
  BY <1>1, <1>2, <1>3, <1>4, <1>5, <1>6, <1>7, <1>8, <1>9
  DEF Next, Reader, vars, StartPost, SendChunk, FlushNoAnswer, SyncClock, ShowCode, Tick

-----------------------------------------------------------------------------
(* The types *)

\* What a step makes of the uploads: those there stay, leave, are given up or
\* get their verdict, and new ones are of the chunk.
LEMMA UploadsStep ==
  ASSUME Inv, JourneyTypeOK, [JourneyNext]_journeyVars, NEW v \in uploads'
  PROVE  \/ v \in uploads
         \/ \E u \in uploads : v = [u EXCEPT !.awaited = FALSE]
         \/ \E u \in uploads : v = [u EXCEPT !.verdict = Verdict(u.capture)]
         \/ \E c \in Elements(Oldest) :
              v = [capture |-> c, verdict |-> "none", awaited |-> TRUE]
<1>1. CASE ChunkUnanswered
  BY <1>1 DEF ChunkUnanswered, Strays
<1>2. CASE ChunkSent
  BY <1>2 DEF ChunkSent
<1>3. ASSUME NEW u \in uploads, ServerLooksUp(u)
      PROVE  v \in uploads \/ v = [u EXCEPT !.verdict = Verdict(u.capture)]
  BY <1>3 DEF ServerLooksUp
<1>4. CASE uploads' \subseteq uploads
  BY <1>4
<1> QED
  BY <1>1, <1>2, <1>3, <1>4
  DEF JourneyNext, journeyVars, serverVars, Answered, GaveUp, ChunkAnswered, Strays, Local,
      ServerChecks, ServerCommits, ServerFiles

LEMMA VerdictTyped ==
  ASSUME NEW c \in Capture
  PROVE  Verdict(c) \in Verdicts \ {"none"}
  BY DEF Verdict, Verdicts

LEMMA ChunkTyped ==
  ASSUME Inv
  PROVE  Elements(Oldest) \subseteq Capture
<1>1. Elements(ram) \subseteq Capture
  BY ElementsTyped DEF Inv, TypeOK
<1> QED
  BY <1>1, ChunkElements DEF Inv

LEMMA UploadsTyped ==
  ASSUME Inv, JourneyTypeOK, [JourneyNext]_journeyVars
  PROVE  uploads' \subseteq Upload
<1> SUFFICES ASSUME NEW v \in uploads' PROVE v \in Upload
  OBVIOUS
<1>1. uploads \subseteq Upload
  BY DEF JourneyTypeOK
<1>2. ASSUME NEW u \in uploads, v = [u EXCEPT !.awaited = FALSE]
      PROVE  v \in Upload
  BY <1>1, <1>2 DEF Upload
<1>3. ASSUME NEW u \in uploads, v = [u EXCEPT !.verdict = Verdict(u.capture)]
      PROVE  v \in Upload
  <2>1. u \in [capture : Capture, verdict : Verdicts, awaited : BOOLEAN]
    BY <1>1 DEF Upload
  <2>2. Verdict(u.capture) \in Verdicts
    BY <2>1, VerdictTyped
  <2> QED
    BY <1>3, <2>1, <2>2 DEF Upload
<1>4. ASSUME NEW c \in Elements(Oldest),
             v = [capture |-> c, verdict |-> "none", awaited |-> TRUE]
      PROVE  v \in Upload
  BY <1>4, ChunkTyped DEF Upload, Verdicts
<1> QED
  BY <1>1, <1>2, <1>3, <1>4, UploadsStep

LEMMA JourneyTyped ==
  ASSUME Inv, JourneyTypeOK, [JourneyNext]_journeyVars
  PROVE  JourneyTypeOK'
<1>1. TypeOK'
  BY JourneyStepsRead, StepInv DEF Inv
<1>2. pc = "post" => cur.tap \in Taps
  BY DEF Inv, LoopAgrees, Capture
<1>3. TapsOf(Oldest) \subseteq Taps
  <2>1. \A c \in Elements(Oldest) : c.tap \in Taps
    BY ChunkTyped DEF Capture
  <2> QED
    BY <2>1 DEF TapsOf, Elements
<1> DEFINE Typed == /\ waiting \subseteq Taps /\ checked \subseteq Taps
                    /\ credited \subseteq Taps /\ refused \subseteq Taps
                    /\ filed \in [Taps -> Verdicts]
<1>4. Typed'
  <2> USE DEF JourneyTypeOK, serverVars, vars
  <2>1. CASE Answered
    BY <1>2, <2>1 DEF Answered, PostAnswered
  <2>2. CASE GaveUp
    BY <1>2, <2>2 DEF GaveUp, PostNoAnswer
  <2>3. CASE ChunkSent
    BY <2>3 DEF ChunkSent
  <2>4. CASE ChunkAnswered
    BY <1>3, <2>4 DEF ChunkAnswered
  <2>5. CASE ChunkUnanswered
    BY <2>5 DEF ChunkUnanswered
  <2>6. CASE Local
    BY <2>6 DEF Local
  <2>7. ASSUME NEW t \in Taps, ServerChecks(t) \/ ServerCommits(t)
        PROVE  Typed'
    BY <2>7 DEF ServerChecks, ServerCommits
  <2>8. ASSUME NEW u \in uploads, ServerLooksUp(u)
        PROVE  Typed'
    BY <2>8 DEF ServerLooksUp
  <2>9. ASSUME NEW u \in uploads, ServerFiles(u)
        PROVE  Typed'
    BY <2>9 DEF ServerFiles, Upload
  <2>10. CASE UNCHANGED journeyVars
    BY <2>10 DEF journeyVars
  <2> QED
    BY <2>1, <2>2, <2>3, <2>4, <2>5, <2>6, <2>7, <2>8, <2>9, <2>10 DEF JourneyNext
<1> QED
  BY <1>1, <1>4, UploadsTyped DEF JourneyTypeOK

-----------------------------------------------------------------------------
(* The reads *)

LEMMA StepReads ==
  ASSUME JourneyInv, [JourneyNext]_journeyVars
  PROVE  ReadsInTime'
<1>1. Inv /\ TypeOK /\ JourneyTypeOK /\ ReadsInTime /\ [Next]_vars
  BY JourneyStepsRead DEF JourneyInv, Inv
<1>2. ASSUME NEW c \in Capture, c \in Uploaded'
      PROVE  c \in OnReader \cup Uploaded
  <2>1. PICK v \in uploads' : v.capture = c
    BY <1>2 DEF Uploaded
  <2>2. Elements(Oldest) \subseteq Elements(ram)
    BY <1>1, ChunkElements
  <2>3. \A u \in uploads :
          /\ [u EXCEPT !.awaited = FALSE].capture = u.capture
          /\ [u EXCEPT !.verdict = Verdict(u.capture)].capture = u.capture
    BY <1>1 DEF JourneyTypeOK, Upload
  <2>4. \/ \E u \in uploads : v.capture = u.capture
        \/ v.capture \in Elements(Oldest)
    <3>1. ASSUME NEW e \in Elements(Oldest),
                 v = [capture |-> e, verdict |-> "none", awaited |-> TRUE]
          PROVE  v.capture \in Elements(Oldest)
      BY <3>1
    <3> QED
      BY <1>1, <2>3, <3>1, UploadsStep
  <2> QED
    BY <2>1, <2>2, <2>4 DEF OnReader, Uploaded
<1>3. ASSUME NEW c \in Capture, c \in OnReader' \cup Uploaded'
      PROVE  InTime(c)'
  <2>1. c.tap \in Taps
    BY DEF Capture
  <2>2. CASE c \in OnReader \cup Uploaded
    BY <1>1, <2>1, <2>2, CodesStay DEF ReadsInTime, InTime
  <2>3. CASE c \notin OnReader \cup Uploaded
    <3>1. c.at \in {0, clock} /\ Serves(c.tap) /\ UNCHANGED phone
      BY <1>1, <1>2, <1>3, <2>3, CapturesAreRead
    <3>2. phone[c.tap].until \in Nat /\ clock \in Nat /\ clock > 0
      BY <1>1, <2>1, ReaderAssumption DEF ReaderAssumption, TypeOK, Shown, Times
    <3> QED
      BY <3>1, <3>2 DEF Serves, InTime
  <2> QED
    BY <2>2, <2>3
<1> QED
  BY <1>3 DEF ReadsInTime

\* A capture found too late is of a slow mint: it was read while shown.
LEMMA LateMeansSlow ==
  ASSUME JourneyInv, NEW c \in Capture, InTime(c), Verdict(c) = "rejected"
  PROVE  MintDelay(c.tap) > MaxLag - Ttl
<1>1. /\ c.tap \in Taps /\ c.at \in Nat
      /\ phone[c.tap].made \in Nat /\ phone[c.tap].until \in Nat
      /\ MaxLag \in Nat /\ Ttl \in Nat
  BY ReaderAssumption, JourneyAssumption
  DEF ReaderAssumption, JourneyAssumption, JourneyInv, Inv, TypeOK, Capture, Shown, Times
<1>2. c.at - phone[c.tap].made > MaxLag /\ c.at < phone[c.tap].until
  BY DEF Verdict, ReadTooLate, InTime
<1> QED
  BY <1>1, <1>2 DEF MintDelay

\* No code that was read changes its delay.
LEMMA DelaysStay ==
  ASSUME JourneyInv, [JourneyNext]_journeyVars, NEW t \in Taps, phone[t].made # 0
  PROVE  MintDelay(t)' = MintDelay(t)
  BY JourneyStepsRead, CodesStay DEF JourneyInv, Inv, MintDelay

\* A capture on its way to the server, its tap and its code.
LEMMA UploadsAreRead ==
  ASSUME JourneyInv, NEW u \in uploads
  PROVE  /\ u \in Upload /\ u.capture \in Capture /\ u.capture.tap \in Taps
         /\ InTime(u.capture)
<1>1. u \in Upload /\ u.capture \in Capture /\ u.capture.tap \in Taps
  BY DEF JourneyInv, JourneyTypeOK, Upload, Capture
<1> QED
  BY <1>1 DEF JourneyInv, ReadsInTime, Uploaded

LEMMA StepVerdicts ==
  ASSUME JourneyInv, [JourneyNext]_journeyVars
  PROVE  VerdictsFair'
<1> SUFFICES ASSUME NEW v \in uploads', v.verdict = "rejected"
             PROVE  MintDelay(v.capture.tap)' > MaxLag - Ttl
  BY DEF VerdictsFair
<1>1. ASSUME NEW u \in uploads, v.capture = u.capture, v.verdict = u.verdict
      PROVE  MintDelay(v.capture.tap)' > MaxLag - Ttl
  <2>1. MintDelay(u.capture.tap) > MaxLag - Ttl
    BY <1>1 DEF JourneyInv, VerdictsFair
  <2> QED
    BY <1>1, <2>1, UploadsAreRead, DelaysStay DEF InTime
<1>2. ASSUME NEW u \in uploads, v = [u EXCEPT !.verdict = Verdict(u.capture)]
      PROVE  MintDelay(v.capture.tap)' > MaxLag - Ttl
  <2>1. v.capture = u.capture /\ v.verdict = Verdict(u.capture)
    BY <1>2, UploadsAreRead DEF Upload
  <2>2. MintDelay(u.capture.tap) > MaxLag - Ttl
    BY <2>1, UploadsAreRead, LateMeansSlow
  <2> QED
    BY <2>1, <2>2, UploadsAreRead, DelaysStay DEF InTime
<1>3. ASSUME NEW u \in uploads, v = [u EXCEPT !.awaited = FALSE]
      PROVE  v.capture = u.capture /\ v.verdict = u.verdict
  BY <1>3, UploadsAreRead DEF Upload
<1> QED
  BY <1>1, <1>2, <1>3, UploadsStep DEF JourneyInv

\* What is on file changes by a commit alone, and only where nothing was.
LEMMA FilingStep ==
  ASSUME JourneyInv, [JourneyNext]_journeyVars
  PROVE  \/ UNCHANGED filed
         \/ \E u \in uploads :
              /\ u.verdict # "none" /\ uploads' = uploads \ {u}
              /\ filed' = [filed EXCEPT ![u.capture.tap] = IF @ = "none" THEN u.verdict ELSE @]
              /\ UNCHANGED <<vars, waiting, checked, credited, refused>>
  BY DEF JourneyNext, journeyVars, serverVars, Answered, GaveUp, ChunkSent, ChunkAnswered,
      ChunkUnanswered, Local, ServerChecks, ServerCommits, ServerLooksUp, ServerFiles

LEMMA FiledStays ==
  ASSUME JourneyInv, [JourneyNext]_journeyVars, NEW t \in Taps, filed[t] # "none"
  PROVE  filed'[t] # "none"
  BY FilingStep DEF JourneyInv, JourneyTypeOK

LEMMA StepLate ==
  ASSUME JourneyInv, [JourneyNext]_journeyVars
  PROVE  LateOnlyBySlowMint'
<1> SUFFICES ASSUME NEW t \in Taps, filed'[t] = "rejected"
             PROVE  MintDelay(t)' > MaxLag - Ttl
  BY DEF LateOnlyBySlowMint
<1>1. CASE filed[t] = "rejected"
  <2>1. MintDelay(t) > MaxLag - Ttl
    BY <1>1 DEF JourneyInv, LateOnlyBySlowMint
  <2>2. phone[t].made # 0
    BY <1>1 DEF JourneyInv, FiledMinted
  <2> QED
    BY <2>1, <2>2, DelaysStay
<1>2. CASE filed[t] # "rejected"
  <2>1. PICK u \in uploads :
          /\ u.verdict # "none"
          /\ filed' = [filed EXCEPT ![u.capture.tap] = IF @ = "none" THEN u.verdict ELSE @]
    BY <1>2, FilingStep
  <2>2. filed \in [Taps -> Verdicts]
    BY DEF JourneyInv, JourneyTypeOK
  <2>3. u.capture.tap = t /\ u.verdict = "rejected"
    BY <1>2, <2>1, <2>2
  <2>4. MintDelay(t) > MaxLag - Ttl
    BY <2>3 DEF JourneyInv, VerdictsFair
  <2> QED
    BY <2>3, <2>4, UploadsAreRead, DelaysStay DEF InTime
<1> QED
  BY <1>1, <1>2

LEMMA StepMinted ==
  ASSUME JourneyInv, [JourneyNext]_journeyVars
  PROVE  FiledMinted'
<1> SUFFICES ASSUME NEW t \in Taps, filed'[t] # "none"
             PROVE  phone'[t].made # 0
  BY DEF FiledMinted
<1>1. phone[t].made # 0
  <2>1. CASE filed[t] # "none"
    BY <2>1 DEF JourneyInv, FiledMinted
  <2>2. CASE filed[t] = "none"
    <3>1. PICK u \in uploads :
            filed' = [filed EXCEPT ![u.capture.tap] = IF @ = "none" THEN u.verdict ELSE @]
      BY <2>2, FilingStep
    <3>2. u.capture.tap = t
      BY <2>2, <3>1 DEF JourneyInv, JourneyTypeOK
    <3> QED
      BY <3>2, UploadsAreRead DEF InTime
  <2> QED
    BY <2>1, <2>2
<1> QED
  BY <1>1, JourneyStepsRead, CodesStay DEF JourneyInv, Inv

-----------------------------------------------------------------------------
(* Arrivals *)

LEMMA TapsOfElements ==
  ASSUME NEW s
  PROVE  TapsOf(s) = {c.tap : c \in Elements(s)}
  BY DEF TapsOf, Elements

LEMMA StepTold ==
  ASSUME JourneyInv, [JourneyNext]_journeyVars
  PROVE  ToldArrived'
<1> SUFFICES ASSUME NEW t \in told'
             PROVE  t \in credited' \cup refused' \/ filed'[t] # "none"
  BY DEF ToldArrived
<1>1. credited \subseteq credited' /\ refused \subseteq refused'
  BY DEF JourneyNext, journeyVars, serverVars, Answered, GaveUp, ChunkSent, ChunkAnswered,
      ChunkUnanswered, Local, ServerChecks, ServerCommits, ServerLooksUp, ServerFiles
<1>2. ASSUME t \in credited \cup refused \/ (t \in Taps /\ filed[t] # "none")
      PROVE  t \in credited' \cup refused' \/ filed'[t] # "none"
  BY <1>1, <1>2, FiledStays
<1>3. CASE t \in told
  <2>1. t \in Taps
    BY <1>3 DEF JourneyInv, Inv, TypeOK
  <2> QED
    BY <1>2, <1>3, <2>1 DEF JourneyInv, ToldArrived
<1>4. CASE Answered
  BY <1>3, <1>4 DEF Answered, PostAnswered
<1>5. ASSUME ChunkAnswered, t \notin told
      PROVE  t \in credited' \cup refused' \/ filed'[t] # "none"
  <2>1. PICK accepted \in BOOLEAN :
          /\ FlushAnswered(accepted)
          /\ accepted => Handled
          /\ refused' = IF accepted THEN refused ELSE refused \cup TapsOf(Oldest)
    BY <1>5 DEF ChunkAnswered
  <2>2. pc = "flush" /\ t \in TapsOf(Oldest)
    BY <1>5, <2>1 DEF FlushAnswered
  <2>3. CASE ~accepted
    BY <2>1, <2>2, <2>3
  <2>4. CASE accepted
    <3>1. PICK c \in Elements(Oldest) : c.tap = t
      BY <2>2, TapsOfElements
    <3>2. \A u \in uploads : ~u.awaited
      BY <2>1, <2>4 DEF Handled, Strays
    <3>3. filed[t] # "none" /\ t \in Taps
      BY <2>2, <3>1, <3>2, ChunkTyped DEF JourneyInv, ChunkUnderWay, Capture
    <3> QED
      BY <1>2, <3>3
  <2> QED
    BY <2>3, <2>4
<1>6. told' = told \/ Answered \/ ChunkAnswered
  BY DEF JourneyNext, journeyVars, vars, historyVars, GaveUp, PostNoAnswer, PowerCut, ChunkSent,
      SendChunk, ChunkUnanswered, FlushNoAnswer, Local, ReadTap, ShowCode, QueueOffline, Enqueue,
      StartPost, PostNoConnection, Save, SyncClock, Tick, ServerChecks, ServerCommits,
      ServerLooksUp, ServerFiles
<1> QED
  BY <1>3, <1>4, <1>5, <1>6

\* While the reader waits for the answer to a chunk, only the server's own
\* steps change the uploads.
LEMMA FlushStep ==
  ASSUME JourneyInv, [JourneyNext]_journeyVars, pc' = "flush"
  PROVE  /\ UNCHANGED ram
         /\ \/ ChunkSent
            \/ /\ pc = "flush"
               /\ \/ UNCHANGED uploads
                  \/ \E u \in uploads : ServerLooksUp(u) \/ ServerFiles(u)
  BY DEF JourneyNext, journeyVars, vars, historyVars, serverVars, Answered, PostAnswered, GaveUp,
      PostNoAnswer, Enqueue, PowerCut, ChunkSent, SendChunk, ChunkAnswered, FlushAnswered,
      ChunkUnanswered, FlushNoAnswer, Local, ReadTap, ShowCode, QueueOffline, StartPost,
      PostNoConnection, Save, SyncClock, Tick, ServerChecks, ServerCommits, ServerLooksUp,
      ServerFiles

LEMMA StepUnderWay ==
  ASSUME JourneyInv, [JourneyNext]_journeyVars
  PROVE  ChunkUnderWay'
<1> SUFFICES ASSUME pc' = "flush", NEW c, c \in Elements(Oldest)'
             PROVE  filed'[c.tap] # "none" \/ \E v \in uploads' : v.awaited /\ v.capture = c
  BY DEF ChunkUnderWay
<1>1. Elements(Oldest)' = Elements(Oldest)
  BY FlushStep DEF Elements, Oldest, ChunkSize
<1>2. c \in Elements(Oldest) /\ c \in Capture /\ c.tap \in Taps
  BY <1>1, ChunkTyped DEF JourneyInv, Capture
<1>3. CASE ChunkSent
  <2>1. [capture |-> c, verdict |-> "none", awaited |-> TRUE] \in uploads'
    BY <1>2, <1>3 DEF ChunkSent
  <2> QED
    BY <2>1
<1>4. CASE filed[c.tap] # "none"
  BY <1>2, <1>4, FiledStays
<1>5. ASSUME NEW u \in uploads, u.awaited, u.capture = c, filed[c.tap] = "none"
      PROVE  filed'[c.tap] # "none" \/ \E v \in uploads' : v.awaited /\ v.capture = c
  <2>1. CASE u \in uploads'
    BY <1>5, <2>1
  <2>2. CASE ServerLooksUp(u)
    <3>1. [u EXCEPT !.verdict = Verdict(u.capture)] \in uploads'
      BY <1>5, <2>2 DEF ServerLooksUp
    <3>2. /\ [u EXCEPT !.verdict = Verdict(u.capture)].awaited
          /\ [u EXCEPT !.verdict = Verdict(u.capture)].capture = c
      BY <1>5, UploadsAreRead DEF Upload
    <3> QED
      BY <3>1, <3>2
  <2>3. CASE ServerFiles(u)
    BY <1>2, <1>5, <2>3 DEF ServerFiles, JourneyInv, JourneyTypeOK
  <2>4. ASSUME NEW w \in uploads, w # u, ServerLooksUp(w) \/ ServerFiles(w)
        PROVE  u \in uploads'
    BY <2>4 DEF ServerLooksUp, ServerFiles
  <2> QED
    BY <1>3, <1>5, <2>1, <2>2, <2>3, <2>4, FlushStep
<1> QED
  BY <1>2, <1>3, <1>4, <1>5, FlushStep DEF JourneyInv, ChunkUnderWay

-----------------------------------------------------------------------------
(* The invariant holds *)

LEMMA JourneyInitInv == JourneyInit => JourneyInv
<1> SUFFICES ASSUME JourneyInit PROVE JourneyInv
  OBVIOUS
<1>1. Inv
  BY InitInv DEF JourneyInit
<1>2. JourneyTypeOK
  BY <1>1 DEF Inv, JourneyInit, JourneyTypeOK, Verdicts
<1>3. OnReader = {NoCapture} /\ Uploaded = {}
  BY DEF OnReader, Uploaded, Elements, JourneyInit, Init
<1>4. NoCapture \notin Capture
  BY ReaderAssumption DEF NoCapture, Capture, ReaderAssumption
<1>5. VerdictsFair /\ FiledMinted /\ LateOnlyBySlowMint /\ ToldArrived /\ ChunkUnderWay
  BY DEF JourneyInit, Init, VerdictsFair, FiledMinted, LateOnlyBySlowMint, ToldArrived,
      ChunkUnderWay
<1> QED
  BY <1>1, <1>2, <1>3, <1>4, <1>5 DEF JourneyInv, ReadsInTime

LEMMA JourneyStepInv == JourneyInv /\ [JourneyNext]_journeyVars => JourneyInv'
<1> SUFFICES ASSUME JourneyInv, [JourneyNext]_journeyVars PROVE JourneyInv'
  OBVIOUS
<1>1. Inv' /\ JourneyTypeOK'
  BY JourneyStepsRead, StepInv, JourneyTyped DEF JourneyInv
<1> QED
  BY <1>1, StepReads, StepVerdicts, StepMinted, StepLate, StepTold, StepUnderWay DEF JourneyInv

LEMMA JourneyAlways == JourneySpec => []JourneyInv
  BY JourneyInitInv, JourneyStepInv, PTL DEF JourneySpec

-----------------------------------------------------------------------------
(* The theorems *)

\* The reader, the requests on their way and the server's tables keep their
\* types (submit_checkin_beacon, sync_offline_checkin_backlog).
THEOREM JourneyTypes == JourneySpec => []JourneyTypeOK
<1>1. JourneyInv => JourneyTypeOK
  BY DEF JourneyInv
<1> QED
  BY <1>1, JourneyAlways, PTL

\* However late the answers of mints are, and in however full a queue and over
\* however many power cuts and repeated uploads a genuine tap waited: if it is
\* filed as a replay, its mint's answer took longer than the slack
\* (readTimeNow, OFFLINE_READ_MAX_LAG_SECONDS).
THEOREM LateTapsHadSlowMints == JourneySpec => []LateOnlyBySlowMint
<1>1. JourneyInv => LateOnlyBySlowMint
  BY DEF JourneyInv
<1> QED
  BY <1>1, JourneyAlways, PTL

\* For any queue, chunk and number of power cuts, and however uploads of one
\* capture race: no tap is let go of by the reader unless the server has it or
\* refused it (flushBacklog, sync_offline_checkin_backlog).
THEOREM TapsAlwaysArrive == JourneySpec => []TapsArrive
<1>1. JourneyInv => TapsArrive
  BY DEF JourneyInv, Inv, NothingVanishes, ToldArrived, TapsArrive
<1> QED
  BY <1>1, JourneyAlways, PTL
=============================================================================
