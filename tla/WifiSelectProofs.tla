--------------------------- MODULE WifiSelectProofs ---------------------------
(* Proofs about WifiSelect: for any list of networks, any number of strikes  *)
(* and any clock, which network the sketch blames, and when.                 *)
EXTENDS WifiSelect, TLAPS, FiniteSetTheorems, SequenceTheorems

-----------------------------------------------------------------------------
(* Lists of candidates *)

LEMMA OrdersAreLists ==
  ASSUME NEW S \in SUBSET Networks
  PROVE  Orders(S) \subseteq Seq(Networks)
<1>1. IsFiniteSet(S)
  BY WifiAssumption, FS_Subset
<1>2. Cardinality(S) \in Nat
  BY <1>1, FS_CardinalityType
<1> QED
  BY <1>2 DEF Orders

LEMMA HeadAndTail ==
  ASSUME NEW list \in Seq(Networks), list # <<>>
  PROVE  Head(list) \in Networks /\ Tail(list) \in Seq(Networks)
  BY HeadTailProperties

\* wifiJoinNext dials a listed network under its own name, or nothing new.
LEMMA JoinNextTyped ==
  ASSUME TypeOK, NEW list \in Seq(Networks), JoinNext(list)
  PROVE  /\ phase' \in {"idle", "joining"}
         /\ candidates' \in Seq(Networks)
         /\ current' \in Networks \cup {NoNetwork}
         /\ dialling' \in Networks \cup {NoNetwork}
         /\ current' = NoNetwork \/ current' = dialling'
<1>1. CASE list = <<>>
  <2>1. <<>> \in Seq(Networks)
    OBVIOUS
  <2> QED
    BY <1>1, <2>1 DEF JoinNext, TypeOK
<1>2. CASE list # <<>>
  BY <1>2, HeadAndTail DEF JoinNext
<1> QED
  BY <1>1, <1>2

-----------------------------------------------------------------------------
(* Types *)

LEMMA InitTyped == Init => TypeOK
<1> SUFFICES ASSUME Init PROVE TypeOK
  OBVIOUS
<1>1. candidates \in Seq(Networks)
  <2>1. <<>> \in Seq(Networks)
    OBVIOUS
  <2> QED
    BY <2>1 DEF Init
<1>2. strikes \in 0..(DeadStrikes - 1) /\ silent \in 0..DeadStrikes /\ ms \in 1..Wrap
  BY WifiAssumption DEF Init
<1>3. skippedAt \in [Networks -> 0..Wrap]
  BY WifiAssumption DEF Init
<1> QED
  BY <1>1, <1>2, <1>3 DEF Init, TypeOK

LEMMA NextTyped ==
  ASSUME TypeOK, [Next]_vars
  PROVE  TypeOK'
<1> USE DEF TypeOK
<1>1. CASE NoticeLink
  BY <1>1, WifiAssumption DEF NoticeLink, driver
<1>2. CASE StartScan
  BY <1>2 DEF StartScan
<1>3. CASE ScanDone
  <2>1. PICK found \in SUBSET Networks : \E list \in Orders(Usable(found)) : JoinNext(list)
    BY <1>3 DEF ScanDone
  <2>2. Usable(found) \in SUBSET Networks
    BY DEF Usable
  <2>3. PICK list \in Seq(Networks) : JoinNext(list)
    BY <2>1, <2>2, OrdersAreLists
  <2> QED
    BY <1>3, <2>3, JoinNextTyped DEF ScanDone
<1>4. CASE ScanFailed
  BY <1>4 DEF ScanFailed, driver
<1>5. CASE GiveUpJoin
  <2>1. JoinNext(candidates)
    BY <1>5 DEF GiveUpJoin
  <2> QED
    BY <1>5, <2>1, JoinNextTyped DEF GiveUpJoin
<1>6. CASE Answered
  BY <1>6, WifiAssumption DEF Answered, driver
<1>7. CASE NoAnswer
  <2>1. silent' \in 0..DeadStrikes
    BY <1>7, WifiAssumption DEF NoAnswer
  <2>2. CASE SetAside
    BY <1>7, <2>1, <2>2, WifiAssumption DEF NoAnswer, SetAside, Counts
  <2>3. CASE Strike
    BY <1>7, <2>1, <2>3, WifiAssumption DEF NoAnswer, Strike, OutOfStrikes
  <2>4. CASE NotCounted
    BY <1>7, <2>1, <2>4 DEF NoAnswer, NotCounted
  <2> QED
    BY <1>7, <2>2, <2>3, <2>4 DEF NoAnswer
<1>8. CASE DriverJoins
  BY <1>8 DEF DriverJoins, sketch
<1>9. CASE DriverFails
  BY <1>9 DEF DriverFails, sketch
<1>10. CASE LinkLost
  BY <1>10 DEF LinkLost, sketch
<1>11. CASE OnlineChanges
  BY <1>11 DEF OnlineChanges, sketch, driver
<1>12. CASE Tick
  BY <1>12, WifiAssumption DEF Tick, sketch, driver
<1>13. CASE UNCHANGED vars
  BY <1>13 DEF vars, sketch, driver
<1> QED
  BY <1>1, <1>2, <1>3, <1>4, <1>5, <1>6, <1>7, <1>8, <1>9, <1>10, <1>11, <1>12, <1>13
  DEF Next, WifiStep

\* The state of the sketch, of the driver and of millis() has its type.
THEOREM WifiTypes == Spec => []TypeOK
  BY InitTyped, NextTyped, PTL DEF Spec

-----------------------------------------------------------------------------
(* Names *)

\* What the driver dials, and what it is joined to, go by their own name or
\* by none: the name is changed only together with what is dialled, and
\* forgotten, never replaced, while an old dial may still succeed.
NamedRight ==
  /\ link # NoNetwork => current \in {link, NoNetwork}
  /\ dialling # NoNetwork => current \in {dialling, NoNetwork}

LEMMA NextNamedRight ==
  ASSUME TypeOK, NamedRight, [Next]_vars
  PROVE  NamedRight'
<1> USE DEF NamedRight
<1>1. CASE NoticeLink
  BY <1>1 DEF NoticeLink, driver
<1>2. CASE StartScan
  BY <1>2 DEF StartScan
<1>3. CASE ScanDone
  <2>1. PICK found \in SUBSET Networks : \E list \in Orders(Usable(found)) : JoinNext(list)
    BY <1>3 DEF ScanDone
  <2>2. PICK list \in Seq(Networks) : JoinNext(list)
    BY <2>1, OrdersAreLists DEF Usable
  <2> QED
    BY <1>3, <2>2, JoinNextTyped DEF ScanDone
<1>4. CASE ScanFailed
  BY <1>4 DEF ScanFailed, driver
<1>5. CASE GiveUpJoin
  BY <1>5, JoinNextTyped DEF GiveUpJoin, TypeOK
<1>6. CASE Answered
  BY <1>6 DEF Answered, driver
<1>7. CASE NoAnswer
  BY <1>7 DEF NoAnswer, SetAside, Strike, NotCounted
<1>8. CASE DriverJoins
  BY <1>8 DEF DriverJoins, sketch
<1>9. CASE DriverFails
  BY <1>9 DEF DriverFails, sketch
<1>10. CASE LinkLost
  BY <1>10 DEF LinkLost, sketch
<1>11. CASE OnlineChanges \/ Tick \/ UNCHANGED vars
  BY <1>11 DEF OnlineChanges, Tick, vars, sketch, driver
<1> QED
  BY <1>1, <1>2, <1>3, <1>4, <1>5, <1>6, <1>7, <1>8, <1>9, <1>10, <1>11 DEF Next, WifiStep

\* Strikes and time aside never go to a network that did not earn them: the
\* name the sketch has while a link is up is the link's own, or none.
THEOREM NamesAreRight == Spec => []NeverTheWrongName
<1>1. Init => NamedRight
  BY DEF Init, NamedRight
<1>2. TypeOK /\ NamedRight /\ [Next]_vars => NamedRight'
  BY NextNamedRight
<1>3. NamedRight => NeverTheWrongName
  BY DEF NamedRight, NeverTheWrongName
<1> QED
  BY <1>1, <1>2, <1>3, WifiTypes, PTL DEF Spec

-----------------------------------------------------------------------------
(* Strikes *)

\* Every strike was an unanswered request on the present link.
StrikesEarned == strikes <= silent

LEMMA NextStrikesEarned ==
  ASSUME TypeOK, StrikesEarned, [Next]_vars
  PROVE  StrikesEarned'
<1> USE DEF StrikesEarned
<1>0. strikes \in Nat /\ silent \in 0..DeadStrikes /\ DeadStrikes \in Nat
  BY WifiAssumption DEF TypeOK
<1>1. CASE NoticeLink
  BY <1>0, <1>1 DEF NoticeLink
<1>2. CASE Answered
  BY <1>2 DEF Answered
<1>3. CASE NoAnswer
  <2>1. silent' = DeadStrikes \/ silent' = silent + 1
    BY <1>3 DEF NoAnswer
  <2>2. silent' \in Nat /\ silent' >= silent
    BY <1>0, <1>3 DEF NoAnswer
  <2>3. CASE SetAside
    BY <2>2, <2>3 DEF SetAside
  <2>4. CASE Strike
    BY <1>0, <2>1, <2>4 DEF Strike, OutOfStrikes
  <2>5. CASE NotCounted
    BY <1>0, <2>2, <2>5 DEF NotCounted
  <2> QED
    BY <1>3, <2>3, <2>4, <2>5 DEF NoAnswer
<1>4. CASE ~(NoticeLink \/ Answered \/ NoAnswer)
  BY <1>4 DEF Next, WifiStep, StartScan, ScanDone, ScanFailed, GiveUpJoin, DriverJoins,
     DriverFails, LinkLost, OnlineChanges, Tick, vars, sketch, driver
<1> QED
  BY <1>1, <1>2, <1>3, <1>4

\* A network is set aside only after DeadStrikes unanswered requests in a row
\* since it was joined, whatever joins, scans and answers came in between.
THEOREM SetAsideIsEarned == Spec => NotSetAsideEarly
<1>1. Init => StrikesEarned
  BY DEF Init, StrikesEarned
<1>2. TypeOK /\ StrikesEarned /\ [Next]_vars => StrikesEarned'
  BY NextStrikesEarned
<1>3. ASSUME TypeOK, StrikesEarned, [Next]_vars
      PROVE  \A n \in Networks : skippedAt'[n] # skippedAt[n] => silent + 1 >= DeadStrikes
  <2>1. CASE SetAside
    BY <1>3, <2>1, WifiAssumption DEF SetAside, OutOfStrikes, StrikesEarned, TypeOK
  <2>2. CASE ~SetAside
    <3>1. UNCHANGED skippedAt
      BY <1>3, <2>2 DEF Next, WifiStep, NoticeLink, StartScan, ScanDone, ScanFailed, GiveUpJoin,
         Answered, NoAnswer, Strike, NotCounted, DriverJoins, DriverFails, LinkLost,
         OnlineChanges, Tick, vars, sketch, driver
    <3> QED
      BY <3>1
  <2> QED
    BY <2>1, <2>2
<1>4. TypeOK /\ StrikesEarned /\ [Next]_vars =>
        [\A n \in Networks : skippedAt'[n] # skippedAt[n] => silent + 1 >= DeadStrikes]_vars
  BY <1>3
<1> QED
  BY <1>1, <1>2, <1>4, WifiTypes, PTL DEF Spec, NotSetAsideEarly
=============================================================================
