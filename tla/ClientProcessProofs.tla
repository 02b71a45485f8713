------------------------- MODULE ClientProcessProofs ------------------------
(***************************************************************************)
(* Proofs about the client process: the heartbeat's account of its beats   *)
(* and the supervisor's report, each in the composition of the two.        *)
(***************************************************************************)
EXTENDS ClientProcess, FiniteSetTheorems, TLAPS

(***************************************************************************)
(* The heartbeat.                                                          *)
(***************************************************************************)

BeatType ==
  /\ phase \in {"beat", "wait"}
  /\ seq \in 0..MaxBeats /\ round \in Nat /\ missed \in Nat
  /\ unanswered \in 0..seq
  /\ sent \in [Beats -> Nat]
  /\ outcome \in [Beats -> {"none", "answered", "lost"}]
  /\ udp \in {"unset", "ok", "down"}

\* Every beat is in one of three places: not sent yet, outstanding, counted.
PlaceInv == \A s \in Beats :
  /\ s > seq => sent[s] = 0 /\ outcome[s] = "none"
  /\ outcome[s] # "none" => sent[s] = 0

\* At most one beat per round was sent since an outstanding one.
PaceInv == \A s \in Outstanding :
  sent[s] + (seq - s) <= round + (IF phase = "wait" THEN 1 ELSE 0)

\* At the end of a round, what is left had less than replyWait, or is the last.
YoungInv == phase = "beat" => \A s \in Outstanding : s = seq \/ round + 1 < WaitRounds + sent[s]

\* Outstanding beats sent since the last answer.
Awaited == {s \in Outstanding : s > seq - unanswered}

\* The other beats sent since the last answer are among the missed ones.
MissedInv == missed + Cardinality(Awaited) >= unanswered

ReportInv == missed >= MissedBeforeWarn => udp # "ok"

BeatInv == BeatType /\ PlaceInv /\ PaceInv /\ YoungInv /\ MissedInv /\ ReportInv

\* Sets of beats are finite.
LEMMA BeatsFinite ==
  ASSUME NEW S \in SUBSET Beats
  PROVE  IsFiniteSet(S) /\ Cardinality(S) \in Nat
<1>1. IsFiniteSet(Beats)
  BY HeartbeatAssumption, FS_Interval DEF Beats
<1> QED
  BY <1>1, FS_Subset, FS_CardinalityType

\* Taking away a set takes away no more than its elements.
LEMMA CardDifference ==
  ASSUME NEW S \in SUBSET Beats, NEW T \in SUBSET Beats
  PROVE  Cardinality(S) <= Cardinality(S \ T) + Cardinality(T)
<1>1. Cardinality(S \ T) = Cardinality(S) - Cardinality(S \cap T)
  BY BeatsFinite, FS_Difference
<1>2. Cardinality(S \cap T) <= Cardinality(T)
  BY BeatsFinite, FS_Subset
<1>3. Cardinality(S) \in Nat /\ Cardinality(T) \in Nat /\ Cardinality(S \ T) \in Nat /\ Cardinality(S \cap T) \in Nat
  BY BeatsFinite
<1> QED
  BY <1>1, <1>2, <1>3

LEMMA BeatInit == Init => BeatInv
<1> SUFFICES ASSUME Init PROVE BeatInv
  OBVIOUS
<1> USE HeartbeatAssumption DEF Init
<1>1. BeatType
  BY DEF BeatType, Beats
<1>2. Outstanding = {} /\ Awaited = {}
  BY DEF Outstanding, Awaited
<1>3. PlaceInv /\ PaceInv /\ YoungInv /\ ReportInv
  BY <1>2 DEF PlaceInv, PaceInv, YoungInv, ReportInv
<1>4. MissedInv
  BY <1>2, FS_EmptySet DEF MissedInv
<1> QED
  BY <1>1, <1>3, <1>4 DEF BeatInv

LEMMA BeatStep == BeatInv /\ [Next]_vars => BeatInv'
<1> SUFFICES ASSUME BeatInv, [Next]_vars PROVE BeatInv'
  OBVIOUS
<1> USE HeartbeatAssumption
<1>0. /\ BeatType /\ Outstanding \subseteq Beats /\ Awaited \subseteq Beats /\ Beats \subseteq Nat
      /\ Cardinality(Awaited) \in Nat
  BY BeatsFinite DEF BeatInv, Outstanding, Awaited, Beats
<1>1. CASE UNCHANGED vars
  <2>1. Outstanding' = Outstanding /\ Awaited' = Awaited
    BY <1>1 DEF vars, Outstanding, Awaited
  <2> QED
    BY <1>1, <2>1 DEF vars, BeatInv, BeatType, PlaceInv, PaceInv, YoungInv, MissedInv, ReportInv
<1>2. CASE DialFailed
  <2>1. Outstanding' = Outstanding /\ Awaited' = Awaited
    BY <1>2 DEF DialFailed, Outstanding, Awaited
  <2>2. BeatType' /\ PlaceInv' /\ YoungInv' /\ MissedInv' /\ ReportInv'
    BY <1>2, <2>1 DEF DialFailed, BeatInv, BeatType, PlaceInv, YoungInv, MissedInv, ReportInv
  <2>3. PaceInv'
    BY <1>2, <2>1, <1>0 DEF DialFailed, BeatInv, PaceInv, BeatType
  <2> QED
    BY <2>2, <2>3 DEF BeatInv
<1>3. CASE Beat
  <2>1. /\ seq' = seq + 1 /\ seq + 1 \in Beats /\ round' = round /\ phase' = "wait" /\ phase = "beat"
        /\ sent' = [sent EXCEPT ![seq + 1] = round + 1] /\ unanswered' = unanswered + 1
        /\ UNCHANGED <<missed, udp, outcome>>
    BY <1>3, <1>0 DEF Beat, BeatType, Beats
  <2>2. BeatType'
    BY <1>0, <2>1 DEF BeatType, Beats
  <2>3. PlaceInv'
    BY <1>0, <2>1 DEF BeatInv, PlaceInv, BeatType
  <2>4. Outstanding' = Outstanding \cup {seq + 1} /\ seq + 1 \notin Outstanding
    BY <1>0, <2>1 DEF BeatInv, PlaceInv, Outstanding, BeatType
  <2>5. PaceInv'
    <3> SUFFICES ASSUME NEW s \in Outstanding' PROVE sent'[s] + (seq' - s) <= round' + 1
      BY <2>1 DEF PaceInv
    <3>1. CASE s = seq + 1
      BY <1>0, <2>1, <3>1 DEF BeatType
    <3>2. CASE s \in Outstanding
      <4>1. s \in Nat /\ sent[s] + (seq - s) <= round /\ sent'[s] = sent[s] /\ sent[s] \in Nat
        BY <1>0, <2>1, <2>4, <3>2 DEF BeatInv, PaceInv, BeatType
      <4> QED
        BY <1>0, <2>1, <4>1 DEF BeatType
    <3> QED
      BY <2>4, <3>1, <3>2
  <2>6. Awaited' = Awaited \cup {seq + 1} /\ seq + 1 \notin Awaited
    BY <1>0, <2>1, <2>4 DEF Awaited, BeatType
  <2>7. Cardinality(Awaited') = Cardinality(Awaited) + 1
    BY <1>0, <2>6, BeatsFinite, FS_AddElement
  <2>8. MissedInv' /\ YoungInv' /\ ReportInv'
    BY <1>0, <2>1, <2>7 DEF BeatInv, MissedInv, YoungInv, ReportInv, BeatType
  <2> QED
    BY <2>2, <2>3, <2>5, <2>8 DEF BeatInv
<1>4. ASSUME NEW s \in Beats, Reply(s) PROVE BeatInv'
  <2>1. /\ sent' = [sent EXCEPT ![s] = 0] /\ outcome' = [outcome EXCEPT ![s] = "answered"]
        /\ missed' = 0 /\ udp' = "ok" /\ unanswered' = 0 /\ phase = "wait" /\ sent[s] # 0
        /\ UNCHANGED <<phase, seq, round>>
    BY <1>4 DEF Reply, Expected
  <2>2. BeatType'
    BY <1>0, <2>1 DEF BeatType
  <2>3. PlaceInv'
    BY <1>0, <2>1 DEF BeatInv, PlaceInv, BeatType
  <2>4. \A t \in Outstanding' : t \in Outstanding /\ sent'[t] = sent[t]
    BY <1>0, <2>1 DEF Outstanding, BeatType
  <2>5. PaceInv' /\ YoungInv'
    BY <1>0, <2>1, <2>4 DEF BeatInv, PaceInv, YoungInv
  <2>a. ReportInv'
    BY <2>1 DEF ReportInv
  <2>6. Awaited' \in SUBSET Beats
    BY DEF Awaited, Outstanding, Beats
  <2>7. MissedInv'
    BY <2>1, <2>6, BeatsFinite DEF MissedInv
  <2> QED
    BY <2>2, <2>3, <2>5, <2>a, <2>7 DEF BeatInv
<1>5. CASE EndRound
  <2>1. /\ sent' = [s \in Beats |-> IF s \in Lost THEN 0 ELSE sent[s]]
        /\ outcome' = [s \in Beats |-> IF s \in Lost THEN "lost" ELSE outcome[s]]
        /\ missed' = missed + Cardinality(Lost)
        /\ udp' = IF Lost = {} THEN udp ELSE Reports(missed')
        /\ round' = round + 1 /\ phase = "wait" /\ phase' = "beat"
        /\ UNCHANGED <<seq, unanswered>>
    BY <1>5 DEF EndRound
  <2>2. Lost \subseteq Beats /\ Lost \subseteq Outstanding /\ IsFiniteSet(Lost) /\ Cardinality(Lost) \in Nat
    BY <1>0, BeatsFinite DEF Lost
  <2>3. BeatType'
    BY <1>0, <2>1, <2>2 DEF BeatType, Reports
  <2>4. PlaceInv'
    BY <1>0, <2>1, <2>2 DEF BeatInv, PlaceInv, BeatType, Outstanding
  <2>5. Outstanding' = Outstanding \ Lost /\ \A s \in Outstanding' : sent'[s] = sent[s]
    BY <1>0, <2>1 DEF Outstanding
  <2>6. PaceInv'
    BY <1>0, <2>1, <2>5 DEF BeatInv, PaceInv
  <2>7. YoungInv'
    <3> SUFFICES ASSUME NEW s \in Outstanding', s # seq PROVE round + 2 < WaitRounds + sent[s]
      BY <1>0, <2>1, <2>5 DEF YoungInv, BeatType
    <3> QED
      BY <1>0, <2>5 DEF Lost, BeatType
  <2>8. Awaited' = Awaited \ Lost
    BY <2>1, <2>5 DEF Awaited
  <2>9. Cardinality(Awaited) <= Cardinality(Awaited') + Cardinality(Lost) /\ Cardinality(Awaited') \in Nat
    BY <1>0, <2>2, <2>8, CardDifference, BeatsFinite
  <2>10. MissedInv'
    BY <1>0, <2>1, <2>2, <2>9 DEF BeatInv, MissedInv, BeatType
  <2>11. ReportInv'
    <3>1. CASE Lost = {}
      BY <1>0, <2>1, <3>1, FS_EmptySet DEF BeatInv, ReportInv, BeatType
    <3>2. CASE Lost # {}
      <4>1. udp' = IF missed' < MissedBeforeWarn THEN "ok" ELSE "down"
        BY <2>1, <3>2 DEF Reports
      <4>2. missed' \in Nat
        BY <2>3 DEF BeatType
      <4> QED
        BY <4>1, <4>2 DEF ReportInv
    <3> QED
      BY <3>1, <3>2
  <2> QED
    BY <2>3, <2>4, <2>6, <2>7, <2>10, <2>11 DEF BeatInv
<1> QED
  BY <1>1, <1>2, <1>3, <1>4, <1>5 DEF Next

(***************************************************************************)
(* The supervisor.                                                         *)
(***************************************************************************)

\* A timer is armed only while its ssh runs; a callback still to run after the
\* end of its session was recorded has been noted as overtaken.
SupInv ==
  /\ cancelled \in BOOLEAN /\ stale \in BOOLEAN /\ connected \in BOOLEAN /\ overtaken \in BOOLEAN
  /\ timer = "armed" => pc \in {"up", "exited"}
  /\ timer = "fired" /\ ~Supervisor!HasSession => overtaken
  /\ stale => overtaken
  /\ ConnectedMeansUp

LEMMA SupInit == Supervisor!Init => SupInv
BY DEF Supervisor!Init, SupInv, ConnectedMeansUp, Supervisor!ConnectedMeansUp

LEMMA SupStep == SupInv /\ [Supervisor!Next]_supVars => SupInv'
<1> SUFFICES ASSUME SupInv, [Supervisor!Next]_supVars PROVE SupInv'
  OBVIOUS
<1> USE DEF SupInv, ConnectedMeansUp, Supervisor!ConnectedMeansUp, Supervisor!HasSession,
            Supervisor!statVars, Supervisor!timerVars
<1>1. CASE UNCHANGED supVars
  BY <1>1 DEF supVars
<1>2. CASE Supervisor!Top
  BY <1>2 DEF Supervisor!Top
<1>3. CASE Supervisor!ProbeOK
  BY <1>3 DEF Supervisor!ProbeOK
<1>4. CASE Supervisor!ProbeFails
  BY <1>4 DEF Supervisor!ProbeFails, Supervisor!RecordDisconnect
<1>5. CASE Supervisor!StartFails
  BY <1>5 DEF Supervisor!StartFails, Supervisor!RecordDisconnect
<1>6. CASE Supervisor!StartOK
  BY <1>6 DEF Supervisor!StartOK
<1>7. CASE Supervisor!StopTimer
  BY <1>7 DEF Supervisor!StopTimer, Supervisor!TimerStopped
<1>8. CASE Supervisor!AfterExit
  BY <1>8 DEF Supervisor!AfterExit, Supervisor!RecordDisconnect
<1>9. CASE Supervisor!Delay
  BY <1>9 DEF Supervisor!Delay
<1>10. CASE Supervisor!DelayCancelled
  BY <1>10 DEF Supervisor!DelayCancelled
<1>11. CASE Supervisor!Settle
  BY <1>11 DEF Supervisor!Settle
<1>12. CASE Supervisor!SetConnectedSince
  BY <1>12 DEF Supervisor!SetConnectedSince
<1>13. CASE Supervisor!SetConnectedLate
  BY <1>13 DEF Supervisor!SetConnectedLate
<1>14. CASE Supervisor!Exit
  BY <1>14 DEF Supervisor!Exit
<1>15. CASE Supervisor!Signal
  BY <1>15 DEF Supervisor!Signal
<1> QED
  BY <1>1, <1>2, <1>3, <1>4, <1>5, <1>6, <1>7, <1>8, <1>9, <1>10, <1>11, <1>12, <1>13, <1>14, <1>15
  DEF Supervisor!Next, Supervisor!Loop, Supervisor!Callback

(***************************************************************************)
(* The process.                                                            *)
(***************************************************************************)

\* A step of the process is a step of each part, or leaves it alone.
LEMMA Parts == [ProcNext]_procVars => [Next]_vars /\ [Supervisor!Next]_supVars
BY DEF ProcNext, Supervise, Heartbeat, HeartbeatDone, procVars

LEMMA ProcInv == ProcSpec => [](BeatInv /\ SupInv)
<1>1. ProcInit => BeatInv /\ SupInv
  BY BeatInit, SupInit DEF ProcInit
<1>2. BeatInv /\ SupInv /\ [ProcNext]_procVars => (BeatInv /\ SupInv)'
  BY Parts, BeatStep, SupStep
<1> QED
  BY <1>1, <1>2, PTL DEF ProcSpec

\* MissedBeforeWarn beats that had their time and no answer are reported
\* (RunClient): every beat since the last answer is missed or awaited, and
\* only beats younger than replyWait, and the last one, are awaited.
THEOREM UnansweredReported == ProcSpec => []UnansweredIsReported
<1>1. BeatInv => UnansweredIsReported
  <2> SUFFICES ASSUME BeatInv, phase = "beat", unanswered >= UnansweredBound PROVE udp # "ok"
    BY DEF UnansweredIsReported
  <2> DEFINE w == IF WaitRounds > 2 THEN WaitRounds - 1 ELSE 1
  <2>0. BeatType /\ w \in Nat \ {0} /\ w + 1 >= WaitRounds
    BY HeartbeatAssumption DEF BeatInv
  <2>1. ASSUME NEW s \in Awaited PROVE s \in (seq - w + 1)..seq
    <3>1. s \in Nat /\ sent[s] \in Nat /\ s \in Outstanding /\ s <= seq
      <4>1. s \in Beats /\ s \in Outstanding /\ sent[s] # 0
        BY DEF Awaited, Outstanding
      <4>2. s \in Nat /\ seq \in Nat /\ sent[s] \in Nat
        BY <2>0, <4>1, HeartbeatAssumption DEF BeatType, Beats
      <4>3. ~(s > seq)
        BY <4>1 DEF BeatInv, PlaceInv
      <4> QED
        BY <4>1, <4>2, <4>3
    <3>2. sent[s] + (seq - s) <= round
      BY <2>0, <3>1 DEF BeatInv, PaceInv, BeatType
    <3>3. s = seq \/ round + 1 < WaitRounds + sent[s]
      BY <3>1 DEF BeatInv, YoungInv
    <3> HIDE DEF w
    <3> QED
      BY <2>0, <3>1, <3>2, <3>3, HeartbeatAssumption DEF BeatType
  <2> HIDE DEF w
  <2>2. Cardinality((seq - w + 1)..seq) = w /\ IsFiniteSet((seq - w + 1)..seq)
    <3>1. seq - w + 1 \in Int /\ seq \in Int /\ ~(seq - w + 1 > seq) /\ seq - (seq - w + 1) + 1 = w
      BY <2>0 DEF BeatType
    <3> QED
      BY <3>1, FS_Interval
  <2>3. Cardinality(Awaited) <= w
    BY <2>1, <2>2, FS_Subset
  <2>4. Cardinality(Awaited) \in Nat
    BY BeatsFinite DEF Awaited, Outstanding
  <2>5. unanswered >= MissedBeforeWarn + w
    BY DEF UnansweredBound, w
  <2>6. missed >= MissedBeforeWarn
    BY <2>0, <2>3, <2>4, <2>5, HeartbeatAssumption DEF BeatInv, MissedInv, BeatType
  <2> QED
    BY <2>6 DEF BeatInv, ReportInv
<1> QED
  BY <1>1, ProcInv, PTL

\* A beat is answered or lost once, whatever replies come late or twice
\* (RunClient deletes it from sent when it counts it).
THEOREM CountsOnce == ProcSpec => CountedOnce
<1> DEFINE Once == \A s \in Beats : outcome[s] # "none" => outcome'[s] = outcome[s] /\ sent'[s] = 0
<1>1. BeatInv /\ [ProcNext]_procVars => [Once]_vars
  <2> SUFFICES ASSUME BeatInv, Next, NEW s \in Beats, outcome[s] # "none"
               PROVE  outcome'[s] = outcome[s] /\ sent'[s] = 0
    BY Parts
  <2>1. sent[s] = 0 /\ s <= seq /\ s \notin Lost /\ s # seq + 1 /\ BeatType
    BY DEF BeatInv, PlaceInv, BeatType, Lost, Outstanding, Beats
  <2>2. CASE DialFailed
    BY <2>1, <2>2 DEF DialFailed
  <2>3. CASE Beat
    BY <2>1, <2>3 DEF Beat, BeatType
  <2>4. ASSUME NEW t \in Beats, Reply(t) PROVE outcome'[s] = outcome[s] /\ sent'[s] = 0
    BY <2>1, <2>4 DEF Reply, Expected, BeatType
  <2>5. CASE EndRound
    BY <2>1, <2>5 DEF EndRound
  <2> QED
    BY <2>2, <2>3, <2>4, <2>5 DEF Next
<1> QED
  BY <1>1, ProcInv, PTL DEF ProcSpec, CountedOnce

\* The supervisor reports "connected" only for an ssh that is up, unless a
\* fired callback ran after the end of its session was recorded (Run).
THEOREM ConnectedUp == ProcSpec => []ConnectedMeansUp
<1>1. SupInv => ConnectedMeansUp
  BY DEF SupInv
<1> QED
  BY <1>1, ProcInv, PTL
=============================================================================
