----------------------------- MODULE PipeProofs -----------------------------
(***************************************************************************)
(* Proofs about Pipe, for any number of probes and streams.                *)
(***************************************************************************)
EXTENDS Pipe, FiniteSetTheorems, TLAPS

Running == {i \in counted : srv[i] # "ended"}

PipeType ==
  /\ srv \in [Conns -> {"none", "accepted", "opening", "copying", "ended"}]
  /\ svc \in [Conns -> {"none", "open", "refused", "closed"}]
  /\ ini \in [Conns -> {"idle", "asked", "done"}]
  /\ out \in [Conns -> {"none", "ok", "held", "fail", "err", "data", "empty"}]
  /\ got \subseteq Conns /\ counted \subseteq Conns

\* How far a pipe is, its service and its initiator agree.
PlaceInv == \A i \in Conns :
  /\ i \in counted => srv[i] \notin {"none", "accepted"}
  /\ srv[i] \in {"none", "accepted", "opening"} => svc[i] = "none"
  /\ svc[i] = "refused" => srv[i] = "ended"
  /\ i \in got => svc[i] \in {"open", "closed"}
  /\ ini[i] # "done" => out[i] = "none"
  /\ ini[i] = "idle" => srv[i] = "none"

PipeInv == PipeType /\ PlaceInv /\ ActiveCountsPipes

LEMMA RunningFinite ==
  ASSUME PipeType
  PROVE  IsFiniteSet(Running) /\ Cardinality(Running) \in Nat
<1>1. Running \in SUBSET Conns
  BY DEF PipeType, Running
<1> QED
  BY <1>1, PipeAssumption, FS_Subset, FS_CardinalityType

LEMMA PipeInit == Init => PipeInv
<1> SUFFICES ASSUME Init PROVE PipeInv
  OBVIOUS
<1>1. PipeType /\ PlaceInv
  BY DEF Init, PipeType, PlaceInv
<1>2. {i \in counted : srv[i] # "ended"} = {}
  BY DEF Init
<1> QED
  BY <1>1, <1>2, FS_EmptySet DEF Init, PipeInv, ActiveCountsPipes

\* A pipe that ends was running if it was counted.
LEMMA EndCounts ==
  ASSUME PipeInv, NEW i \in Conns, srv[i] # "ended", EndPipe(i), counted' = counted
  PROVE  ActiveCountsPipes'
<1>1. srv' = [srv EXCEPT ![i] = "ended"] /\ active' = IF i \in counted THEN active - 1 ELSE active
  BY DEF EndPipe, ClosesCount
<1>2. Running' = Running \ {i} /\ (i \in Running <=> i \in counted)
  BY <1>1 DEF Running, PipeInv, PipeType
<1>3. Cardinality(Running') = IF i \in Running THEN Cardinality(Running) - 1 ELSE Cardinality(Running)
  BY <1>2, RunningFinite, FS_RemoveElement DEF PipeInv
<1>4. active = Cardinality(Running)
  BY DEF PipeInv, ActiveCountsPipes, Running
<1> QED
  BY <1>1, <1>2, <1>3, <1>4 DEF ActiveCountsPipes, Running

\* A pipe that starts.
LEMMA StartCounts ==
  ASSUME PipeInv, NEW i \in Conns, PipeStart(i)
  PROVE  ActiveCountsPipes'
<1>0. active = Cardinality(Running) /\ srv' = [srv EXCEPT ![i] = "opening"]
      /\ srv[i] = "accepted" /\ i \notin counted
  BY DEF PipeStart, PipeInv, PlaceInv, ActiveCountsPipes, Running
<1>1. CASE counted' = counted \cup {i} /\ active' = active + 1
  <2>1. Running' = Running \cup {i} /\ i \notin Running
    BY <1>0, <1>1 DEF Running, PipeInv, PipeType
  <2>2. Cardinality(Running') = Cardinality(Running) + 1
    BY <2>1, RunningFinite, FS_AddElement DEF PipeInv
  <2> QED
    BY <1>0, <1>1, <2>2 DEF ActiveCountsPipes, Running
<1>2. CASE UNCHANGED <<counted, active>>
  <2>1. Running' = Running
    BY <1>0, <1>2 DEF Running, PipeInv, PipeType
  <2> QED
    BY <1>0, <1>2, <2>1 DEF ActiveCountsPipes, Running
<1> QED
  BY <1>1, <1>2 DEF PipeStart

LEMMA PipeStep == PipeInv /\ [Next]_vars => PipeInv'
<1> SUFFICES ASSUME PipeInv, [Next]_vars PROVE PipeInv'
  OBVIOUS
<1>p. PipeType /\ PlaceInv /\ ActiveCountsPipes
  BY DEF PipeInv
<1>k. ASSUME UNCHANGED <<counted, active, srv>> PROVE ActiveCountsPipes'
  BY <1>k, <1>p DEF ActiveCountsPipes
<1>1. CASE UNCHANGED <<pipeVars, iniVars>>
  BY <1>1, <1>p, <1>k DEF pipeVars, iniVars, PipeType, PlaceInv, PipeInv
<1>2. ASSUME NEW i \in Conns, NEW x \in {"ok", "held", "fail", "err", "data", "empty"},
             Return(i, x), UNCHANGED pipeVars
      PROVE  PipeInv'
  BY <1>2, <1>p, <1>k DEF Return, pipeVars, PipeType, PlaceInv, PipeInv
<1>3. ASSUME NEW i \in Conns, Initiator(i) PROVE PipeInv'
  <2>1. CASE Dial(i)
    <3>1. srv[i] \in {"none", "accepted", "copying", "opening", "ended"} /\ ini[i] = "idle"
          /\ srv' = [srv EXCEPT ![i] = "accepted"] /\ ini' = [ini EXCEPT ![i] = "asked"]
          /\ UNCHANGED <<out, counted, active, feed, svc, asked, got>>
      BY <2>1, <1>p DEF Dial, PipeType
    <3>2. srv[i] = "none" /\ i \notin counted
      BY <3>1, <1>p DEF PlaceInv
    <3>3. PipeType' /\ PlaceInv'
      BY <3>1, <3>2, <1>p DEF PipeType, PlaceInv
    <3>4. {j \in counted' : srv'[j] # "ended"} = {j \in counted : srv[j] # "ended"}
      BY <3>1, <3>2, <1>p DEF PipeType
    <3> QED
      BY <3>1, <3>3, <3>4, <1>p DEF PipeInv, ActiveCountsPipes
  <2> QED
    BY <2>1, <1>2, <1>3 DEF Initiator, DialFails, AskFails, ProbeReads, ProbeTimeout, UpEnds, DownEnds
<1>4. ASSUME NEW i \in Conns, PipeStart(i) PROVE PipeInv'
  <2>1. PipeType' /\ PlaceInv'
    BY <1>4, <1>p DEF PipeStart, iniVars, PipeType, PlaceInv
  <2> QED
    BY <1>4, <2>1, StartCounts DEF PipeInv
<1>5. ASSUME NEW i \in Conns, FeedEnds(i) \/ Forward(i) \/ ServiceEnds(i) PROVE PipeInv'
  <2>1. UNCHANGED <<counted, active, srv, ini, out, got>>
        /\ (svc' = svc \/ (svc[i] = "open" /\ svc' = [svc EXCEPT ![i] = "closed"]))
    BY <1>5 DEF FeedEnds, Forward, ServiceEnds, iniVars
  <2> QED
    BY <2>1, <1>p, <1>k DEF PipeType, PlaceInv, PipeInv
<1>6. ASSUME NEW i \in Conns, ChannelOpened(i) PROVE PipeInv'
  <2>1. /\ srv[i] = "opening" /\ srv' = [srv EXCEPT ![i] = "copying"]
        /\ svc' = [svc EXCEPT ![i] = "open"] /\ UNCHANGED <<counted, active, ini, out, got>>
    BY <1>6 DEF ChannelOpened, iniVars
  <2>2. PipeType' /\ PlaceInv'
    BY <2>1, <1>p DEF PipeType, PlaceInv
  <2>3. {j \in counted' : srv'[j] # "ended"} = {j \in counted : srv[j] # "ended"}
    BY <2>1, <1>p DEF PipeType
  <2> QED
    BY <2>1, <2>2, <2>3, <1>p DEF PipeInv, ActiveCountsPipes
<1>7. ASSUME NEW i \in Conns, ChannelRefused(i) PROVE PipeInv'
  <2>1. /\ srv[i] = "opening" /\ EndPipe(i) /\ srv' = [srv EXCEPT ![i] = "ended"]
        /\ svc' = [svc EXCEPT ![i] = "refused"] /\ UNCHANGED <<counted, ini, out, got>>
    BY <1>7 DEF ChannelRefused, EndPipe, iniVars
  <2>2. PipeType' /\ PlaceInv'
    BY <2>1, <1>p DEF PipeType, PlaceInv
  <2> QED
    BY <2>1, <2>2, EndCounts DEF PipeInv
<1>8. ASSUME NEW i \in Conns, srv[i] \in {"accepted", "opening", "copying"}, EndPipe(i),
             svc' = [svc EXCEPT ![i] = "closed"], UNCHANGED <<counted, ini, out, got>>
      PROVE  PipeInv'
  <2>1. srv' = [srv EXCEPT ![i] = "ended"]
    BY <1>8 DEF EndPipe
  <2>2. PipeType' /\ PlaceInv'
    BY <1>8, <2>1, <1>p DEF PipeType, PlaceInv
  <2> QED
    BY <1>8, <2>2, EndCounts DEF PipeInv
<1>9. ASSUME NEW i \in Conns, ChannelEnds(i) PROVE PipeInv'
  BY <1>8, <1>9 DEF ChannelEnds, iniVars
<1>10. ASSUME NEW i \in Conns, Back(i) PROVE PipeInv'
  <2>1. CASE ini[i] = "done"
    BY <1>8, <1>10, <2>1 DEF Back
  <2>2. CASE ini[i] # "done"
    <3>1. /\ svc[i] = "open" /\ got' = got \cup {i}
          /\ UNCHANGED <<srv, svc, active, ini, out, counted>>
      BY <1>10, <2>2 DEF Back
    <3> QED
      BY <3>1, <1>p, <1>k DEF PipeType, PlaceInv, PipeInv
  <2> QED
    BY <2>1, <2>2
<1> QED
  BY <1>1, <1>3, <1>4, <1>5, <1>6, <1>7, <1>9, <1>10
  DEF Next, vars, pipeVars, iniVars, StartTest, EndDown, EndUp, LinkDies, SessionEnds, Server, Reply

\* The panel's count of active connections is the number of running pipes
\* (session.pipe's ConnOpen and deferred ConnClose).
THEOREM ActiveIsExact == Spec => []ActiveCountsPipes
<1>1. PipeInv => ActiveCountsPipes
  BY DEF PipeInv
<1> QED
  BY <1>1, PipeInit, PipeStep, PTL DEF Spec

\* A probe does not call a service up that the client had refused by then
\* (probeTCP, probeHTTP and the close of the refused connection).
THEOREM RefusedFails == Spec => RefusedProbeFails
<1> DEFINE Fails == \A i \in Probes :
             ini[i] # "done" /\ out'[i] \in {"ok", "held"} => svc[i] # "refused"
<1>1. PipeInv /\ [Next]_vars => [Fails]_vars
  <2> SUFFICES ASSUME PipeInv, Next, NEW i \in Probes, ini[i] # "done", out'[i] \in {"ok", "held"},
                      svc[i] = "refused"
               PROVE  FALSE
    OBVIOUS
  <2>1. i \in Conns /\ srv[i] = "ended" /\ i \notin got /\ out[i] = "none" /\ PipeType
    BY DEF PipeInv, PlaceInv, Conns
  <2>2. ASSUME NEW j \in Conns, NEW x \in {"fail", "err", "data", "empty"}, Return(j, x) PROVE FALSE
    BY <2>1, <2>2 DEF Return, PipeType
  <2>3. ASSUME NEW j \in Conns, ProbeReads(j) \/ ProbeTimeout(j) PROVE FALSE
    <3>1. CASE j = i
      BY <2>1, <2>3, <3>1 DEF ProbeReads, ProbeTimeout, Return, PipeType
    <3>2. CASE j # i
      BY <2>1, <2>3, <3>2 DEF ProbeReads, ProbeTimeout, Return, PipeType
    <3> QED
      BY <3>1, <3>2
  <2>4. out' # out
    BY <2>1
  <2>5. \E j \in Conns : Initiator(j)
    BY <2>4 DEF Next, StartTest, EndDown, EndUp, LinkDies, SessionEnds, Server, PipeStart, FeedEnds, ChannelEnds,
                Reply, ChannelOpened, ChannelRefused, Forward, Back, ServiceEnds, iniVars
  <2> QED
    BY <2>2, <2>3, <2>4, <2>5 DEF Initiator, Dial, DialFails, AskFails, UpEnds, DownEnds
<1> QED
  BY <1>1, PipeInit, PipeStep, PTL DEF Spec, RefusedProbeFails
=============================================================================
