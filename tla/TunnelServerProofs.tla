------------------------- MODULE TunnelServerProofs -------------------------
(***************************************************************************)
(* Theorems about TunnelServer, for every set of sessions, names and       *)
(* ports: the manager, the listeners, and that the server implements       *)
(* NameLease.                                                              *)
(***************************************************************************)
EXTENDS TunnelServer, TLAPS

(***************************************************************************)
(* Type correctness.                                                       *)
(***************************************************************************)

\* The initial state is well typed.
LEMMA InitTypeOK == Init => TypeOK
  BY ConstAssumption DEF Init, TypeOK, PCs, Optional

\* Every step of the server, its clients and the network preserves the types.
LEMMA NextTypeOK == TypeOK /\ [Next]_vars => TypeOK'
<1> SUFFICES ASSUME TypeOK, [Next]_vars PROVE TypeOK'
  OBVIOUS
<1> USE ConstAssumption DEF TypeOK, PCs, Optional, mgrVars, portVars, regVars
<1>1. ASSUME NEW s \in Sessions, Accept(s) PROVE TypeOK'
  BY <1>1 DEF Accept
<1>2. ASSUME NEW s \in Sessions, HandshakeFail(s) PROVE TypeOK'
  BY <1>2 DEF HandshakeFail
<1>3. ASSUME NEW s \in Sessions, HandshakeOK(s) PROVE TypeOK'
  BY <1>3 DEF HandshakeOK
<1>4. ASSUME NEW s \in Sessions, RegisterUnnamed(s) PROVE TypeOK'
  BY <1>4 DEF RegisterUnnamed, EnterLoop
<1>5. ASSUME NEW s \in Sessions, RegisterSwap(s) PROVE TypeOK'
  BY <1>5 DEF RegisterSwap, OldSession, TakeName, Named
<1>26. ASSUME NEW s \in Sessions, RegisterFirst(s) PROVE TypeOK'
  BY <1>26 DEF RegisterFirst, OldSession, TakeName, Named, EnterLoop
<1>6. ASSUME NEW s \in Sessions, CloseOld(s) PROVE TypeOK'
  BY <1>6 DEF CloseOld, Evictee
<1>7. ASSUME NEW s \in Sessions, WaitDone(s) PROVE TypeOK'
  BY <1>7 DEF WaitDone, OldIsDone, EnterLoop
<1>8. ASSUME NEW s \in Sessions, WaitTimeout(s) PROVE TypeOK'
  BY <1>8 DEF WaitTimeout, EnterLoop
<1>9. ASSUME NEW s \in Sessions, ForwardRefused(s) PROVE TypeOK'
  BY <1>9 DEF ForwardRefused, NextReq, TakeReq
<1>10. ASSUME NEW s \in Sessions, StartForward(s) PROVE TypeOK'
  <2>1. Head(reqs[s]).port \in ReqPorts
    BY <1>10 DEF StartForward
  <2>2. reqs' \in [Sessions -> Seq(Requests)]
    BY <1>10 DEF StartForward, NextReq, TakeReq
  <2>3. PICK q \in Ports : /\ bound' = [bound EXCEPT ![q] = s]
                          /\ fwds' = [fwds EXCEPT ![s][Head(reqs[s]).port] = q]
    BY <1>10 DEF StartForward, Bindable
  <2>4. bound' \in [Ports -> Sessions \cup {NoSession}]
    BY <2>3
  <2>5. fwds' \in [Sessions -> [ReqPorts -> Ports \cup {NoPort}]]
    BY <2>3
  <2>6. regPorts' \in [Sessions -> SUBSET ReqPorts]
    <3>1. regm[AddrOf[s]] \in Sessions \cup {NoSession}
      OBVIOUS
    <3>2. AddPort(s, Head(reqs[s]).port)
      BY <1>10 DEF StartForward
    <3> QED BY <3>1, <3>2, <2>1 DEF AddPort
  <2>7. UNCHANGED <<pc, conn, link, done, ka, byName, waitFor, ord, nextOrd, timedOut, regm>>
    BY <1>10 DEF StartForward
  <2> QED BY <2>2, <2>4, <2>5, <2>6, <2>7
<1>11. ASSUME NEW s \in Sessions, CancelForward(s) PROVE TypeOK'
  <2>1. reqs' \in [Sessions -> Seq(Requests)]
    BY <1>11 DEF CancelForward, Cancels, NextReq, TakeReq
  <2>2. PICK p : /\ bound' = [q \in Ports |-> IF fwds[s][p] = q THEN NoSession ELSE bound[q]]
                 /\ fwds' = [fwds EXCEPT ![s][p] = NoPort]
    BY <1>11 DEF CancelForward, Cancels
  <2>3. bound' \in [Ports -> Sessions \cup {NoSession}]
    BY <2>2
  <2>4. fwds' \in [Sessions -> [ReqPorts -> Ports \cup {NoPort}]]
    BY <2>2
  <2>5. UNCHANGED <<pc, conn, link, done, ka, byName, waitFor, ord, nextOrd, timedOut,
                    regm, regPorts>>
    BY <1>11 DEF CancelForward, Cancels
  <2> QED BY <2>1, <2>3, <2>4, <2>5
<1>12. ASSUME NEW s \in Sessions, OtherReq(s) PROVE TypeOK'
  BY <1>12 DEF OtherReq, NextReq, TakeReq
<1>13. ASSUME NEW s \in Sessions, CloseAll(s) PROVE TypeOK'
  BY <1>13 DEF CloseAll, Listeners
<1>14. ASSUME NEW s \in Sessions, CloseDone(s) PROVE TypeOK'
  BY <1>14 DEF CloseDone
<1>15. ASSUME NEW s \in Sessions, Unregister(s) PROVE TypeOK'
  BY <1>15 DEF Unregister, Unlinks
<1>16. ASSUME NEW s \in Sessions, DelReg(s) PROVE TypeOK'
  BY <1>16 DEF DelReg
<1>17. ASSUME NEW s \in Sessions, KaTick(s) PROVE TypeOK'
  BY <1>17 DEF KaTick
<1>18. ASSUME NEW s \in Sessions, KaAnswered(s) PROVE TypeOK'
  BY <1>18 DEF KaAnswered
<1>19. ASSUME NEW s \in Sessions, KaGiveUp(s) PROVE TypeOK'
  BY <1>19 DEF KaGiveUp
<1>20. ASSUME NEW s \in Sessions, KaProbeDone(s) PROVE TypeOK'
  BY <1>20 DEF KaProbeDone
<1>21. ASSUME NEW s \in Sessions, KaDone(s) PROVE TypeOK'
  BY <1>21 DEF KaDone
<1>22. ASSUME NEW s \in Sessions, SendReq(s) PROVE TypeOK'
  BY <1>22 DEF SendReq
<1>23. ASSUME NEW s \in Sessions, PeerClose(s) PROVE TypeOK'
  BY <1>23 DEF PeerClose
<1>24. ASSUME NEW s \in Sessions, Drop(s) PROVE TypeOK'
  BY <1>24 DEF Drop
<1>25. CASE UNCHANGED vars
  BY <1>25 DEF vars
<1> QED
  BY <1>1, <1>2, <1>3, <1>4, <1>5, <1>6, <1>7, <1>8, <1>9, <1>10, <1>11, <1>12, <1>13, <1>14, <1>15, <1>16, <1>17, <1>18, <1>19, <1>20, <1>21, <1>22, <1>23, <1>24, <1>25, <1>26
  DEF Next, Handshake, Register, Loop, Finish, Probe, Network

\* Type correctness of the server's state, for every instance.
THEOREM TypeCorrect == Spec => []TypeOK
  BY InitTypeOK, NextTypeOK, PTL DEF Spec
(***************************************************************************)
(* The session manager.                                                    *)
(***************************************************************************)

\* No session has registered in the initial state.
LEMMA InitManager == Init => ManagerInv
  BY ConstAssumption DEF Init, ManagerInv, OrdInv, DoneInv, WaitsForEarlier, NoDeadEntry,
     EntryInv, GapInv, PastInv, LatestInv, Before

quietVars == <<pc, done, byName, waitFor, ord, nextOrd, timedOut>>

\* The request loop, the keepalive goroutine, the client and the network do
\* not touch what the session manager depends on.
LEMMA QuietSteps ==
  ASSUME NEW s \in Sessions,
         Loop(s) \/ KaTick(s) \/ Probe(s) \/ KaDone(s) \/ Network(s)
  PROVE  UNCHANGED quietVars
  BY DEF quietVars, mgrVars, Loop, Probe, Network, ForwardRefused, StartForward, CancelForward, Cancels, OtherReq, KaTick, KaAnswered, KaGiveUp, KaProbeDone, KaDone, SendReq, PeerClose, Drop

\* Every step preserves the session manager's invariant.
LEMMA NextManager == TypeOK /\ ManagerInv /\ [Next]_vars => ManagerInv'
<1> SUFFICES ASSUME TypeOK, ManagerInv, [Next]_vars PROVE ManagerInv'
  OBVIOUS
<1> USE ConstAssumption
<1> USE DEF TypeOK, Optional, mgrVars, ManagerInv, OrdInv, DoneInv, WaitsForEarlier,
            NoDeadEntry, EntryInv, GapInv, PastInv, LatestInv, Before, NoTimeout,
            SameName, Named
<1>1. CASE UNCHANGED quietVars
  BY <1>1 DEF quietVars
<1>2. ASSUME NEW s \in Sessions, Accept(s) PROVE ManagerInv'
  <2>1. OrdInv'
    BY <1>2 DEF Accept
  <2>2. DoneInv'
    BY <1>2 DEF Accept
  <2>3. WaitsForEarlier'
    BY <1>2 DEF Accept
  <2>4. NoDeadEntry'
    BY <1>2 DEF Accept
  <2>5. EntryInv'
    BY <1>2 DEF Accept
  <2>6. GapInv'
    BY <1>2 DEF Accept
  <2>7. PastInv'
    BY <1>2 DEF Accept
  <2>8. LatestInv'
    BY <1>2 DEF Accept
  <2> QED BY <2>1, <2>2, <2>3, <2>4, <2>5, <2>6, <2>7, <2>8
<1>3. ASSUME NEW s \in Sessions, HandshakeFail(s) PROVE ManagerInv'
  <2>1. OrdInv'
    BY <1>3 DEF HandshakeFail
  <2>2. DoneInv'
    BY <1>3 DEF HandshakeFail
  <2>3. WaitsForEarlier'
    BY <1>3 DEF HandshakeFail
  <2>4. NoDeadEntry'
    BY <1>3 DEF HandshakeFail
  <2>5. EntryInv'
    BY <1>3 DEF HandshakeFail
  <2>6. GapInv'
    BY <1>3 DEF HandshakeFail
  <2>7. PastInv'
    BY <1>3 DEF HandshakeFail
  <2>8. LatestInv'
    BY <1>3 DEF HandshakeFail
  <2> QED BY <2>1, <2>2, <2>3, <2>4, <2>5, <2>6, <2>7, <2>8
<1>4. ASSUME NEW s \in Sessions, HandshakeOK(s) PROVE ManagerInv'
  <2>1. OrdInv'
    BY <1>4 DEF HandshakeOK
  <2>2. DoneInv'
    BY <1>4 DEF HandshakeOK
  <2>3. WaitsForEarlier'
    BY <1>4 DEF HandshakeOK
  <2>4. NoDeadEntry'
    BY <1>4 DEF HandshakeOK
  <2>5. EntryInv'
    BY <1>4 DEF HandshakeOK
  <2>6. GapInv'
    BY <1>4 DEF HandshakeOK
  <2>7. PastInv'
    BY <1>4 DEF HandshakeOK
  <2>8. LatestInv'
    BY <1>4 DEF HandshakeOK
  <2> QED BY <2>1, <2>2, <2>3, <2>4, <2>5, <2>6, <2>7, <2>8
<1>5. ASSUME NEW s \in Sessions, RegisterUnnamed(s) PROVE ManagerInv'
  <2>1. OrdInv'
    BY <1>5 DEF RegisterUnnamed, EnterLoop
  <2>2. DoneInv'
    BY <1>5 DEF RegisterUnnamed, EnterLoop
  <2>3. WaitsForEarlier'
    BY <1>5 DEF RegisterUnnamed, EnterLoop
  <2>4. NoDeadEntry'
    BY <1>5 DEF RegisterUnnamed, EnterLoop
  <2>5. EntryInv'
    BY <1>5 DEF RegisterUnnamed, EnterLoop
  <2>6. GapInv'
    BY <1>5 DEF RegisterUnnamed, EnterLoop
  <2>7. PastInv'
    BY <1>5 DEF RegisterUnnamed, EnterLoop
  <2>8. LatestInv'
    BY <1>5 DEF RegisterUnnamed, EnterLoop
  <2> QED BY <2>1, <2>2, <2>3, <2>4, <2>5, <2>6, <2>7, <2>8
<1>6. ASSUME NEW s \in Sessions, CloseOld(s) PROVE ManagerInv'
  <2>1. OrdInv'
    BY <1>6 DEF CloseOld, Evictee
  <2>2. DoneInv'
    BY <1>6 DEF CloseOld, Evictee
  <2>3. WaitsForEarlier'
    BY <1>6 DEF CloseOld, Evictee
  <2>4. NoDeadEntry'
    BY <1>6 DEF CloseOld, Evictee
  <2>5. EntryInv'
    BY <1>6 DEF CloseOld, Evictee
  <2>6. GapInv'
    BY <1>6 DEF CloseOld, Evictee
  <2>7. PastInv'
    BY <1>6 DEF CloseOld, Evictee
  <2>8. LatestInv'
    BY <1>6 DEF CloseOld, Evictee
  <2> QED BY <2>1, <2>2, <2>3, <2>4, <2>5, <2>6, <2>7, <2>8
<1>7. ASSUME NEW s \in Sessions, CloseAll(s) PROVE ManagerInv'
  <2>1. OrdInv'
    BY <1>7 DEF CloseAll, Listeners
  <2>2. DoneInv'
    BY <1>7 DEF CloseAll, Listeners
  <2>3. WaitsForEarlier'
    BY <1>7 DEF CloseAll, Listeners
  <2>4. NoDeadEntry'
    BY <1>7 DEF CloseAll, Listeners
  <2>5. EntryInv'
    BY <1>7 DEF CloseAll, Listeners
  <2>6. GapInv'
    BY <1>7 DEF CloseAll, Listeners
  <2>7. PastInv'
    BY <1>7 DEF CloseAll, Listeners
  <2>8. LatestInv'
    BY <1>7 DEF CloseAll, Listeners
  <2> QED BY <2>1, <2>2, <2>3, <2>4, <2>5, <2>6, <2>7, <2>8
<1>8. ASSUME NEW s \in Sessions, DelReg(s) PROVE ManagerInv'
  <2>1. OrdInv'
    BY <1>8 DEF DelReg
  <2>2. DoneInv'
    BY <1>8 DEF DelReg
  <2>3. WaitsForEarlier'
    BY <1>8 DEF DelReg
  <2>4. NoDeadEntry'
    BY <1>8 DEF DelReg
  <2>5. EntryInv'
    BY <1>8 DEF DelReg
  <2>6. GapInv'
    BY <1>8 DEF DelReg
  <2>7. PastInv'
    BY <1>8 DEF DelReg
  <2>8. LatestInv'
    BY <1>8 DEF DelReg
  <2> QED BY <2>1, <2>2, <2>3, <2>4, <2>5, <2>6, <2>7, <2>8
<1>9. ASSUME NEW s \in Sessions, RegisterFirst(s) PROVE ManagerInv'
  <2>1. OrdInv'
    BY <1>9 DEF RegisterFirst, OldSession, EnterLoop, TakeName
  <2>2. DoneInv'
    BY <1>9 DEF RegisterFirst, OldSession, EnterLoop, TakeName
  <2>3. WaitsForEarlier'
    BY <1>9 DEF RegisterFirst, OldSession, EnterLoop, TakeName
  <2>4. NoDeadEntry'
    BY <1>9 DEF RegisterFirst, OldSession, EnterLoop, TakeName
  <2>5. EntryInv'
    BY <1>9 DEF RegisterFirst, OldSession, EnterLoop, TakeName
  <2>6. GapInv'
    BY <1>9 DEF RegisterFirst, OldSession, EnterLoop, TakeName
  <2>7. PastInv'
    BY <1>9 DEF RegisterFirst, OldSession, EnterLoop, TakeName
  <2>8. LatestInv'
    BY <1>9 DEF RegisterFirst, OldSession, EnterLoop, TakeName
  <2> QED BY <2>1, <2>2, <2>3, <2>4, <2>5, <2>6, <2>7, <2>8
<1>10. ASSUME NEW s \in Sessions, RegisterSwap(s) PROVE ManagerInv'
  <2>1. OrdInv'
    BY <1>10 DEF RegisterSwap, OldSession, TakeName
  <2>2. DoneInv'
    BY <1>10 DEF RegisterSwap, OldSession, TakeName
  <2>3. WaitsForEarlier'
    BY <1>10 DEF RegisterSwap, OldSession, TakeName
  <2>4. NoDeadEntry'
    BY <1>10 DEF RegisterSwap, OldSession, TakeName
  <2>5. EntryInv'
    BY <1>10 DEF RegisterSwap, OldSession, TakeName
  <2>6. GapInv'
    <3> SUFFICES ASSUME NEW u \in Sessions, NEW t \in Sessions, NoTimeout(u)',
                        pc'[u] \in {"evict", "wait"}, Before(t, u)',
                        ord'[waitFor'[u]] < ord'[t]
                 PROVE  t \in done'
      OBVIOUS
    <3>1. CASE u # s
      BY <1>10, <3>1 DEF RegisterSwap, OldSession, TakeName
    <3>2. CASE u = s
      <4> DEFINE old == byName[NameOf[s]]
      <4>1. old \in Sessions /\ waitFor'[s] = old /\ NameOf[s] \in Names
        BY <1>10 DEF RegisterSwap, OldSession
      <4>2. t # s /\ ord'[t] = ord[t] /\ 0 < ord[t]
        BY <1>10, <3>2 DEF RegisterSwap, OldSession, TakeName
      <4>3. old # s
        BY <1>10, <4>1 DEF RegisterSwap, OldSession
      <4>4. ord[old] < ord[t] /\ NameOf[t] = NameOf[s]
        BY <1>10, <3>2, <4>1, <4>2, <4>3 DEF RegisterSwap, OldSession, TakeName
      <4>5. NoTimeout(t)
        BY <1>10, <3>2, <4>4 DEF RegisterSwap, OldSession
      <4>6. t \notin done => ord[t] <= ord[old]
        BY <4>2, <4>4, <4>5
      <4> HIDE DEF old
      <4>7. ord[old] \in Nat /\ ord[t] \in Nat
        BY <4>1
      <4>8. t \in done
        BY <4>4, <4>6, <4>7
      <4> QED BY <1>10, <4>8 DEF RegisterSwap, OldSession
    <3> QED BY <3>1, <3>2
  <2>7. PastInv'
    BY <1>10 DEF RegisterSwap, OldSession, TakeName
  <2>8. LatestInv'
    BY <1>10 DEF RegisterSwap, OldSession, TakeName
  <2> QED BY <2>1, <2>2, <2>3, <2>4, <2>5, <2>6, <2>7, <2>8
<1>11. ASSUME NEW s \in Sessions, WaitDone(s) PROVE ManagerInv'
  <2>1. OrdInv'
    BY <1>11 DEF WaitDone, OldIsDone, EnterLoop
  <2>2. DoneInv'
    BY <1>11 DEF WaitDone, OldIsDone, EnterLoop
  <2>3. WaitsForEarlier'
    BY <1>11 DEF WaitDone, OldIsDone, EnterLoop
  <2>4. NoDeadEntry'
    BY <1>11 DEF WaitDone, OldIsDone, EnterLoop
  <2>5. EntryInv'
    BY <1>11 DEF WaitDone, OldIsDone, EnterLoop
  <2>6. GapInv'
    BY <1>11 DEF WaitDone, OldIsDone, EnterLoop
  <2>7. PastInv'
    <3> SUFFICES ASSUME NEW u \in Sessions, NEW t \in Sessions, NoTimeout(u)',
                        pc'[u] \in {"serve", "released", "unregister", "del", "end"},
                        Before(t, u)'
                 PROVE  t \in done'
      OBVIOUS
    <3>1. CASE u # s
      BY <1>11, <3>1 DEF WaitDone, OldIsDone, EnterLoop
    <3>2. CASE u = s
      <4> DEFINE o == waitFor[s]
      <4>1. o \in Sessions /\ o \in done /\ pc[s] = "wait" /\ SameName(s, o)
        BY <1>11 DEF WaitDone, OldIsDone
      <4>2. Before(t, s) /\ NoTimeout(s)
        BY <1>11, <3>2 DEF WaitDone, OldIsDone
      <4>3. pc[o] \in {"unregister", "del", "end"} /\ NoTimeout(o)
        BY <4>1, <4>2
      <4>4. CASE ord[o] < ord[t]
        BY <4>1, <4>2, <4>4, <1>11 DEF WaitDone, OldIsDone
      <4>5. CASE ord[o] = ord[t]
        <5>1. o = t
          BY <4>1, <4>2, <4>5
        <5> QED BY <4>1, <5>1, <1>11 DEF WaitDone, OldIsDone
      <4>6. CASE ord[t] < ord[o]
        <5>1. Before(t, o)
          BY <4>1, <4>2, <4>6
        <5> QED BY <4>1, <4>3, <5>1, <1>11 DEF WaitDone, OldIsDone
      <4> QED BY <4>1, <4>4, <4>5, <4>6
    <3> QED BY <3>1, <3>2
  <2>8. LatestInv'
    BY <1>11 DEF WaitDone, OldIsDone, EnterLoop
  <2> QED BY <2>1, <2>2, <2>3, <2>4, <2>5, <2>6, <2>7, <2>8
<1>12. ASSUME NEW s \in Sessions, WaitTimeout(s) PROVE ManagerInv'
  <2>1. OrdInv'
    BY <1>12 DEF WaitTimeout, EnterLoop
  <2>2. DoneInv'
    BY <1>12 DEF WaitTimeout, EnterLoop
  <2>3. WaitsForEarlier'
    BY <1>12 DEF WaitTimeout, EnterLoop
  <2>4. NoDeadEntry'
    BY <1>12 DEF WaitTimeout, EnterLoop
  <2>5. EntryInv'
    BY <1>12 DEF WaitTimeout, EnterLoop
  <2>6. GapInv'
    BY <1>12 DEF WaitTimeout, EnterLoop
  <2>7. PastInv'
    BY <1>12 DEF WaitTimeout, EnterLoop
  <2>8. LatestInv'
    BY <1>12 DEF WaitTimeout, EnterLoop
  <2> QED BY <2>1, <2>2, <2>3, <2>4, <2>5, <2>6, <2>7, <2>8
<1>13. ASSUME NEW s \in Sessions, CloseDone(s) PROVE ManagerInv'
  <2>1. OrdInv'
    BY <1>13 DEF CloseDone
  <2>2. DoneInv'
    BY <1>13 DEF CloseDone
  <2>3. WaitsForEarlier'
    BY <1>13 DEF CloseDone
  <2>4. NoDeadEntry'
    BY <1>13 DEF CloseDone
  <2>5. EntryInv'
    BY <1>13 DEF CloseDone
  <2>6. GapInv'
    BY <1>13 DEF CloseDone
  <2>7. PastInv'
    BY <1>13 DEF CloseDone
  <2>8. LatestInv'
    BY <1>13 DEF CloseDone
  <2> QED BY <2>1, <2>2, <2>3, <2>4, <2>5, <2>6, <2>7, <2>8
<1>14. ASSUME NEW s \in Sessions, Unregister(s) PROVE ManagerInv'
  <2>1. OrdInv'
    BY <1>14 DEF Unregister, Unlinks
  <2>2. DoneInv'
    BY <1>14 DEF Unregister, Unlinks
  <2>3. WaitsForEarlier'
    BY <1>14 DEF Unregister, Unlinks
  <2>4. NoDeadEntry'
    BY <1>14 DEF Unregister, Unlinks
  <2>5. EntryInv'
    BY <1>14 DEF Unregister, Unlinks
  <2>6. GapInv'
    BY <1>14 DEF Unregister, Unlinks
  <2>7. PastInv'
    BY <1>14 DEF Unregister, Unlinks
  <2>8. LatestInv'
    <3> SUFFICES ASSUME NEW t \in Sessions, ord'[t] > 0, t \notin done', NoTimeout(t)'
                 PROVE  /\ byName'[NameOf[t]] \in Sessions
                        /\ ord'[t] <= ord'[byName'[NameOf[t]]]
      OBVIOUS
    <3> DEFINE b == byName[NameOf[t]]
    <3>1. /\ ord[t] > 0 /\ t \notin done /\ NoTimeout(t) /\ NameOf[t] \in Names
          /\ UNCHANGED <<ord, done, timedOut>>
      BY <1>14 DEF Unregister, Unlinks
    <3>2. b \in Sessions /\ ord[t] <= ord[b] /\ NameOf[b] = NameOf[t]
      BY <3>1
    <3>3. CASE b # s
      <4>1. byName'[NameOf[t]] = b
        BY <1>14, <3>1, <3>3 DEF Unregister, Unlinks
      <4> QED BY <3>1, <3>2, <4>1
    <3>4. CASE b = s
      <4>1. pc[s] = "unregister" /\ s \in done /\ s # t
        BY <1>14, <3>1 DEF Unregister, Unlinks
      <4>2. Before(t, s) /\ NoTimeout(s)
        BY <3>1, <3>2, <3>4, <4>1
      <4>3. t \in done
        BY <4>1, <4>2
      <4> QED BY <3>1, <4>3
    <3> QED BY <3>3, <3>4
  <2> QED BY <2>1, <2>2, <2>3, <2>4, <2>5, <2>6, <2>7, <2>8
<1>15. UNCHANGED vars => UNCHANGED quietVars
  BY DEF vars, quietVars
<1> QED
  BY QuietSteps, <1>1, <1>2, <1>3, <1>4, <1>5, <1>6, <1>7, <1>8, <1>9, <1>10, <1>11, <1>12, <1>13, <1>14, <1>15
  DEF Next, Handshake, Register, Finish

\* The invariant holds in every reachable state.
LEMMA ManagerHolds == Spec => [](TypeOK /\ ManagerInv)
  BY InitTypeOK, NextTypeOK, InitManager, NextManager, PTL DEF Spec

\* The earlier of two sessions of a client is done when the later one's
\* register has returned.
LEMMA OneLiveFromInv == TypeOK /\ ManagerInv => OneLiveSession
<1> SUFFICES ASSUME TypeOK, ManagerInv, NEW s \in Sessions, NEW t \in Sessions,
                    s # t, SameName(s, t), Live(s), Live(t), NoTimeout(s)
             PROVE  FALSE
  BY DEF OneLiveSession
<1> USE ConstAssumption DEF ManagerInv, SameName, Live
<1>1. s \notin done /\ t \notin done
  BY DEF DoneInv
<1>2. ord[s] > 0 /\ ord[t] > 0 /\ ord[s] # ord[t] /\ ord[s] \in Nat /\ ord[t] \in Nat
  BY DEF OrdInv, TypeOK, Named
<1>3. NoTimeout(t)
  BY DEF NoTimeout
<1>4. CASE ord[s] < ord[t]
  BY <1>1, <1>2, <1>3, <1>4 DEF PastInv, Before, Named
<1>5. CASE ord[t] < ord[s]
  BY <1>1, <1>2, <1>5 DEF PastInv, Before
<1> QED BY <1>2, <1>4, <1>5

\* One live session per client name, however many connections reconnect and
\* in whatever order their goroutines run.
THEOREM OneLivePerName == Spec => []OneLiveSession
  BY ManagerHolds, OneLiveFromInv, PTL

\* Evictions never wait in a cycle: a session waits only for an earlier one of
\* the same client.
THEOREM NoEvictionCycle == Spec => []WaitsForEarlier
  BY ManagerHolds, PTL DEF ManagerInv

\* sessionManager.byName holds no session whose goroutine has ended.
THEOREM NoStaleEntry == Spec => []NoDeadEntry
  BY ManagerHolds, PTL DEF ManagerInv

(***************************************************************************)
(* A displaced session is always on its way out.                           *)
(***************************************************************************)

\* Initially no session is past its registration.
LEMMA InitStale == Init => StaleIsEvicted
  BY DEF Init, StaleIsEvicted

\* The swap in register makes the old session the one to close, and only
\* closing it ends that duty.
LEMMA NextStale == TypeOK /\ WaitsForEarlier /\ StaleIsEvicted /\ [Next]_vars => StaleIsEvicted'
<1> SUFFICES ASSUME TypeOK, WaitsForEarlier, StaleIsEvicted, [Next]_vars PROVE StaleIsEvicted'
  OBVIOUS
<1> USE ConstAssumption
<1> USE DEF TypeOK, PCs, Optional, mgrVars, StaleIsEvicted, Named
<1>1. ASSUME NEW s \in Sessions,
             Loop(s) \/ KaTick(s) \/ KaAnswered(s) \/ KaProbeDone(s) \/ KaDone(s)
               \/ SendReq(s) \/ Drop(s) \/ UNCHANGED vars
      PROVE  StaleIsEvicted'
  <2>1. UNCHANGED <<pc, conn, byName, waitFor>>
    BY <1>1 DEF vars, Loop, ForwardRefused, StartForward, CancelForward, Cancels, OtherReq, KaTick, KaAnswered, KaProbeDone, KaDone, SendReq, Drop
  <2> QED BY <2>1
<1>2. ASSUME NEW s \in Sessions, KaGiveUp(s) PROVE StaleIsEvicted'
  BY <1>2 DEF KaGiveUp
<1>3. ASSUME NEW s \in Sessions, PeerClose(s) PROVE StaleIsEvicted'
  BY <1>3 DEF PeerClose
<1>4. ASSUME NEW s \in Sessions, Accept(s) PROVE StaleIsEvicted'
  BY <1>4 DEF Accept
<1>5. ASSUME NEW s \in Sessions, HandshakeFail(s) PROVE StaleIsEvicted'
  BY <1>5 DEF HandshakeFail
<1>6. ASSUME NEW s \in Sessions, HandshakeOK(s) PROVE StaleIsEvicted'
  BY <1>6 DEF HandshakeOK
<1>7. ASSUME NEW s \in Sessions, RegisterUnnamed(s) PROVE StaleIsEvicted'
  BY <1>7 DEF RegisterUnnamed, EnterLoop
<1>8. ASSUME NEW s \in Sessions, RegisterFirst(s) PROVE StaleIsEvicted'
  BY <1>8 DEF RegisterFirst, OldSession, EnterLoop, TakeName
<1>9. ASSUME NEW s \in Sessions, RegisterSwap(s) PROVE StaleIsEvicted'
  BY <1>9 DEF RegisterSwap, OldSession, TakeName
<1>10. ASSUME NEW s \in Sessions, CloseOld(s) PROVE StaleIsEvicted'
  BY <1>10 DEF CloseOld, Evictee
<1>11. ASSUME NEW s \in Sessions, WaitDone(s) PROVE StaleIsEvicted'
  BY <1>11 DEF WaitDone, OldIsDone, EnterLoop
<1>12. ASSUME NEW s \in Sessions, WaitTimeout(s) PROVE StaleIsEvicted'
  BY <1>12 DEF WaitTimeout, EnterLoop
<1>13. ASSUME NEW s \in Sessions, CloseAll(s) PROVE StaleIsEvicted'
  BY <1>13 DEF CloseAll, Listeners
<1>14. ASSUME NEW s \in Sessions, CloseDone(s) PROVE StaleIsEvicted'
  BY <1>14 DEF CloseDone
<1>15. ASSUME NEW s \in Sessions, Unregister(s) PROVE StaleIsEvicted'
  BY <1>15 DEF Unregister, Unlinks
<1>16. ASSUME NEW s \in Sessions, DelReg(s) PROVE StaleIsEvicted'
  BY <1>16 DEF DelReg
<1> QED
  <2>1. CASE UNCHANGED vars
    BY <2>1 DEF vars
  <2>2. CASE Next
    BY <2>2, <1>1, <1>2, <1>3, <1>4, <1>5, <1>6, <1>7, <1>8, <1>9, <1>10, <1>11, <1>12, <1>13, <1>14, <1>15, <1>16
    DEF Next, Handshake, Register, Finish, Probe, Network
  <2> QED BY <2>1, <2>2

\* A session that a newer connection of the client displaced has its
\* connection closed, or is about to.
THEOREM DisplacedIsClosed == Spec => []StaleIsEvicted
<1>1. TypeOK /\ ManagerInv => WaitsForEarlier
  BY DEF ManagerInv
<1> QED BY InitStale, NextStale, ManagerHolds, <1>1, PTL DEF Spec

(***************************************************************************)
(* The forwarded listeners, and that the server implements NameLease.      *)
(***************************************************************************)

ListenerInv == FwdInv /\ DoneMeansReleased

\* No listener is bound in the initial state.
LEMMA InitListeners == Init => ListenerInv
  BY ConstAssumption DEF Init, ListenerInv, FwdInv, DoneMeansReleased, ReqPorts

listenVars == <<pc, fwds, bound>>

\* Every step keeps fwds and the kernel's table of bound ports in agreement.
LEMMA NextListeners == TypeOK /\ ListenerInv /\ [Next]_vars => ListenerInv'
<1> SUFFICES ASSUME TypeOK, ListenerInv, [Next]_vars PROVE ListenerInv'
  OBVIOUS
<1> USE ConstAssumption
<1> USE DEF TypeOK, PCs, Optional, ReqPorts, portVars, ListenerInv, FwdInv, DoneMeansReleased
<1>1. CASE UNCHANGED listenVars
  BY <1>1 DEF listenVars
<1>2. ASSUME NEW s \in Sessions, Accept(s) PROVE ListenerInv'
  BY <1>2 DEF Accept
<1>3. ASSUME NEW s \in Sessions, HandshakeFail(s) PROVE ListenerInv'
  BY <1>3 DEF HandshakeFail
<1>4. ASSUME NEW s \in Sessions, HandshakeOK(s) PROVE ListenerInv'
  BY <1>4 DEF HandshakeOK
<1>5. ASSUME NEW s \in Sessions, RegisterUnnamed(s) PROVE ListenerInv'
  BY <1>5 DEF RegisterUnnamed, EnterLoop
<1>6. ASSUME NEW s \in Sessions, RegisterFirst(s) PROVE ListenerInv'
  BY <1>6 DEF RegisterFirst, OldSession, EnterLoop, TakeName
<1>7. ASSUME NEW s \in Sessions, RegisterSwap(s) PROVE ListenerInv'
  BY <1>7 DEF RegisterSwap, OldSession, TakeName
<1>8. ASSUME NEW s \in Sessions, CloseOld(s) PROVE ListenerInv'
  BY <1>8 DEF CloseOld, Evictee
<1>9. ASSUME NEW s \in Sessions, WaitDone(s) PROVE ListenerInv'
  BY <1>9 DEF WaitDone, OldIsDone, EnterLoop
<1>10. ASSUME NEW s \in Sessions, WaitTimeout(s) PROVE ListenerInv'
  BY <1>10 DEF WaitTimeout, EnterLoop
<1>11. ASSUME NEW s \in Sessions, CloseDone(s) PROVE ListenerInv'
  BY <1>11 DEF CloseDone
<1>12. ASSUME NEW s \in Sessions, Unregister(s) PROVE ListenerInv'
  BY <1>12 DEF Unregister, Unlinks
<1>13. ASSUME NEW s \in Sessions, DelReg(s) PROVE ListenerInv'
  BY <1>13 DEF DelReg
<1>14. ASSUME NEW s \in Sessions, StartForward(s) PROVE ListenerInv'
  <2> DEFINE p == Head(reqs[s]).port
  <2>1. p \in AllowedOf[s] /\ p \in ReqPorts /\ pc[s] = "serve" /\ UNCHANGED pc
    BY <1>14 DEF StartForward, NextReq
  <2>2. PICK q \in Ports : /\ bound[q] = NoSession /\ p \in {q, AnyPort}
                          /\ bound' = [bound EXCEPT ![q] = s]
                          /\ fwds' = [fwds EXCEPT ![s][p] = q]
    BY <1>14 DEF StartForward, Bindable
  <2> HIDE DEF p
  <2>3. \A t \in Sessions : \A r \in ReqPorts :
          fwds'[t][r] = IF t = s /\ r = p THEN q ELSE fwds[t][r]
    BY <2>1, <2>2
  <2>4. \A r \in Ports : bound'[r] = IF r = q THEN s ELSE bound[r]
    BY <2>2
  <2>5. \A t \in Sessions : \A r \in ReqPorts : fwds[t][r] # q
    BY <2>2
  <2>6. FwdInv'
    BY <2>1, <2>2, <2>3, <2>4, <2>5
  <2>7. DoneMeansReleased'
    BY <2>1, <2>2, <2>3, <2>4, <2>5
  <2> QED BY <2>6, <2>7
<1>15. ASSUME NEW s \in Sessions, CancelForward(s) PROVE ListenerInv'
  <2> DEFINE p == Head(reqs[s]).port
  <2>1. /\ bound' = [q \in Ports |-> IF fwds[s][p] = q THEN NoSession ELSE bound[q]]
        /\ fwds' = [fwds EXCEPT ![s][p] = NoPort]
        /\ UNCHANGED pc
    BY <1>15 DEF CancelForward, Cancels
  <2>2. p \in ReqPorts
    <3>1. Head(reqs[s]) \in Requests /\ Head(reqs[s]).op = "cancel"
      BY <1>15 DEF CancelForward, Cancels, NextReq
    <3> QED BY <3>1 DEF Requests
  <2> HIDE DEF p
  <2>3. \A t \in Sessions : \A r \in ReqPorts :
          fwds'[t][r] = IF t = s /\ r = p THEN NoPort ELSE fwds[t][r]
    BY <2>1
  <2>4. \A r \in Ports : bound'[r] = IF fwds[s][p] = r THEN NoSession ELSE bound[r]
    BY <2>1
  <2>5. FwdInv'
    BY <2>1, <2>2, <2>3, <2>4
  <2>6. DoneMeansReleased'
    BY <2>1, <2>2, <2>3, <2>4
  <2> QED BY <2>5, <2>6
<1>16. ASSUME NEW s \in Sessions, CloseAll(s) PROVE ListenerInv'
  <2>1. \A t \in Sessions : pc'[t] = IF t = s THEN "released" ELSE pc[t]
    BY <1>16 DEF CloseAll, Listeners
  <2>2. \A t \in Sessions : \A r \in ReqPorts :
          fwds'[t][r] = IF t = s THEN NoPort ELSE fwds[t][r]
    BY <1>16 DEF CloseAll, Listeners
  <2>3. \A r \in Ports :
          bound'[r] = IF \E p \in ReqPorts : fwds[s][p] = r THEN NoSession ELSE bound[r]
    BY <1>16 DEF CloseAll, Listeners
  <2>4. ASSUME NEW t \in Sessions, NEW q \in Ports, t # s, bound[q] = t
        PROVE  bound'[q] = t
    BY <2>3, <2>4
  <2>5. ASSUME NEW q \in Ports, bound'[q] = s
        PROVE  AnyPort \in AllowedOf[s]
    <3>1. bound[q] = s /\ \A p \in ReqPorts : fwds[s][p] # q
      BY <2>3, <2>5
    <3> QED BY <3>1
  <2>6. FwdInv'
    <3>1. ASSUME NEW t \in Sessions, NEW r \in ReqPorts, fwds'[t][r] \in Ports
          PROVE  /\ t # s /\ fwds'[t][r] = fwds[t][r]
                 /\ bound'[fwds'[t][r]] = t /\ pc'[t] = "serve" /\ r \in AllowedOf[t]
                 /\ r \in {fwds'[t][r], AnyPort}
      <4>1. t # s /\ fwds'[t][r] = fwds[t][r]
        BY <2>2, <3>1
      <4>2. bound[fwds[t][r]] = t
        BY <3>1, <4>1
      <4> QED BY <2>1, <2>4, <3>1, <4>1, <4>2
    <3> QED BY <3>1
  <2>7. DoneMeansReleased'
    <3> SUFFICES ASSUME NEW q \in Ports, NEW t \in Sessions, bound'[q] = t,
                        AnyPort \notin AllowedOf[t]
                 PROVE  pc'[t] = "serve" /\ q \in AllowedOf[t] /\ fwds'[t][q] = q
      OBVIOUS
    <3>1. t # s
      BY <2>5
    <3>2. bound[q] = t
      BY <2>3
    <3> QED BY <2>1, <2>2, <3>1, <3>2
  <2> QED BY <2>6, <2>7
<1>17. ASSUME NEW s \in Sessions,
             ForwardRefused(s) \/ OtherReq(s) \/ KaTick(s) \/ Probe(s) \/ KaDone(s) \/ Network(s)
      PROVE  UNCHANGED listenVars
  BY <1>17 DEF listenVars, Probe, Network, ForwardRefused, OtherReq, KaTick, KaAnswered, KaGiveUp, KaProbeDone, KaDone, SendReq, PeerClose, Drop
<1>18. UNCHANGED vars => UNCHANGED listenVars
  BY DEF vars, listenVars
<1> QED
  BY <1>1, <1>2, <1>3, <1>4, <1>5, <1>6, <1>7, <1>8, <1>9, <1>10, <1>11, <1>12, <1>13, <1>14, <1>15, <1>16, <1>17, <1>18
  DEF Next, Handshake, Register, Loop, Finish

\* The listener invariant holds in every reachable state.
LEMMA ListenersHold == Spec => []ListenerInv
<1>1. Init => TypeOK /\ ListenerInv
  BY InitTypeOK, InitListeners
<1>2. TypeOK /\ ListenerInv /\ [Next]_vars => TypeOK' /\ ListenerInv'
  BY NextTypeOK, NextListeners
<1> QED BY <1>1, <1>2, PTL DEF Spec

\* A closed done channel means every listener of the session is released, and
\* a bound port belongs to a session in its request loop that may have it.
THEOREM ListenersReleased == Spec => []DoneMeansReleased
  BY ListenersHold, PTL DEF ListenerInv

\* After register a client's ports are held by none of its older sessions.
THEOREM PortsReclaimed == Spec => []ReclaimsPorts
<1>1. TypeOK /\ ManagerInv /\ ListenerInv => ReclaimsPorts
  <2> SUFFICES ASSUME TypeOK, ManagerInv, ListenerInv,
                      NEW s \in Sessions, NEW t \in Sessions, NEW p \in Ports,
                      s # t, SameName(s, t), NoTimeout(s), AnyPort \notin AllowedOf[t],
                      Live(s), bound[p] = t
               PROVE  FALSE
    BY DEF ReclaimsPorts
  <2>1. Live(t)
    BY DEF ListenerInv, DoneMeansReleased, Live
  <2> QED BY <2>1, OneLiveFromInv DEF OneLiveSession
<1> QED BY <1>1, ManagerHolds, ListenersHold, PTL

\* A port leaves a session only in a step of that session's own request loop
\* (cancelForward, closeAll), and nobody binds over it (startForward).
THEOREM OwnersFree == Spec => OnlyOwnerFrees
<1> DEFINE Frees == \A p \in Ports : \A s \in Sessions :
             bound[p] = s /\ bound'[p] # s
               => /\ bound'[p] = NoSession
                  /\ pc[s] = "serve" /\ (reqs'[s] # reqs[s] \/ pc'[s] # pc[s])
<1>1. TypeOK /\ ListenerInv /\ [Next]_vars => [Frees]_vars
  <2> SUFFICES ASSUME TypeOK, ListenerInv, Next, NEW p \in Ports, NEW t \in Sessions,
                      bound[p] = t, bound'[p] # t
               PROVE  /\ bound'[p] = NoSession
                      /\ pc[t] = "serve" /\ (reqs'[t] # reqs[t] \/ pc'[t] # pc[t])
    OBVIOUS
  <2> USE ConstAssumption
  <2>1. ASSUME NEW s \in Sessions, StartForward(s) PROVE FALSE
    BY <2>1 DEF StartForward, Bindable, TypeOK
  <2>2. ASSUME NEW s \in Sessions, CancelForward(s)
        PROVE  bound'[p] = NoSession /\ s = t /\ pc[t] = "serve" /\ reqs'[t] # reqs[t]
    <3>1. /\ pc[s] = "serve" /\ reqs[s] # <<>> /\ reqs' = [reqs EXCEPT ![s] = Tail(@)]
          /\ Head(reqs[s]) \in Requests /\ Head(reqs[s]).op = "cancel"
          /\ reqs \in [Sessions -> Seq(Requests)]
      BY <2>2 DEF CancelForward, NextReq, TakeReq, TypeOK
    <3>2. Head(reqs[s]).port \in ReqPorts
      BY <3>1 DEF Requests
    <3>3. bound'[p] = NoSession /\ p = fwds[s][Head(reqs[s]).port]
      BY <2>2 DEF CancelForward, Cancels
    <3>4. s = t
      BY <3>2, <3>3 DEF ListenerInv, FwdInv
    <3>5. reqs'[s] # reqs[s]
      <4>1. reqs[s] \in Seq(Requests) /\ reqs'[s] = Tail(reqs[s])
        BY <3>1
      <4> QED
        BY <3>1, <4>1
    <3> QED
      BY <3>1, <3>3, <3>4, <3>5
  <2>3. ASSUME NEW s \in Sessions, CloseAll(s)
        PROVE  bound'[p] = NoSession /\ s = t /\ pc[t] = "serve" /\ pc'[t] # pc[t]
    <3>1. bound'[p] = NoSession /\ p \in Listeners(s) /\ pc[s] = "serve"
          /\ pc' = [pc EXCEPT ![s] = "released"]
      BY <2>3 DEF CloseAll
    <3>2. s = t
      BY <3>1 DEF Listeners, ListenerInv, FwdInv
    <3> QED
      BY <3>1, <3>2 DEF TypeOK
  <2>4. \E s \in Sessions : StartForward(s) \/ CancelForward(s) \/ CloseAll(s)
    <3>1. bound' # bound
      OBVIOUS
    <3> QED
      BY <3>1 DEF Next, portVars, Handshake, Register, Loop, Finish, Probe, Network,
         Accept, HandshakeOK, HandshakeFail, RegisterUnnamed, RegisterFirst, RegisterSwap, OldSession,
         CloseOld, Evictee, WaitDone, WaitTimeout, ForwardRefused, OtherReq, CloseDone, Unregister, Unlinks,
         DelReg, KaTick, KaAnswered, KaGiveUp, KaProbeDone, KaDone, SendReq, PeerClose, Drop
  <2> QED
    BY <2>1, <2>2, <2>3, <2>4
<1> QED
  BY <1>1, ManagerHolds, ListenersHold, PTL DEF Spec, OnlyOwnerFrees

(***************************************************************************)
(* The server implements NameLease.                                        *)
(***************************************************************************)

LiveSet == {s \in Sessions : Live(s)}

\* Initial states map to initial states of the lease.
LEMMA InitLease == Init => Lease!Init
  BY DEF Init, Lease!Init, Live

\* A session that enters its loop takes a lease nobody of its name holds.
LEMMA AcquireStep ==
  ASSUME TypeOK, ManagerInv, OneLiveSession', timedOut' = {},
         NEW s \in Sessions, RegisterUnnamed(s) \/ RegisterFirst(s) \/ WaitDone(s)
  PROVE  Lease!Acquire(s)
<1> USE ConstAssumption DEF TypeOK, mgrVars, portVars
<1>1. /\ pc[s] \in {"register", "wait"} /\ pc' = [pc EXCEPT ![s] = "serve"]
      /\ UNCHANGED <<done, bound>>
  BY DEF RegisterUnnamed, RegisterFirst, OldSession, WaitDone, OldIsDone, EnterLoop
<1>2. LiveSet' = LiveSet \cup {s} /\ s \notin LiveSet
  BY <1>1 DEF LiveSet, Live
<1>3. s \notin done
  BY <1>1 DEF ManagerInv, DoneInv
<1>4. ASSUME NEW t \in LiveSet, NameOf[s] # NoName PROVE NameOf[t] # NameOf[s]
  <2>1. s # t /\ Live(s)' /\ Live(t)' /\ t \in Sessions
    BY <1>1, <1>2 DEF LiveSet, Live
  <2>2. NoTimeout(s)'
    BY DEF NoTimeout
  <2>3. s # t /\ SameName(s, t)' /\ Live(s)' /\ Live(t)' => ~NoTimeout(s)'
    BY <2>1 DEF OneLiveSession
  <2> QED BY <1>4, <2>1, <2>2, <2>3 DEF SameName, Named
<1> QED BY <1>1, <1>2, <1>3, <1>4 DEF Lease!Acquire, LiveSet

\* Every step of the server is a step of the lease or leaves it alone.
LEMMA NextLease ==
  ASSUME \A s \in Sessions : AnyPort \notin AllowedOf[s],
         TypeOK, ManagerInv, ListenerInv, OneLiveSession', timedOut' = {}, [Next]_vars
  PROVE  [Lease!Next]_(Lease!leaseVars)
<1> USE ConstAssumption DEF TypeOK, mgrVars, portVars, Optional
<1> DEFINE Stutter == LiveSet' = LiveSet /\ done' = done /\ bound' = bound
<1>0. Stutter => UNCHANGED Lease!leaseVars
  BY DEF Lease!leaseVars, LiveSet
<1>1. ASSUME NEW s \in Sessions, RegisterUnnamed(s) \/ RegisterFirst(s) \/ WaitDone(s)
      PROVE  Lease!Next
  BY <1>1, AcquireStep DEF Lease!Next
<1>2. ASSUME NEW s \in Sessions, WaitTimeout(s) PROVE FALSE
  BY <1>2 DEF WaitTimeout
<1>3. ASSUME NEW s \in Sessions, StartForward(s) PROVE Lease!Next
  <2>1. PICK q \in Ports : /\ bound[q] = NoSession
                          /\ Head(reqs[s]).port \in {q, AnyPort}
                          /\ bound' = [bound EXCEPT ![q] = s]
    BY <1>3 DEF StartForward, Bindable
  <2>2. q \in AllowedOf[s] /\ pc[s] = "serve" /\ UNCHANGED <<pc, done>>
    BY <1>3, <2>1 DEF StartForward, NextReq
  <2>3. Lease!Bind(s, q)
    BY <2>1, <2>2 DEF Lease!Bind, Live
  <2> QED BY <2>3 DEF Lease!Next
<1>4. ASSUME NEW s \in Sessions, CancelForward(s) PROVE Lease!Next
  <2> DEFINE P == {q \in Ports : fwds[s][Head(reqs[s]).port] = q}
  <2>1. pc[s] = "serve" /\ UNCHANGED <<pc, done>>
    BY <1>4 DEF CancelForward, Cancels, NextReq
  <2>2. Head(reqs[s]).port \in ReqPorts
    <3>1. Head(reqs[s]) \in Requests /\ Head(reqs[s]).op = "cancel"
      BY <1>4 DEF CancelForward, Cancels, NextReq
    <3> QED BY <3>1 DEF Requests
  <2>3. bound' = [q \in Ports |-> IF q \in P THEN NoSession ELSE bound[q]]
    BY <1>4 DEF CancelForward, Cancels
  <2>4. P \subseteq Lease!Owned(s)
    BY <2>2 DEF Lease!Owned, ListenerInv, FwdInv
  <2>5. Lease!Free(s, P)
    BY <2>1, <2>3, <2>4 DEF Lease!Free, Live
  <2>6. P \in SUBSET Ports
    OBVIOUS
  <2> QED BY <2>5, <2>6 DEF Lease!Next
<1>5. ASSUME NEW s \in Sessions, CloseAll(s) PROVE Lease!Next
  <2> DEFINE P == {q \in Ports : \E p \in ReqPorts : fwds[s][p] = q}
  <2>1. pc[s] = "serve" /\ pc' = [pc EXCEPT ![s] = "released"] /\ UNCHANGED done
    BY <1>5 DEF CloseAll, Listeners
  <2>2. bound' = [q \in Ports |-> IF q \in P THEN NoSession ELSE bound[q]]
    BY <1>5 DEF CloseAll, Listeners
  <2>3. P \subseteq Lease!Owned(s)
    BY DEF Lease!Owned, ListenerInv, FwdInv
  <2>4. LiveSet' = LiveSet /\ s \in LiveSet
    BY <2>1 DEF LiveSet, Live
  <2>5. Lease!Free(s, P)
    BY <2>1, <2>2, <2>3, <2>4 DEF Lease!Free, LiveSet
  <2>6. P \in SUBSET Ports
    OBVIOUS
  <2> QED BY <2>5, <2>6 DEF Lease!Next
<1>6. ASSUME NEW s \in Sessions, CloseDone(s) PROVE Lease!Next
  <2>1. /\ pc[s] = "released" /\ pc' = [pc EXCEPT ![s] = "unregister"]
        /\ done' = done \cup {s} /\ UNCHANGED bound
    BY <1>6 DEF CloseDone
  <2>2. LiveSet' = LiveSet \ {s} /\ s \in LiveSet
    BY <2>1 DEF LiveSet, Live
  <2>3. Lease!Owned(s) = {}
    BY <2>1 DEF Lease!Owned, ListenerInv, DoneMeansReleased
  <2>4. Lease!Release(s)
    BY <2>1, <2>2, <2>3 DEF Lease!Release, LiveSet
  <2> QED BY <2>4 DEF Lease!Next
<1>7. ASSUME NEW s \in Sessions,
             Accept(s) \/ Handshake(s) \/ RegisterSwap(s) \/ CloseOld(s) \/ Unregister(s) \/ DelReg(s)
      PROVE  Stutter
  <2>1. PICK c \in {"handshake", "register", "evict", "wait", "del", "end"} :
          pc' = [pc EXCEPT ![s] = c]
    BY <1>7 DEF Accept, Handshake, HandshakeOK, HandshakeFail, RegisterSwap, OldSession, CloseOld, Evictee,
                Unregister, Unlinks, DelReg
  <2>2. ~Live(s) /\ UNCHANGED <<done, bound>>
    BY <1>7 DEF Accept, Handshake, HandshakeOK, HandshakeFail, RegisterSwap, OldSession, CloseOld, Evictee,
                Unregister, Unlinks, DelReg, Live
  <2> QED BY <2>1, <2>2 DEF LiveSet, Live
<1>8. ASSUME NEW s \in Sessions,
             ForwardRefused(s) \/ OtherReq(s) \/ KaTick(s) \/ Probe(s) \/ KaDone(s) \/ Network(s)
      PROVE  Stutter
  <2>1. UNCHANGED <<pc, done, bound>>
    BY <1>8 DEF Probe, Network, ForwardRefused, OtherReq, KaTick, KaAnswered, KaGiveUp,
                KaProbeDone, KaDone, SendReq, PeerClose, Drop
  <2> QED BY <2>1 DEF LiveSet, Live
<1>9. UNCHANGED vars => Stutter
  BY DEF vars, LiveSet, Live
<1> HIDE DEF Stutter
<1>10. Lease!Next \/ Stutter
  BY <1>1, <1>2, <1>3, <1>4, <1>5, <1>6, <1>7, <1>8, <1>9
  DEF Next, Register, Loop, Finish
<1> QED BY <1>0, <1>10

\* The assumption of the refinement: EvictWait is never reached before the old
\* session is done, and no key allows port 0.
LeaseAssumption == ~EvictTimer /\ \A s \in Sessions : AnyPort \notin AllowedOf[s]

\* Without the timer no wait is ever cut short.
LEMMA NoTimerNoTimeout == Spec => [](LeaseAssumption => timedOut = {})
<1>1. Init => (LeaseAssumption => timedOut = {})
  BY DEF Init
<1>2. (LeaseAssumption => timedOut = {}) /\ [Next]_vars => (LeaseAssumption => timedOut = {})'
  <2> SUFFICES ASSUME ~EvictTimer, timedOut = {}, [Next]_vars PROVE timedOut' = {}
    BY DEF LeaseAssumption
  <2> QED
    BY DEF Next, vars, mgrVars, Handshake, Register, Loop, Finish, Probe, Network,
       Accept, HandshakeOK, HandshakeFail, RegisterUnnamed, RegisterFirst, RegisterSwap, OldSession,
       CloseOld, Evictee, WaitDone, OldIsDone, WaitTimeout, ForwardRefused, StartForward, CancelForward, Cancels,
       OtherReq, CloseAll, Listeners, CloseDone, Unregister, Unlinks, DelReg, KaTick, KaAnswered, KaGiveUp,
       KaProbeDone, KaDone, SendReq, PeerClose, Drop
<1> QED BY <1>1, <1>2, PTL DEF Spec

\* The server with its goroutines, channels and evictions implements the
\* one-session-per-name lease when no eviction wait is cut short and no key
\* may request port 0.
THEOREM ServerImplementsLease == LeaseAssumption /\ Spec => ImplementsLease
<1>1. TypeOK /\ ManagerInv /\ ListenerInv /\ OneLiveSession'
        /\ LeaseAssumption /\ (LeaseAssumption => timedOut = {})' /\ [Next]_vars
        => [Lease!Next]_(Lease!leaseVars)
  BY NextLease DEF LeaseAssumption
<1>2. LeaseAssumption => LeaseAssumption'
  BY DEF LeaseAssumption
<1>3. LeaseAssumption => []LeaseAssumption
  BY <1>2, PTL
<1> QED
  BY <1>1, <1>3, InitLease, ManagerHolds, ListenersHold, OneLivePerName, NoTimerNoTimeout, PTL
  DEF Spec, ImplementsLease, Lease!Spec
=============================================================================
