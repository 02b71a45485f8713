--------------------------- MODULE AttemptsProofs ---------------------------
(***************************************************************************)
(* Proofs about Attempts, for any number of clients, addresses, handshakes *)
(* and instants per second.                                                *)
(***************************************************************************)
EXTENDS Attempts, TLAPS

Times == 0..MaxTime

\* The types the proofs use.
AttType ==
  /\ now \in Times
  /\ lastAt \in [IPs -> Nat] /\ failsSince \in [IPs -> Nat] /\ lastOK \subseteq IPs
  /\ suppressed \in [IPs -> Nat]
  /\ lastIP \in [Names -> IPs \cup {NoIP}]
  /\ conn \subseteq Names \X IPs
  /\ authed \subseteq Names \X IPs
  /\ seen \in [Names -> Times \cup {Absent}]
  /\ listed \subseteq Names /\ left \in [Names -> Nat] /\ late \in [Names -> Nat]
  /\ refused \in [IPs -> Nat] /\ heard \in [IPs -> Nat]
  /\ owed \in [IPs -> Int]
  /\ fail \in [Handlers -> [ip : IPs, known : BOOLEAN] \cup {NoFail}]

\* The history agrees with the entry of the IP.
HistInv == \A ip \in IPs :
  /\ heard[ip] = lastAt[ip] /\ lastAt[ip] <= now
  /\ refused[ip] <= lastAt[ip]
  /\ refused[ip] > 0 => failsSince[ip] > 0

\* A client was last seen at x, no later than it left, or than the sampler dated
\* it after that, unless it is connected.
SeenBy(n, x) == x <= left[n] \/ x <= late[n] \/ Connected(n)

\* So the store says of every client ...
SeenInv == \A n \in Names :
  /\ left[n] <= now /\ late[n] <= now
  /\ seen[n] # Absent => seen[n] <= now /\ SeenBy(n, seen[n])

\* ... and so says what the request has read of it.
ReqInv ==
  /\ req.at # "idle" => req.name \in Names
  /\ req.at = "diagnose" => req.ip \in IPs \cup {NoIP}
  /\ req.at \in {"ip", "diagnose"} =>
       /\ req.seen \in Nat /\ req.seen <= now
       /\ SeenBy(req.name, req.seen)

\* The last IP of a client has had a session.
OkInv ==
  /\ \A n \in Names, ip \in IPs : <<n, ip>> \in authed => ip \in lastOK
  /\ \A n \in Names : lastIP[n] # NoIP => lastIP[n] \in lastOK
  /\ req.at = "diagnose" /\ req.ip # NoIP => req.ip \in lastOK

Inv == AttType /\ HistInv /\ SeenInv /\ ReqInv /\ OkInv /\ SuppressedAreCounted

LEMMA InitInv == Init => Inv
<1> SUFFICES ASSUME Init PROVE Inv
  OBVIOUS
<1> USE AttemptsAssumption DEF Init
<1>1. AttType
  BY DEF AttType, Times, Never, Absent, NoFail
<1>2. HistInv
  BY DEF HistInv, Never
<1>3. SeenInv /\ ReqInv
  BY DEF SeenInv, SeenBy, ReqInv, NoReq, Never
<1>4. SuppressedAreCounted /\ OkInv
  BY DEF SuppressedAreCounted, OkInv, NoReq
<1> QED
  BY <1>1, <1>2, <1>3, <1>4 DEF Inv

\* Recording an outcome keeps the entries and the history in step.
LEMMA RecordKeeps ==
  ASSUME AttType, HistInv, SuppressedAreCounted, NEW ip \in IPs, now' = now,
         \/ RecordOK(ip) \/ RecordTrivial(ip)
         \/ \E known \in BOOLEAN : RecordFail(ip, known)
  PROVE  /\ lastAt' \in [IPs -> Nat] /\ failsSince' \in [IPs -> Nat]
         /\ suppressed' \in [IPs -> Nat]
         /\ refused' \in [IPs -> Nat] /\ heard' \in [IPs -> Nat]
         /\ owed' \in [IPs -> Int] /\ lastOK' \subseteq IPs /\ lastOK \subseteq lastOK'
         /\ HistInv'
         /\ SuppressedAreCounted'
<1> USE DEF AttType, HistInv, SuppressedAreCounted, Times
<1>1. CASE RecordOK(ip)
  BY <1>1 DEF RecordOK, Arrived, Never
<1>2. CASE RecordTrivial(ip)
  BY <1>2 DEF RecordTrivial, Arrived
<1>3. ASSUME NEW known \in BOOLEAN, RecordFail(ip, known)
      PROVE  /\ lastAt' \in [IPs -> Nat] /\ failsSince' \in [IPs -> Nat]
             /\ suppressed' \in [IPs -> Nat]
             /\ refused' \in [IPs -> Nat] /\ heard' \in [IPs -> Nat]
             /\ owed' \in [IPs -> Int] /\ lastOK' \subseteq IPs /\ lastOK \subseteq lastOK'
             /\ HistInv'
             /\ SuppressedAreCounted'
  <2>1. /\ lastAt' = [lastAt EXCEPT ![ip] = now]
        /\ heard' = [heard EXCEPT ![ip] = now]
        /\ refused' = [refused EXCEPT ![ip] = now]
        /\ failsSince' = [failsSince EXCEPT ![ip] = @ + 1]
        /\ LogIt(ip) \/ Suppress(ip)
        /\ lastOK' = lastOK
    BY <1>3 DEF RecordFail, Arrived
  <2> QED
    BY <2>1 DEF LogIt, Suppress
<1> QED
  BY <1>1, <1>2, <1>3

\* The second a client is dated to is not in the future.
LEMMA UnixIsPast == ASSUME now \in Times PROVE Unix \in Times /\ Unix <= now
<1>1. now % Second \in 0..(Second - 1) /\ now % Second <= now
  BY AttemptsAssumption DEF Times
<1> QED
  BY <1>1, AttemptsAssumption DEF Unix, Times

\* Steps that leave the attempts, or the registry and the store, alone.
LEMMA AttKept ==
  ASSUME Inv, UNCHANGED attVars, now' \in Nat, now <= now'
  PROVE  HistInv' /\ SuppressedAreCounted'
BY DEF Inv, attVars, HistInv, SuppressedAreCounted, AttType, Times

LEMMA SeenKept ==
  ASSUME Inv, now' \in Nat, now <= now', seen' = seen, left' = left, late' = late,
         \A n \in Names : Connected(n) => Connected(n)'
  PROVE  SeenInv'
BY AttemptsAssumption DEF Inv, SeenInv, SeenBy, AttType, Times, Absent

LEMMA ReqKept ==
  ASSUME Inv, now' \in Nat, now <= now', req' = req, left' = left, late' = late,
         \A n \in Names : Connected(n) => Connected(n)'
  PROVE  ReqInv'
BY DEF Inv, ReqInv, SeenBy, AttType, Times

LEMMA OkKept ==
  ASSUME Inv, lastOK \subseteq lastOK', authed' \subseteq authed, lastIP' = lastIP,
         req' = req
  PROVE  OkInv'
BY DEF Inv, OkInv

LEMMA NextInv == Inv /\ [Next]_vars => Inv'
<1> SUFFICES ASSUME Inv, [Next]_vars PROVE Inv'
  OBVIOUS
<1> USE AttemptsAssumption
<1>t. AttType /\ now \in Nat
  BY DEF Inv, AttType, Times
<1>1. CASE UNCHANGED vars
  <2>1. AttType'
    BY <1>1, <1>t DEF vars, attVars, regVars, storeVars, AttType
  <2>2. \A n \in Names : Connected(n)' = Connected(n)
    BY <1>1 DEF vars, regVars, storeVars, Connected
  <2> QED
    BY <1>1, <1>t, <2>1, <2>2, AttKept, SeenKept, ReqKept, OkKept DEF vars, attVars, regVars, storeVars, Inv
<1>2. CASE Tick
  <2>1. now' = now + 1 /\ now' \in Times /\ now' \in Nat /\ now <= now'
    BY <1>2, <1>t DEF Tick, AttType, Times
  <2>2. AttType'
    BY <1>2, <1>t, <2>1 DEF Tick, attVars, regVars, storeVars, AttType
  <2>3. SeenInv' /\ ReqInv'
    BY <1>2, <2>1, SeenKept, ReqKept DEF Tick, regVars, storeVars, Connected
  <2> QED
    BY <1>2, <2>1, <2>2, <2>3, AttKept, OkKept DEF Tick, attVars, regVars, Inv
<1>3. ASSUME NEW r, reads(r), ReqInv', OkInv' PROVE Inv'
  <2>1. AttType'
    BY <1>3, <1>t DEF reads, attVars, regVars, storeVars, AttType
  <2>2. \A n \in Names : Connected(n)' = Connected(n)
    BY <1>3 DEF reads, regVars, storeVars, Connected
  <2> QED
    BY <1>3, <1>t, <2>1, <2>2, AttKept, SeenKept DEF reads, regVars, storeVars, Inv
<1>4. CASE Seen
  <2> DEFINE r == IF seen[req.name] = Absent THEN NoReq
                  ELSE [at |-> "ip", name |-> req.name, seen |-> seen[req.name], ip |-> NoIP]
  <2>1. reads(r) /\ req.at = "seen"
    BY <1>4 DEF Seen
  <2>2. req.name \in Names
    BY <2>1 DEF Inv, ReqInv
  <2>3. req' = r /\ UNCHANGED <<now, left, late, conn>>
    BY <2>1 DEF reads, regVars, storeVars
  <2>o. OkInv'
    BY <2>1 DEF reads, attVars, regVars, Inv, OkInv, NoReq
  <2>4. ASSUME seen[req.name] = Absent PROVE ReqInv'
    BY <2>3, <2>4 DEF ReqInv, NoReq
  <2>5. ASSUME seen[req.name] # Absent PROVE ReqInv'
    <3>1. seen[req.name] \in Nat /\ seen[req.name] <= now
          /\ SeenBy(req.name, seen[req.name])
      BY <1>t, <2>2, <2>5 DEF Inv, SeenInv, AttType, Times
    <3> QED
      BY <2>2, <2>3, <2>5, <3>1 DEF ReqInv, SeenBy, Connected
  <2> QED
    BY <1>3, <2>1, <2>o, <2>4, <2>5
<1>5. CASE LastIP
  <2> DEFINE r == [at |-> "diagnose", name |-> req.name, seen |-> req.seen, ip |-> lastIP[req.name]]
  <2>1. reads(r) /\ req.at = "ip"
    BY <1>5 DEF LastIP
  <2>2. ReqInv'
    BY <1>t, <2>1 DEF reads, regVars, storeVars, Inv, ReqInv, SeenBy, AttType, Connected
  <2>3. OkInv'
    BY <2>1 DEF reads, attVars, regVars, Inv, OkInv, ReqInv
  <2> QED
    BY <1>3, <2>1, <2>2, <2>3
<1>6. CASE Diagnose
  <2>1. reads(NoReq)
    BY <1>6 DEF Diagnose
  <2>2. ReqInv'
    BY <2>1 DEF reads, ReqInv, NoReq
  <2>3. OkInv'
    BY <2>1 DEF reads, attVars, regVars, Inv, OkInv, NoReq
  <2> QED
    BY <1>3, <2>1, <2>2, <2>3
<1>7. ASSUME NEW n \in Names, List(n) PROVE Inv'
  <2>1. reads([at |-> "seen", name |-> n, seen |-> Absent, ip |-> NoIP])
    BY <1>7 DEF List
  <2>2. ReqInv'
    BY <2>1 DEF reads, ReqInv
  <2>3. OkInv'
    BY <2>1 DEF reads, attVars, regVars, Inv, OkInv
  <2> QED
    BY <1>3, <2>1, <2>2, <2>3
<1>8. ASSUME NEW n \in Names, Sample(n) PROVE Inv'
  <2>1. AttType'
    BY <1>8, <1>t DEF Sample, attVars, regVars, storeVars, AttType
  <2>2. SeenInv' /\ ReqInv'
    BY <1>8, <1>t, SeenKept, ReqKept DEF Sample, regVars, storeVars, Connected
  <2> QED
    BY <1>8, <1>t, <2>1, <2>2, AttKept, OkKept DEF Sample, attVars, regVars, Inv
<1>9. ASSUME NEW n \in Names, Touch(n) PROVE Inv'
  <2>1. /\ seen' = [seen EXCEPT ![n] = Unix] /\ Unix \in Times /\ Unix <= now
        /\ late' = IF Connected(n) THEN late ELSE [late EXCEPT ![n] = now]
        /\ UNCHANGED <<now, conn, left, req>>
    BY <1>9, <1>t, UnixIsPast DEF Touch, AttType
  <2>2. AttType'
    BY <1>9, <1>t, <2>1 DEF Touch, attVars, AttType
  <2>c. \A m \in Names : Connected(m)' = Connected(m)
    BY <2>1 DEF Connected
  <2>l. \A m \in Names : late[m] <= late'[m] /\ late'[m] \in Nat /\ late'[m] <= now
    BY <1>t, <2>1 DEF Inv, SeenInv, AttType, Times
  <2>3. \A m \in Names : Connected(m)' = Connected(m) /\ late[m] <= late'[m]
    BY <2>c, <2>l
  <2>4. SeenInv'
    BY <1>t, <2>1, <2>l, <2>3 DEF Inv, SeenInv, SeenBy, AttType, Times
  <2>5. ReqInv'
    BY <1>t, <2>1, <2>2, <2>l, <2>3 DEF Inv, ReqInv, SeenBy, AttType, Times
  <2> QED
    BY <1>9, <1>t, <2>2, <2>4, <2>5, AttKept, OkKept DEF Touch, attVars, Inv
<1>10. ASSUME NEW n \in Names, Forward(n) PROVE Inv'
  <2>1. seen' = [seen EXCEPT ![n] = 0] /\ UNCHANGED <<now, regVars, req>>
    BY <1>10 DEF Forward, Never
  <2>2. AttType'
    BY <1>10, <1>t, <2>1 DEF Forward, attVars, regVars, storeVars, AttType, Times
  <2>3. \A m \in Names : Connected(m)' = Connected(m)
    BY <2>1 DEF regVars, storeVars, Connected
  <2>4. SeenInv'
    BY <1>t, <2>1, <2>3 DEF Inv, SeenInv, SeenBy, AttType, Times, regVars, storeVars
  <2>5. ReqInv'
    BY <1>t, <2>1, <2>3, ReqKept DEF regVars, storeVars
  <2> QED
    BY <1>10, <1>t, <2>2, <2>4, <2>5, AttKept, OkKept DEF Forward, attVars, regVars, Inv
<1>11. ASSUME NEW n \in Names, NEW ip \in IPs, Authenticated(n, ip) PROVE Inv'
  <2>1. AttType' /\ HistInv' /\ SuppressedAreCounted'
    BY <1>11, <1>t, RecordKeeps DEF Authenticated, storeVars, AttType, Inv
  <2>u. UNCHANGED <<now, seen, left, late, conn, req>>
    BY <1>11 DEF Authenticated, storeVars
  <2>c. \A m \in Names : Connected(m)' = Connected(m)
    BY <2>u DEF Connected
  <2>2. SeenInv' /\ ReqInv'
    BY <1>t, <2>u, <2>c, SeenKept, ReqKept
  <2>3. OkInv'
    BY <1>11 DEF Authenticated, RecordOK, Inv, OkInv
  <2> QED
    BY <2>1, <2>2, <2>3 DEF Inv
<1>12. ASSUME NEW n \in Names, NEW ip \in IPs, Add(n, ip) PROVE Inv'
  <2>1. AttType'
    BY <1>12, <1>t DEF Add, storeVars, attVars, AttType, Never
  <2>2. /\ left' = [left EXCEPT ![n] = 0] /\ late' = [late EXCEPT ![n] = 0]
        /\ UNCHANGED <<now, seen, req>>
    BY <1>12 DEF Add, storeVars, Never
  <2>3. Connected(n)' /\ \A m \in Names : Connected(m) => Connected(m)'
    BY <1>12 DEF Add, Connected
  <2>4. SeenInv'
    BY <1>t, <2>2, <2>3 DEF Inv, SeenInv, SeenBy, AttType, Times
  <2>5. ReqInv'
    BY <1>t, <2>2, <2>3 DEF Inv, ReqInv, SeenBy, AttType, Times
  <2>6. OkInv'
    BY <1>12, <1>t DEF Add, attVars, Inv, OkInv, AttType
  <2> QED
    BY <1>12, <1>t, <2>1, <2>4, <2>5, <2>6, AttKept DEF Add, Inv
<1>13. ASSUME NEW n \in Names, NEW ip \in IPs, Del(n, ip) PROVE Inv'
  <2>1. AttType'
    BY <1>13, <1>t DEF Del, storeVars, attVars, AttType
  <2>2. left' = [left EXCEPT ![n] = now] /\ UNCHANGED <<now, late, seen, req>>
    BY <1>13 DEF Del, storeVars
  <2>3. \A m \in Names : m # n /\ Connected(m) => Connected(m)'
    BY <1>13 DEF Del, storeVars, Connected
  <2>4. SeenInv'
    BY <1>t, <2>2, <2>3 DEF Inv, SeenInv, SeenBy, AttType, Times
  <2>5. ReqInv'
    BY <1>t, <2>2, <2>3 DEF Inv, ReqInv, SeenBy, AttType, Times
  <2> QED
    BY <1>13, <1>t, <2>1, <2>4, <2>5, AttKept, OkKept DEF Del, attVars, Inv
<1>14. ASSUME NEW h \in Handlers, Failed(h) PROVE Inv'
  <2>1. fail[h].ip \in IPs /\ fail[h].known \in BOOLEAN
    BY <1>14, <1>t DEF Failed, storeVars, AttType
  <2>2. /\ HistInv' /\ SuppressedAreCounted' /\ now' = now
        /\ lastAt' \in [IPs -> Nat] /\ failsSince' \in [IPs -> Nat] /\ suppressed' \in [IPs -> Nat]
        /\ refused' \in [IPs -> Nat] /\ heard' \in [IPs -> Nat] /\ owed' \in [IPs -> Int]
        /\ lastOK' \subseteq IPs /\ lastOK \subseteq lastOK'
    BY <1>14, <1>t, <2>1, RecordKeeps DEF Failed, storeVars, Inv
  <2>3. AttType'
    BY <1>14, <1>t, <2>2 DEF Failed, storeVars, AttType, regVars
  <2>4. SeenInv' /\ ReqInv'
    BY <1>14, <1>t, SeenKept, ReqKept DEF Failed, storeVars, regVars, Connected
  <2> QED
    BY <1>14, <2>2, <2>3, <2>4, OkKept DEF Failed, regVars, Inv
<1>15. ASSUME NEW h \in Handlers, NEW ip \in IPs, ClientAt(h, ip) PROVE Inv'
  <2>1. AttType'
    BY <1>15, <1>t DEF ClientAt, storeVars, attVars, regVars, AttType
  <2>2. SeenInv' /\ ReqInv'
    BY <1>15, <1>t, SeenKept, ReqKept DEF ClientAt, storeVars, regVars, Connected
  <2> QED
    BY <1>15, <1>t, <2>1, <2>2, AttKept, OkKept DEF ClientAt, attVars, regVars, Inv
<1> QED
  BY <1>1, <1>2, <1>4, <1>5, <1>6, <1>7, <1>8, <1>9, <1>10, <1>11, <1>12, <1>13, <1>14, <1>15 DEF Next

\* Every failed handshake of an unknown address is in a log line, in the count
\* of one, or still counted as suppressed (Record).
THEOREM SuppressedCounted == Spec => []SuppressedAreCounted
<1>1. Inv => SuppressedAreCounted
  BY DEF Inv
<1> QED
  BY <1>1, InitInv, NextInv, PTL DEF Spec

\* What Diagnose says of an offline client agrees with the connections that
\* reached the server, whatever happens between the request's reads.
THEOREM ArrivalsReported == Spec => []ArrivalsAreReported
<1>1. Inv => ArrivalsAreReported
  <2> SUFFICES ASSUME Inv, req.at = "diagnose", req.ip # NoIP, ~Connected(req.name)
               PROVE  LET down == {left[req.name], late[req.name]}
                          said == Says(req.ip, req.seen) IN
                      /\ said = "nothing" => \E t \in down : heard[req.ip] <= t
                      /\ (\A t \in down : refused[req.ip] > t) => said = "failed"
                      /\ said = "again" => req.ip \in lastOK /\ refused[req.ip] = Never
    BY DEF ArrivalsAreReported
  <2> DEFINE ip == req.ip  n == req.name
  <2>1. /\ ip \in IPs /\ n \in Names /\ req.seen \in Nat
        /\ req.seen <= left[n] \/ req.seen <= late[n]
        /\ left[n] \in Nat /\ late[n] \in Nat /\ ip \in lastOK
    BY DEF Inv, ReqInv, SeenBy, OkInv, AttType
  <2>2. /\ heard[ip] = lastAt[ip] /\ refused[ip] <= lastAt[ip]
        /\ refused[ip] > 0 => failsSince[ip] > 0
        /\ lastAt[ip] \in Nat /\ failsSince[ip] \in Nat /\ refused[ip] \in Nat
    BY <2>1 DEF Inv, HistInv, AttType
  <2>3. /\ Says(ip, req.seen) = "nothing" => lastAt[ip] <= left[n] \/ lastAt[ip] <= late[n]
        /\ refused[ip] > left[n] /\ refused[ip] > late[n] => Says(ip, req.seen) = "failed"
        /\ Says(ip, req.seen) = "again" => refused[ip] = 0
    <3> HIDE DEF ip, n
    <3> QED
      BY <2>1, <2>2 DEF Says, Never, ip
  <2> QED
    BY <2>1, <2>2, <2>3 DEF Never
<1> QED
  BY <1>1, InitInv, NextInv, PTL DEF Spec
=============================================================================
