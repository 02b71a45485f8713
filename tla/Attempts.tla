------------------------------ MODULE Attempts ------------------------------
(***************************************************************************)
(* monitor.Attempts with what feeds and reads it: handshakes that fail or  *)
(* succeed (handleConn), the registry's last IP per client, the time the   *)
(* store last saw each client, and the /api/status request that explains   *)
(* an offline client.  A failing handshake asks the registry whose IP it   *)
(* is and then records itself; a new session records itself and then joins *)
(* the registry; a request reads registry, store, last IP and attempts one *)
(* after the other.  Only the calls themselves are atomic.                 *)
(*                                                                         *)
(* The clock counts instants, Second of them to a second: attempts are     *)
(* dated to the instant, Touch dates clients to the whole second.  The     *)
(* ring of recent failures, which the panel only lists, is left out.       *)
(***************************************************************************)
EXTENDS Naturals, FiniteSets, FiniteSetsExt

CONSTANTS
  Names,     \* clients
  IPs, NoIP,
  Handlers,  \* goroutines of handshakes that fail
  Second,    \* instants per second
  LogEvery,  \* instants between two logs of an unknown IP (5 min)
  MaxTime,   \* bound: last instant
  MaxFails,  \* bound: failures counted or suppressed at a time
  MaxConns   \* bound: sessions at a time

ASSUME AttemptsAssumption ==
  /\ NoIP \notin IPs
  /\ Second \in Nat \ {0} /\ LogEvery \in Nat
  /\ MaxTime \in Nat /\ Second <= MaxTime /\ MaxFails \in Nat /\ MaxConns \in Nat

Never  == 0  \* the zero time
Absent == MaxTime + 1 \* no entry in the store

VARIABLES
  now,
  \* Attempts.ips, one function per field (an IP with no entry has lastAt Never)
  \* (of lastOK, only whether it is set)
  lastAt, lastOK, failsSince, lastLogged, suppressed,
  lastIP,  \* Registry.lastIP
  authed,  \* sessions authenticated and not yet in the registry
  conn,    \* sessions in the registry: <<name, ip>>
  seen,    \* LastSeen in the store: a time, Never (0), or Absent
  listed,  \* clients the sampler found connected and has yet to touch
  fail,    \* failing handshakes: idle, or the IP and whether it is a client's
  req,     \* the status request: where it is, the client whose row it makes,
           \* and what it has read of it
  \* history
  left,    \* when a session of the client last left the registry, if none
           \* has joined it since
  late,    \* when the sampler dated the client after that, if it did
  heard,   \* when the last connection from the IP ended or was authenticated
  refused, \* when the last one failed, if none was authenticated since
  owed     \* failures of the IP the log has not accounted for

attVars   == <<lastAt, lastOK, failsSince, lastLogged, suppressed, heard, refused, owed>>
regVars   == <<lastIP, authed, conn, left, late>>
storeVars == <<seen, listed>>
vars == <<now, attVars, regVars, storeVars, fail, req>>

NoFail == [ip |-> NoIP, known |-> FALSE]
NoReq  == [at |-> "idle", name |-> "none", seen |-> Absent, ip |-> NoIP]

Init ==
  /\ now = Second
  /\ lastAt = [i \in IPs |-> Never] /\ lastOK = {}
  /\ lastLogged = [i \in IPs |-> Never]
  /\ failsSince = [i \in IPs |-> 0] /\ suppressed = [i \in IPs |-> 0]
  /\ lastIP = [n \in Names |-> NoIP]
  /\ authed = {} /\ conn = {}
  /\ seen \in [Names -> {Absent, Second}]  \* the store may know clients
  /\ listed = {}
  /\ fail = [h \in Handlers |-> NoFail]
  /\ req = NoReq
  /\ left = [n \in Names |-> Second] /\ late = [n \in Names |-> Never]
  /\ heard = [i \in IPs |-> Never] /\ refused = [i \in IPs |-> Never]
  /\ owed = [i \in IPs |-> 0]

(***************************************************************************)
(* Record.                                                                 *)
(***************************************************************************)

\* An outcome of a connection from the IP.
Arrived(ip) ==
  /\ lastAt' = [lastAt EXCEPT ![ip] = now]
  /\ heard' = [heard EXCEPT ![ip] = now]

\* err == nil: a session was authenticated.
RecordOK(ip) ==
  /\ Arrived(ip)
  /\ lastOK' = lastOK \cup {ip}
  /\ failsSince' = [failsSince EXCEPT ![ip] = 0]
  /\ refused' = [refused EXCEPT ![ip] = Never]
  /\ UNCHANGED <<lastLogged, suppressed, owed>>

\* A connection that closed at once: only seen.
RecordTrivial(ip) ==
  /\ Arrived(ip)
  /\ UNCHANGED <<lastOK, failsSince, lastLogged, suppressed, refused, owed>>

\* The failure is logged, and the line tells how many were suppressed; a fault
\* would be to count on.
LogItKeeps(ip) ==
  /\ owed' = [owed EXCEPT ![ip] = @ - suppressed[ip]]
  /\ lastLogged' = [lastLogged EXCEPT ![ip] = now]
  /\ UNCHANGED suppressed
LogIt(ip) ==
  /\ owed' = [owed EXCEPT ![ip] = @ - suppressed[ip]]
  /\ suppressed' = [suppressed EXCEPT ![ip] = 0]
  /\ lastLogged' = [lastLogged EXCEPT ![ip] = now]

Suppress(ip) ==
  /\ owed' = [owed EXCEPT ![ip] = @ + 1]
  /\ suppressed' = [suppressed EXCEPT ![ip] = @ + 1]
  /\ UNCHANGED lastLogged

\* A failure that says something, of a known client (always logged) or not.
RecordFail(ip, always) ==
  /\ MapThenSumSet(LAMBDA i : failsSince[i] + suppressed[i], IPs) < MaxFails
  /\ Arrived(ip)
  /\ failsSince' = [failsSince EXCEPT ![ip] = @ + 1]
  /\ refused' = [refused EXCEPT ![ip] = now]
  /\ IF always \/ lastLogged[ip] = Never \/ now - lastLogged[ip] >= LogEvery
     THEN LogIt(ip) ELSE Suppress(ip)
  /\ UNCHANGED lastOK

(***************************************************************************)
(* handleConn.                                                             *)
(***************************************************************************)

\* The handshake failed: Registry.ClientAt(ip) ...
ClientAt(h, ip) ==
  /\ fail[h] = NoFail
  /\ fail' = [fail EXCEPT ![h] = [ip |-> ip, known |-> \E n \in Names : lastIP[n] = ip]]
  /\ UNCHANGED <<now, attVars, regVars, storeVars, req>>

\* ... and Record.  A failure is trivial when the connection closed at once.
Failed(h) ==
  /\ fail[h] # NoFail
  /\ RecordTrivial(fail[h].ip) \/ RecordFail(fail[h].ip, fail[h].known)
  /\ fail' = [fail EXCEPT ![h] = NoFail]
  /\ UNCHANGED <<now, regVars, storeVars, req>>

\* The handshake succeeded: Record ...
Authenticated(n, ip) ==
  /\ <<n, ip>> \notin authed \cup conn /\ Cardinality(authed \cup conn) < MaxConns
  /\ authed' = authed \cup {<<n, ip>>}
  /\ RecordOK(ip)
  /\ UNCHANGED <<now, lastIP, conn, left, late, storeVars, fail, req>>

\* ... and Registry.Add.
Add(n, ip) ==
  /\ <<n, ip>> \in authed
  /\ authed' = authed \ {<<n, ip>>} /\ conn' = conn \cup {<<n, ip>>}
  /\ lastIP' = [lastIP EXCEPT ![n] = ip]
  /\ left' = [left EXCEPT ![n] = Never] /\ late' = [late EXCEPT ![n] = Never]
  /\ UNCHANGED <<now, attVars, storeVars, fail, req>>

Connected(n) == \E ip \in IPs : <<n, ip>> \in conn

\* Registry.Del, at the end of handleConn.
Del(n, ip) ==
  /\ <<n, ip>> \in conn
  /\ conn' = conn \ {<<n, ip>>}
  /\ left' = [left EXCEPT ![n] = now]
  /\ UNCHANGED <<now, attVars, lastIP, authed, late, storeVars, fail, req>>

(***************************************************************************)
(* The store: Touch by the sampler, Add by the pipes.                      *)
(***************************************************************************)

\* time.Now().Unix(); a fault would be to round up.
UnixUp == now + (Second - 1) - ((now + Second - 1) % Second)
Unix == now - (now % Second)

\* The sampler lists the registry ...
Sample(n) ==
  /\ Connected(n)
  /\ listed' = listed \cup {n}
  /\ UNCHANGED <<now, attVars, regVars, seen, fail, req>>

\* ... and dates those it found, who may have left since.
Touch(n) ==
  /\ n \in listed
  /\ listed' = listed \ {n}
  /\ seen' = [seen EXCEPT ![n] = Unix]
  /\ late' = IF Connected(n) THEN late ELSE [late EXCEPT ![n] = now]
  /\ UNCHANGED <<now, attVars, lastIP, authed, conn, left, fail, req>>

\* Traffic of a client the store does not know creates its entry, undated.
Forward(n) ==
  /\ lastIP[n] # NoIP /\ seen[n] = Absent
  /\ seen' = [seen EXCEPT ![n] = Never]
  /\ UNCHANGED <<now, attVars, regVars, listed, fail, req>>

(***************************************************************************)
(* /api/status: the row of a client that is not connected.                 *)
(***************************************************************************)

reads(r) == req' = r /\ UNCHANGED <<now, attVars, regVars, storeVars, fail>>

\* reg.list()
List(n) ==
  /\ req = NoReq /\ ~Connected(n)
  /\ reads([at |-> "seen", name |-> n, seen |-> Absent, ip |-> NoIP])

\* store.Seen(): there is no row for a client the store does not know.
Seen ==
  /\ req.at = "seen"
  /\ reads(IF seen[req.name] = Absent THEN NoReq
           ELSE [at |-> "ip", name |-> req.name, seen |-> seen[req.name], ip |-> NoIP])

\* reg.LastIP
LastIP ==
  /\ req.at = "ip"
  /\ reads([at |-> "diagnose", name |-> req.name, seen |-> req.seen, ip |-> lastIP[req.name]])

\* What Diagnose says of an IP and a last-seen time.
Says(ip, lastSeen) ==
  CASE ip = NoIP -> "unknown"
    [] ip # NoIP /\ (lastAt[ip] = Never \/ (lastSeen > 0 /\ lastAt[ip] <= lastSeen)) -> "nothing"
    [] OTHER -> IF failsSince[ip] = 0 THEN "again" ELSE "failed"

Diagnose ==
  /\ req.at = "diagnose"
  /\ reads(NoReq)

Tick ==
  /\ now < MaxTime
  /\ now' = now + 1
  /\ UNCHANGED <<attVars, regVars, storeVars, fail, req>>

Next ==
  \/ Tick \/ Seen \/ LastIP \/ Diagnose
  \/ \E n \in Names : Sample(n) \/ Touch(n) \/ Forward(n) \/ List(n)
  \/ \E n \in Names, ip \in IPs : Authenticated(n, ip) \/ Add(n, ip) \/ Del(n, ip)
  \/ \E h \in Handlers : Failed(h) \/ \E ip \in IPs : ClientAt(h, ip)

Spec == Init /\ [][Next]_vars

(***************************************************************************)
(* Properties.                                                             *)
(***************************************************************************)

\* What Diagnose's answers say of the connections from the client's last IP,
\* although the request reads four stores one after the other and the time the
\* client was last seen is in whole seconds and up to a sampling period old:
\* "nothing has reached the server since the client went down" only if nothing
\* has since its session left the registry; failures since then, with no
\* session after them, are always reported; "connected again ... ago" only if
\* the IP has had a session (there is a time to count from) and no failure
\* that says something since.  Two limits are the code's: the sampler may date
\* a client it listed after the client has left, and what arrived between the
\* two is not seen (late); and "again" may be said of the session that just
\* ended, or after a connection that closed at once.  (A row whose client has
\* connected since the list was taken is out of date anyway.)
ArrivalsAreReported ==
  LET ip == req.ip  said == Says(ip, req.seen)
      down == {left[req.name], late[req.name]} IN
  req.at = "diagnose" /\ ip # NoIP /\ ~Connected(req.name) =>
    /\ said = "nothing" => \E t \in down : heard[ip] <= t
    /\ (\A t \in down : refused[ip] > t) => said = "failed"
    /\ said = "again" => ip \in lastOK /\ refused[ip] = Never

\* Failures of an unknown IP are logged once per LogEvery, "similar failures
\* were suppressed since the last log" are counted: every failure is in a log
\* line, in the count of one, or waiting to be.
SuppressedAreCounted == \A ip \in IPs : owed[ip] = suppressed[ip]
=============================================================================
