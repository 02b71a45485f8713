-------------------------------- MODULE Pipe --------------------------------
(***************************************************************************)
(* Connections through one tunnel: the panel's probes and the speed test   *)
(* (initiators, on the server), session.pipe, and at the far end the       *)
(* client's ssh, which opens the local service -- for the speed test the   *)
(* responder (speedtest.serve).  The ssh client, the network and the       *)
(* probed services are external.  Deadlines may pass at any time.          *)
(***************************************************************************)
EXTENDS Naturals, FiniteSets

CONSTANTS
  Probes,     \* /api/probe requests
  Downs, Ups  \* the speed test's streams: PUT, then GET

Streams == Downs \cup Ups
Conns   == Probes \cup Streams

ASSUME PipeAssumption ==
  /\ IsFiniteSet(Conns)
  /\ Probes \cap Streams = {} /\ Downs \cap Ups = {}

VARIABLES
  link,      \* the session's SSH connection: up, dead (nobody knows), closed
  web,       \* probes of ports with an http(s) URL: probeHTTP, not probeTCP
  halfClose, \* does the client's ssh pass an EOF on?  (dropbear does not)
  ini,       \* initiator: idle, asked, done (its end is closed)
  out,       \* what the initiator came back with
  srv,       \* pipe: none, accepted, opening, copying, ended
  counted,   \* pipes that found the Client record
  active,    \* Client.active
  feed,      \* the goroutine that copies incoming -> channel: off, copying, ended
  svc,       \* the client's local connection: none, open, closed
  asked,     \* connections whose request reached the service
  got,       \* connections with data for their initiator
  test,      \* /api/speedtest: idle, down, up, failed, done
  speed      \* Client.lastDown and lastUp

vars == <<link, web, halfClose, ini, out, srv, counted, active, feed, svc,
          asked, got, test, speed>>
sessVars == <<link, web, halfClose>>
pipeVars == <<srv, counted, active, feed, svc, asked>>
iniVars == <<ini, out, got>>
testVars == <<test, speed>>

Init ==
  /\ link = "up" /\ web \in SUBSET Probes /\ halfClose \in BOOLEAN
  /\ ini = [i \in Conns |-> "idle"] /\ out = [i \in Conns |-> "none"]
  /\ srv = [i \in Conns |-> "none"] /\ counted = {} /\ active = 0
  /\ feed = [i \in Conns |-> "off"] /\ svc = [i \in Conns |-> "none"]
  /\ asked = {} /\ got = {}
  /\ test = "idle" /\ speed = [down |-> 0, up |-> 0]

(***************************************************************************)
(* The initiators.                                                         *)
(***************************************************************************)

\* The stream's direction is being measured; a probe may come at any time.
Due(i) == i \in Probes \/ (i \in Downs /\ test = "down") \/ (i \in Ups /\ test = "up")

Return(i, result) == /\ ini' = [ini EXCEPT ![i] = "done"]
                     /\ out' = [out EXCEPT ![i] = result]
                     /\ got' = got \ {i}

\* The kernel completes the connection while the session has its listener; the
\* stream writes "GET <ms>" or "PUT <ms>", probeHTTP its request.
Dial(i) ==
  /\ ini[i] = "idle" /\ Due(i) /\ link # "closed"
  /\ ini' = [ini EXCEPT ![i] = "asked"]
  /\ srv' = [srv EXCEPT ![i] = "accepted"]
  /\ UNCHANGED <<sessVars, testVars, out, counted, active, feed, svc, asked, got>>

\* A fault: a stream that cannot dial does not tell the WaitGroup.
DialLost(i) == FALSE
DialFails(i) ==
  /\ ini[i] = "idle" /\ Due(i) /\ link = "closed"
  /\ Return(i, "err")
  /\ UNCHANGED <<sessVars, pipeVars, testVars>>

\* Writing the request fails: pipe had already closed its end.
AskFails(i) ==
  /\ ini[i] = "asked" /\ i \in Streams \cup web /\ srv[i] = "ended" /\ i \notin got
  /\ Return(i, IF i \in Probes THEN "fail" ELSE "err")
  /\ UNCHANGED <<sessVars, pipeVars, testVars>>

\* probe: data, the end of the connection, or the read deadline (tcpProbeWait,
\* httpProbeTimeout), whichever comes first.
ProbeReads(i) ==
  /\ i \in Probes /\ ini[i] = "asked"
  /\ \/ i \in got /\ Return(i, "ok")
     \/ i \notin got /\ srv[i] = "ended" /\ Return(i, "fail")
  /\ UNCHANGED <<sessVars, pipeVars, testVars>>

ProbeTimeout(i) ==
  /\ i \in Probes /\ ini[i] = "asked" /\ i \notin got /\ srv[i] # "ended"
  /\ Return(i, IF i \in web THEN "fail" ELSE "held")
  /\ UNCHANGED <<sessVars, pipeVars, testVars>>

\* streamClientUp reads until the end of the connection or its deadline, and
\* reports no error either way; without a first byte its duration runs from
\* the zero time.
UpEnds(i) ==
  /\ i \in Ups /\ ini[i] = "asked"
  /\ Return(i, IF i \in got THEN "data" ELSE "empty")
  /\ UNCHANGED <<sessVars, pipeVars, testVars>>

\* streamClientDown writes for the window, or until a write fails; no error
\* either way.
DownEnds(i) ==
  /\ i \in Downs /\ ini[i] = "asked"
  /\ Return(i, "data")
  /\ UNCHANGED <<sessVars, pipeVars, testVars>>

(***************************************************************************)
(* Measure and /api/speedtest.                                             *)
(***************************************************************************)

Window == 4        \* seconds measured
SinceZero == 1000  \* time.Since(time.Time{}), in effect

Duration(i) == CASE out[i] = "data" -> Window [] out[i] = "empty" -> SinceZero [] OTHER -> 0

\* The streams that reported no error.
Worked(S) == {i \in S : out[i] # "err"}

\* One unit per stream that moved data for the whole window.
Mbps(bytes, secs) == IF secs <= 0 THEN 0 ELSE (bytes * Window) \div secs

MaxDur(S) == CHOOSE d \in {Duration(i) : i \in S} : \A i \in S : Duration(i) <= d

\* Bytes over the longest duration.
RunParallel(S) == Mbps(Cardinality({i \in S : out[i] = "data"}), MaxDur(Worked(S)))

Returned(S) == \A i \in S : ini[i] = "done"

\* reg.byName finds the client (its record may outlive the connection).
StartTest ==
  /\ test = "idle"
  /\ test' = "down"
  /\ UNCHANGED <<sessVars, pipeVars, iniVars, speed>>

\* wg.Wait: every stream of the direction has returned.
EndDown ==
  /\ test = "down" /\ Returned(Downs)
  /\ test' = IF Worked(Downs) = {} THEN "failed" ELSE "up"
  /\ UNCHANGED <<sessVars, pipeVars, iniVars, speed>>

EndUp ==
  /\ test = "up" /\ Returned(Ups)
  /\ \/ /\ Worked(Ups) = {} /\ test' = "failed"
        /\ UNCHANGED speed
     \/ /\ Worked(Ups) # {} /\ test' = "done"
        /\ speed' = [down |-> RunParallel(Downs), up |-> RunParallel(Ups)]
  /\ UNCHANGED <<sessVars, pipeVars, iniVars>>

(***************************************************************************)
(* session.pipe.                                                           *)
(***************************************************************************)

\* reg.Get and ConnOpen; once the session has ended the record may be gone.
PipeStart(i) ==
  /\ srv[i] = "accepted"
  /\ srv' = [srv EXCEPT ![i] = "opening"]
  /\ \/ counted' = counted \cup {i} /\ active' = active + 1
     \/ link = "closed" /\ UNCHANGED <<counted, active>>
  /\ UNCHANGED <<sessVars, iniVars, testVars, feed, svc, asked>>

\* OpenChannel succeeds: the client reached its service.
ChannelOpened(i) ==
  /\ srv[i] = "opening" /\ link = "up"
  /\ srv' = [srv EXCEPT ![i] = "copying"]
  /\ feed' = [feed EXCEPT ![i] = "copying"]
  /\ svc' = [svc EXCEPT ![i] = "open"]
  /\ UNCHANGED <<sessVars, iniVars, testVars, counted, active, asked>>

\* A fault: ConnClose is not deferred, so only a pipe that copied calls it.
ClosesIfCopied(i) == srv[i] = "copying" /\ i \in counted
ClosesCount(i) == i \in counted

\* The deferred calls: ch.Close, ConnClose, c.Close, which also ends the copy
\* of the other direction.
EndPipe(i) ==
  /\ srv' = [srv EXCEPT ![i] = "ended"]
  /\ feed' = [feed EXCEPT ![i] = "off"]
  /\ asked' = asked \ {i}
  /\ active' = IF ClosesCount(i) THEN active - 1 ELSE active

\* A fault: the connection stays open when the channel is refused.
RefusedKept(i) ==
  /\ srv[i] = "opening" /\ link = "up" /\ svc[i] = "none"
  /\ svc' = [svc EXCEPT ![i] = "refused"]
  /\ UNCHANGED <<sessVars, iniVars, testVars, srv, counted, active, feed, asked>>

\* OpenChannel fails: the client could not, or would not, open the service.
ChannelRefused(i) ==
  /\ srv[i] = "opening" /\ link = "up"
  /\ EndPipe(i)
  /\ svc' = [svc EXCEPT ![i] = "refused"]
  /\ UNCHANGED <<sessVars, iniVars, testVars, counted>>

\* Incoming bytes cross to the service.
Forward(i) ==
  /\ feed[i] = "copying" /\ link = "up" /\ svc[i] = "open"
  /\ i \in Ups \cup web /\ i \notin asked
  /\ asked' = asked \cup {i}
  /\ UNCHANGED <<sessVars, iniVars, testVars, srv, counted, active, feed, svc>>

\* A fault: the goroutine does not call CloseWrite.
NoCloseWrite == "off"
CloseWrite == "ended"

\* The initiator's end is closed: CloseWrite sends an EOF on the channel.
FeedEnds(i) ==
  /\ feed[i] = "copying" /\ ini[i] = "done"
  /\ feed' = [feed EXCEPT ![i] = CloseWrite]
  /\ UNCHANGED <<sessVars, iniVars, testVars, srv, counted, active, svc, asked>>

\* Bytes of the service reach the initiator; a write to a closed connection
\* ends the pipe.
Back(i) ==
  /\ srv[i] = "copying" /\ link = "up" /\ svc[i] = "open"
  /\ i \in (Probes \ web) \cup asked
  /\ \/ /\ ini[i] # "done" /\ got' = got \cup {i}
        /\ UNCHANGED <<srv, feed, svc, asked, active>>
     \/ /\ ini[i] = "done" /\ EndPipe(i)
        /\ svc' = [svc EXCEPT ![i] = "closed"]
        /\ UNCHANGED got
  /\ UNCHANGED <<sessVars, testVars, ini, out, counted>>

\* The channel ends: the client closed it, or the connection is gone (with it
\* the listener, and connections nobody accepted).
ChannelEnds(i) ==
  /\ \/ srv[i] = "copying" /\ link = "up" /\ svc[i] = "closed"
     \/ srv[i] \in {"accepted", "opening", "copying"} /\ link = "closed"
  /\ EndPipe(i)
  /\ svc' = [svc EXCEPT ![i] = "closed"]
  /\ UNCHANGED <<sessVars, iniVars, testVars, counted>>

(***************************************************************************)
(* The far end, and the session.                                           *)
(***************************************************************************)

ServiceEnds(i) ==
  /\ svc[i] = "open"
  /\ svc' = [svc EXCEPT ![i] = "closed"]
  /\ UNCHANGED <<sessVars, iniVars, testVars, srv, counted, active, feed, asked>>

\* An EOF passed on by the client's ssh.
SeesEOF(i) == feed[i] = "ended" /\ halfClose /\ link = "up"

\* A fault: the responder sets no deadline on its connection.
ServeWaits(i) == i \in Streams /\ SeesEOF(i) /\ ServiceEnds(i)
\* speedtest.serve closes its end when the window (GET) is over, at EOF (PUT),
\* or at the latest when its deadline of two minutes passes.
Serve(i) == i \in Streams /\ ServiceEnds(i)

LinkDies ==
  /\ link = "up" /\ link' = "dead"
  /\ UNCHANGED <<pipeVars, iniVars, testVars, web, halfClose>>

\* The client disconnects, or the keepalive gives a dead link up.
SessionEnds ==
  /\ link # "closed" /\ link' = "closed"
  /\ UNCHANGED <<pipeVars, iniVars, testVars, web, halfClose>>

Initiator(i) == \/ Dial(i) \/ DialFails(i) \/ AskFails(i)
                \/ ProbeReads(i) \/ ProbeTimeout(i) \/ UpEnds(i) \/ DownEnds(i)
Server(i)    == PipeStart(i) \/ FeedEnds(i) \/ ChannelEnds(i)
Reply(i)     == ChannelOpened(i) \/ ChannelRefused(i)

Next == \/ StartTest \/ EndDown \/ EndUp
        \/ LinkDies \/ SessionEnds
        \/ \E i \in Conns : \/ Initiator(i) \/ Server(i) \/ Reply(i)
                            \/ Forward(i) \/ Back(i) \/ ServiceEnds(i)

Spec == Init /\ [][Next]_vars

\* Goroutines run and deadlines pass; the client's ssh answers while the link
\* is up; a dead link is given up by the keepalive; a service that sees the
\* end of its connection ends too.  The probed service owes nothing else.
Fairness ==
  /\ WF_vars(EndDown) /\ WF_vars(EndUp) /\ WF_vars(link = "dead" /\ SessionEnds)
  /\ \A i \in Conns : /\ WF_vars(ini[i] = "asked" /\ Initiator(i))
                      /\ WF_vars(Server(i)) /\ WF_vars(Reply(i))
                      /\ WF_vars(SeesEOF(i) /\ ServiceEnds(i)) /\ WF_vars(Serve(i))
  /\ \A i \in Streams : WF_vars(Initiator(i))

FairSpec == Spec /\ Fairness

(***************************************************************************)
(* Properties.                                                             *)
(***************************************************************************)

\* The panel's number of active connections is the number of pipes that are
\* running: none is forgotten when its channel is refused or its session ends.
ActiveCountsPipes ==
  active = Cardinality({i \in counted : srv[i] # "ended"})

\* "If that fails the server closes at once": a probe does not call a service
\* up when the client had refused the connection before the probe gave its
\* answer.
RefusedProbeFails ==
  [][\A i \in Probes : ini[i] # "done" /\ out'[i] \in {"ok", "held"} => svc[i] # "refused"]_vars

\* Measure returns whatever becomes of the tunnel while it runs: its streams
\* fail to dial, are refused, or wait for data over a dead link.
MeasureReturns == (test = "down") ~> (test \in {"failed", "done"})

\* A stream leaves no pipe behind, "dropbear does NOT propagate" the half
\* close, so the responder's deadline has to end it.
StreamsLeaveNothing ==
  \A i \in Streams : ini[i] = "done" ~> srv[i] \in {"none", "ended"}

\* Nor does a probe of a service that waits for its client, if the client's
\* ssh passes the end of the connection on.
ProbesLeaveNothing ==
  \A i \in Probes : ini[i] = "done" /\ halfClose ~> srv[i] \in {"none", "ended"}

\* "As long as one works, there is a number": a stream that received data
\* makes the measured upload more than nothing.
OneStreamIsANumber ==
  test = "done" /\ (\E i \in Ups : out[i] = "data") => speed.up > 0
=============================================================================
