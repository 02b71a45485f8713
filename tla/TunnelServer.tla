---------------------------- MODULE TunnelServer ----------------------------
(***************************************************************************)
(* The SSH tunnel server: one goroutine per accepted connection            *)
(* (handleConn), the session manager that evicts the previous session of   *)
(* a client name, the forwarded listeners, the per-session keepalive       *)
(* goroutine and the registry of connected clients the web panel reads.    *)
(*                                                                         *)
(* A member of Sessions is one accepted TCP connection together with the   *)
(* goroutine that handles it; the key it authenticates with decides its    *)
(* name (NameOf, the key's comment) and its ports (AllowedOf, the key's    *)
(* permitlisten options).  AddrOf is its remote "ip:port", the key of the  *)
(* registry.                                                               *)
(***************************************************************************)
EXTENDS Naturals, Sequences

CONSTANTS
  Sessions,    \* accepted connections
  Names,       \* client names (key comments)
  NoName,      \* the empty key comment: never registered, never evicted
  Ports,       \* TCP ports a listener can be bound to
  AnyPort,     \* port number 0 in a request: the kernel picks a free port
  Addrs,       \* remote "ip:port" addresses
  NameOf, AllowedOf, AddrOf,
  NoSession, NoPort,
  ClientReqs,  \* bound: the requests the clients send
  MaxReqs,     \* bound: requests buffered between the mux and the loop
  EvictTimer   \* may EvictWait (5 s) elapse before the old session is done?

ReqPorts == Ports \cup {AnyPort}
Requests == [op : {"forward", "cancel"}, port : ReqPorts]
              \cup [op : {"other"}, port : {NoPort}]

ASSUME ConstAssumption ==
  /\ NoSession \notin Sessions
  /\ NoName \notin Names
  /\ NoPort \notin ReqPorts
  /\ AnyPort \notin Ports
  /\ NameOf \in [Sessions -> Names \cup {NoName}]
  /\ AllowedOf \in [Sessions -> SUBSET ReqPorts]
  /\ AddrOf \in [Sessions -> Addrs]
  /\ ClientReqs \subseteq Requests
  /\ MaxReqs \in Nat \ {0}
  /\ EvictTimer \in BOOLEAN

VARIABLES
  \* handleConn, one per session
  pc,        \* where the goroutine of s is
  conn,      \* the server's end of the SSH connection: none, open, closed
  link,      \* can bytes still travel between client and server?
  reqs,      \* global requests of s buffered for its loop (chan *ssh.Request)
  fwds,      \* session.fwds: requested port -> port its listener is bound to
  done,      \* sessions whose done channel is closed
  ka,        \* the keepalive goroutine: off, tick, probe, stopped
  \* shared by all sessions
  bound,     \* the kernel's table: port -> session whose listener holds it
  byName,    \* sessionManager.byName
  waitFor,   \* register's local "old": the session s is evicting
  regm,      \* Registry.m: remote address -> session's Client record
  regPorts,  \* Client.ports of the session's Client record
  \* history, read by properties only
  ord,       \* order in which sessions passed the manager's mutex, 0 = not yet
  nextOrd,
  timedOut   \* sessions whose eviction wait ended by EvictWait, not by done

vars == <<pc, conn, link, reqs, fwds, done, ka, bound, byName, waitFor,
          regm, regPorts, ord, nextOrd, timedOut>>

mgrVars  == <<byName, waitFor, ord, nextOrd, timedOut>>
portVars == <<fwds, bound>>
regVars  == <<regm, regPorts>>

PCs == {"new", "handshake", "register", "evict", "wait", "serve",
        "released", "unregister", "del", "end"}

Named(s) == NameOf[s] # NoName
SameName(s, t) == Named(s) /\ NameOf[s] = NameOf[t]

\* From the end of register to close(done): the session may own listeners.
Live(s) == pc[s] \in {"serve", "released"}

\* The keepalive goroutine and the request loop start when register returns.
EnterLoop(s) == /\ pc' = [pc EXCEPT ![s] = "serve"]
                /\ ka' = [ka EXCEPT ![s] = "tick"]

Init ==
  /\ pc = [s \in Sessions |-> "new"]
  /\ conn = [s \in Sessions |-> "none"]
  /\ link = [s \in Sessions |-> TRUE]
  /\ reqs = [s \in Sessions |-> <<>>]
  /\ fwds = [s \in Sessions |-> [p \in ReqPorts |-> NoPort]]
  /\ done = {}
  /\ ka = [s \in Sessions |-> "off"]
  /\ bound = [p \in Ports |-> NoSession]
  /\ byName = [n \in Names |-> NoSession]
  /\ waitFor = [s \in Sessions |-> NoSession]
  /\ regm = [a \in Addrs |-> NoSession]
  /\ regPorts = [s \in Sessions |-> {}]
  /\ ord = [s \in Sessions |-> 0]
  /\ nextOrd = 1
  /\ timedOut = {}

(***************************************************************************)
(* Accepting and authenticating a connection.                              *)
(***************************************************************************)

\* Run's accept loop.  The kernel hands out a remote address only while no
\* other open connection has it.
Accept(s) ==
  /\ pc[s] = "new"
  /\ \A t \in Sessions : AddrOf[t] = AddrOf[s] => conn[t] # "open"
  /\ pc' = [pc EXCEPT ![s] = "handshake"]
  /\ conn' = [conn EXCEPT ![s] = "open"]
  /\ UNCHANGED <<link, reqs, done, ka, portVars, mgrVars, regVars>>

\* ssh.NewServerConn failed (bad key, scanner, HandshakeTimeout): it closed
\* the connection and handleConn returns.
HandshakeFail(s) ==
  /\ pc[s] = "handshake"
  /\ pc' = [pc EXCEPT ![s] = "end"]
  /\ conn' = [conn EXCEPT ![s] = "closed"]
  /\ UNCHANGED <<link, reqs, done, ka, portVars, mgrVars, regVars>>

\* Authenticated: the session's Client record is put in the registry.
HandshakeOK(s) ==
  /\ pc[s] = "handshake"
  /\ pc' = [pc EXCEPT ![s] = "register"]
  /\ regm' = [regm EXCEPT ![AddrOf[s]] = s]
  /\ UNCHANGED <<conn, link, reqs, done, ka, portVars, mgrVars, regPorts>>

(***************************************************************************)
(* sessionManager.register: swap under the mutex, close the old session's  *)
(* connection, wait until it is done or EvictWait has passed.              *)
(***************************************************************************)

RegisterUnnamed(s) ==
  /\ pc[s] = "register" /\ ~Named(s)
  /\ EnterLoop(s)
  /\ UNCHANGED <<conn, link, reqs, done, portVars, mgrVars, regVars>>

\* The swap, byName[name] = s, under the mutex.
TakeName(s) ==
  /\ byName' = [byName EXCEPT ![NameOf[s]] = s]
  /\ ord' = [ord EXCEPT ![s] = nextOrd]
  /\ nextOrd' = nextOrd + 1

\* old := byName[name], read in the same critical section; a fault would be
\* to read it after the swap.
OldSessionReadLate(s) == s
OldSession(s) == byName[NameOf[s]]

\* The name had no session: register returns at once.
RegisterFirst(s) ==
  /\ pc[s] = "register" /\ Named(s)
  /\ OldSession(s) = NoSession
  /\ TakeName(s)
  /\ EnterLoop(s)
  /\ UNCHANGED <<conn, link, reqs, done, portVars, regVars, waitFor, timedOut>>

\* The name had one: it is the session to evict.
RegisterSwap(s) ==
  /\ pc[s] = "register" /\ Named(s)
  /\ OldSession(s) # NoSession
  /\ TakeName(s)
  /\ waitFor' = [waitFor EXCEPT ![s] = OldSession(s)]
  /\ pc' = [pc EXCEPT ![s] = "evict"]
  /\ UNCHANGED <<conn, link, reqs, done, ka, portVars, regVars, timedOut>>

\* old.sconn.Close(); a fault would be to leave the old connection open.
EvicteeKept(s) == NoSession
Evictee(s) == waitFor[s]

CloseOld(s) ==
  /\ pc[s] = "evict"
  /\ conn' = [conn EXCEPT ![Evictee(s)] = "closed"]
  /\ pc' = [pc EXCEPT ![s] = "wait"]
  /\ UNCHANGED <<link, reqs, done, ka, portVars, mgrVars, regVars>>

\* <-old.done; a fault would be to take the closed connection for the end of
\* the session.
OldIsClosed(s) == conn[waitFor[s]] = "closed"
OldIsDone(s) == waitFor[s] \in done

WaitDone(s) ==
  /\ pc[s] = "wait"
  /\ OldIsDone(s)
  /\ EnterLoop(s)
  /\ waitFor' = [waitFor EXCEPT ![s] = NoSession]
  /\ UNCHANGED <<conn, link, reqs, done, portVars, regVars, byName, ord,
                 nextOrd, timedOut>>

WaitTimeout(s) ==
  /\ EvictTimer
  /\ pc[s] = "wait"
  /\ EnterLoop(s)
  /\ waitFor' = [waitFor EXCEPT ![s] = NoSession]
  /\ timedOut' = timedOut \cup {s}
  /\ UNCHANGED <<conn, link, reqs, done, portVars, regVars, byName, ord,
                 nextOrd>>

(***************************************************************************)
(* The request loop.  Requests the mux buffered before the connection      *)
(* closed are still served; the loop ends when the buffer is empty and     *)
(* the connection is closed.                                               *)
(***************************************************************************)

NextReq(s, op) == pc[s] = "serve" /\ reqs[s] # <<>> /\ Head(reqs[s]).op = op
TakeReq(s) == reqs' = [reqs EXCEPT ![s] = Tail(@)]

\* listenReuse: net.Listen on the port, or on a free one for port number 0.
Bindable(p) == {q \in Ports : bound[q] = NoSession /\ p \in {q, AnyPort}}

\* Not allowed by permitlisten, or the bind fails (another listener has the
\* port, or the kernel refuses for a reason of its own).
ForwardRefused(s) ==
  /\ NextReq(s, "forward")
  /\ TakeReq(s)
  /\ UNCHANGED <<pc, conn, link, done, ka, portVars, mgrVars, regVars>>

\* Registry.AddPort; a fault would be to look the port up in fwds too early.
AddPortFromFwds(s, p) == regPorts' = [regPorts EXCEPT ![s] = @ \cup {fwds[s][p]}]

\* Registry.AddPort: appended to whichever Client record the address has now.
AddPort(s, p) ==
  regPorts' = IF regm[AddrOf[s]] = NoSession THEN regPorts
              ELSE [regPorts EXCEPT ![regm[AddrOf[s]]] = @ \cup {p}]

StartForward(s) ==
  /\ NextReq(s, "forward")
  /\ LET p == Head(reqs[s]).port IN
       /\ p \in AllowedOf[s]
       /\ \E q \in Bindable(p) :
            /\ bound' = [bound EXCEPT ![q] = s]
            /\ fwds' = [fwds EXCEPT ![s][p] = q]
       /\ AddPort(s, p)
  /\ TakeReq(s)
  /\ UNCHANGED <<pc, conn, link, done, ka, mgrVars, regm>>

\* ln.Close() on the session's own listener; a fault would be to close
\* whatever listener has that port number.
CancelsByNumber(s, p) == {p}
Cancels(s, p) == {fwds[s][p]}

\* Closes the listener and forgets it; the Client record keeps the port.
CancelForward(s) ==
  /\ NextReq(s, "cancel")
  /\ LET p == Head(reqs[s]).port IN
       /\ bound' = [q \in Ports |-> IF q \in Cancels(s, p) THEN NoSession ELSE bound[q]]
       /\ fwds' = [fwds EXCEPT ![s][p] = NoPort]
  /\ TakeReq(s)
  /\ UNCHANGED <<pc, conn, link, done, ka, mgrVars, regVars>>

\* Any other request type is refused.
OtherReq(s) ==
  /\ NextReq(s, "other")
  /\ TakeReq(s)
  /\ UNCHANGED <<pc, conn, link, done, ka, portVars, mgrVars, regVars>>

\* The listeners closeAll closes; a fault would be to reset the map only.
ListenersLeft(s) == {}
Listeners(s) == {fwds[s][p] : p \in ReqPorts}

\* The requests channel is closed and drained: closeAll closes the listeners
\* in fwds.
CloseAll(s) ==
  /\ pc[s] = "serve" /\ conn[s] = "closed" /\ reqs[s] = <<>>
  /\ pc' = [pc EXCEPT ![s] = "released"]
  /\ bound' = [q \in Ports |-> IF q \in Listeners(s) THEN NoSession ELSE bound[q]]
  /\ fwds' = [fwds EXCEPT ![s] = [p \in ReqPorts |-> NoPort]]
  /\ UNCHANGED <<conn, link, reqs, done, ka, mgrVars, regVars>>

CloseDone(s) ==
  /\ pc[s] = "released"
  /\ done' = done \cup {s}
  /\ pc' = [pc EXCEPT ![s] = "unregister"]
  /\ UNCHANGED <<conn, link, reqs, ka, portVars, mgrVars, regVars>>

\* delete(m.byName, s.name) if the entry is still this session; faults would be
\* not to look whose entry it is, or not to delete it.
UnlinksAny(s, n) == n = NameOf[s]
UnlinksNone(s, n) == FALSE
Unlinks(s, n) == n = NameOf[s] /\ byName[n] = s

\* Deferred calls, last in first out: unregister, then Registry.Del, then
\* sconn.Close (the connection is already closed).
Unregister(s) ==
  /\ pc[s] = "unregister"
  /\ byName' = [n \in Names |-> IF Unlinks(s, n) THEN NoSession ELSE byName[n]]
  /\ pc' = [pc EXCEPT ![s] = "del"]
  /\ UNCHANGED <<conn, link, reqs, done, ka, portVars, waitFor, regVars, ord,
                 nextOrd, timedOut>>

\* Registry.Del removes whatever record the address has now.
DelReg(s) ==
  /\ pc[s] = "del"
  /\ regm' = [regm EXCEPT ![AddrOf[s]] = NoSession]
  /\ pc' = [pc EXCEPT ![s] = "end"]
  /\ UNCHANGED <<conn, link, reqs, done, ka, portVars, mgrVars, regPorts>>

(***************************************************************************)
(* session.keepalive and session.probe.                                    *)
(***************************************************************************)

KaTick(s) ==
  /\ ka[s] = "tick"
  /\ ka' = [ka EXCEPT ![s] = "probe"]
  /\ UNCHANGED <<pc, conn, link, reqs, done, portVars, mgrVars, regVars>>

KaAnswered(s) ==
  /\ ka[s] = "probe" /\ conn[s] = "open" /\ link[s]
  /\ ka' = [ka EXCEPT ![s] = "tick"]
  /\ UNCHANGED <<pc, conn, link, reqs, done, portVars, mgrVars, regVars>>

\* A fault: the goroutine returns without closing the connection.
KaGiveUpOpen(s) ==
  /\ ka[s] = "probe"
  /\ ka' = [ka EXCEPT ![s] = "stopped"]
  /\ UNCHANGED <<pc, conn, link, reqs, done, portVars, mgrVars, regVars>>

\* SendRequest returned an error, or KeepaliveTimeout passed without an answer.
KaGiveUp(s) ==
  /\ ka[s] = "probe"
  /\ conn' = [conn EXCEPT ![s] = "closed"]
  /\ ka' = [ka EXCEPT ![s] = "stopped"]
  /\ UNCHANGED <<pc, link, reqs, done, portVars, mgrVars, regVars>>

\* probe saw done first: back to the select of keepalive.
KaProbeDone(s) ==
  /\ ka[s] = "probe" /\ s \in done
  /\ ka' = [ka EXCEPT ![s] = "tick"]
  /\ UNCHANGED <<pc, conn, link, reqs, done, portVars, mgrVars, regVars>>

\* A fault: the select has no done case.
KaNoDone(s) == FALSE

KaDone(s) ==
  /\ ka[s] = "tick" /\ s \in done
  /\ ka' = [ka EXCEPT ![s] = "stopped"]
  /\ UNCHANGED <<pc, conn, link, reqs, done, portVars, mgrVars, regVars>>

(***************************************************************************)
(* The client and the network.                                             *)
(***************************************************************************)

Connected(s) == conn[s] = "open" /\ pc[s] \in {"register", "evict", "wait", "serve"}

SendReq(s) ==
  /\ Connected(s) /\ link[s] /\ Len(reqs[s]) < MaxReqs
  /\ \E r \in ClientReqs : reqs' = [reqs EXCEPT ![s] = Append(@, r)]
  /\ UNCHANGED <<pc, conn, link, done, ka, portVars, mgrVars, regVars>>

\* The client closes, or the kernel reports the peer gone.
PeerClose(s) ==
  /\ Connected(s)
  /\ conn' = [conn EXCEPT ![s] = "closed"]
  /\ UNCHANGED <<pc, link, reqs, done, ka, portVars, mgrVars, regVars>>

\* The path dies without a FIN: neither side is told.
Drop(s) ==
  /\ conn[s] = "open" /\ link[s]
  /\ link' = [link EXCEPT ![s] = FALSE]
  /\ UNCHANGED <<pc, conn, reqs, done, ka, portVars, mgrVars, regVars>>

Handshake(s) == HandshakeOK(s) \/ HandshakeFail(s)
Register(s)  == RegisterUnnamed(s) \/ RegisterFirst(s) \/ RegisterSwap(s) \/ CloseOld(s)
Loop(s)      == ForwardRefused(s) \/ StartForward(s) \/ CancelForward(s) \/ OtherReq(s)
Finish(s)    == CloseAll(s) \/ CloseDone(s) \/ Unregister(s) \/ DelReg(s)
Probe(s)     == KaAnswered(s) \/ KaGiveUp(s) \/ KaProbeDone(s)
Network(s)   == SendReq(s) \/ PeerClose(s) \/ Drop(s)

Next == \E s \in Sessions :
  \/ Accept(s) \/ Handshake(s)
  \/ Register(s) \/ WaitDone(s) \/ WaitTimeout(s)
  \/ Loop(s) \/ Finish(s)
  \/ KaTick(s) \/ Probe(s) \/ KaDone(s)
  \/ Network(s)

Spec == Init /\ [][Next]_vars

(***************************************************************************)
(* Fairness: goroutines run, the handshake has a deadline, tickers and     *)
(* timers fire.  The network owes nothing, and EvictWait need not elapse.  *)
(* SF on KaDone: Go's select picks at random among the ready cases, so     *)
(* "done" is not passed over forever.                                      *)
(***************************************************************************)
Fairness == \A s \in Sessions :
  /\ WF_vars(Handshake(s))
  /\ WF_vars(Register(s) \/ WaitDone(s))
  /\ WF_vars(Loop(s) \/ Finish(s))
  /\ WF_vars(KaTick(s)) /\ WF_vars(Probe(s)) /\ SF_vars(KaDone(s))

FairSpec == Spec /\ Fairness

(***************************************************************************)
(* Properties.                                                             *)
(***************************************************************************)

Optional(S, none) == S \cup {none}

\* Every variable keeps its type.
TypeOK ==
  /\ pc \in [Sessions -> PCs]
  /\ conn \in [Sessions -> {"none", "open", "closed"}]
  /\ link \in [Sessions -> BOOLEAN]
  /\ reqs \in [Sessions -> Seq(Requests)]
  /\ fwds \in [Sessions -> [ReqPorts -> Optional(Ports, NoPort)]]
  /\ done \in SUBSET Sessions
  /\ ka \in [Sessions -> {"off", "tick", "probe", "stopped"}]
  /\ bound \in [Ports -> Optional(Sessions, NoSession)]
  /\ byName \in [Names -> Optional(Sessions, NoSession)]
  /\ waitFor \in [Sessions -> Optional(Sessions, NoSession)]
  /\ regm \in [Addrs -> Optional(Sessions, NoSession)]
  /\ regPorts \in [Sessions -> SUBSET ReqPorts]
  /\ ord \in [Sessions -> Nat]
  /\ nextOrd \in Nat \ {0}
  /\ timedOut \in SUBSET Sessions

\* No session of the client s belongs to gave up waiting for the one it evicted.
NoTimeout(s) == \A t \in timedOut : ~SameName(s, t)

\* "One live session per client name" (the session manager): two connections
\* of one client are never both between the end of register and close(done),
\* however many of them reconnect at once, as long as no eviction wait
\* timed out.
OneLiveSession ==
  \A s, t \in Sessions :
    s # t /\ SameName(s, t) /\ Live(s) /\ Live(t) => ~NoTimeout(s)

\* done is "closed once the session's listeners are released": whoever waits
\* on it, or sees the session gone, finds none of its listeners still bound.
\* Holds for keys that may not request port 0.
DoneMeansReleased ==
  \A p \in Ports : \A s \in Sessions :
    bound[p] = s /\ AnyPort \notin AllowedOf[s]
      => pc[s] = "serve" /\ p \in AllowedOf[s] /\ fwds[s][p] = p

\* A reconnect "reclaims its ports at once": when register has returned, a
\* port is never held by another session of the same client
\* (unless an eviction wait timed out or the key may request port 0).
ReclaimsPorts ==
  \A s, t \in Sessions : \A p \in Ports :
    s # t /\ SameName(s, t) /\ NoTimeout(s) /\ AnyPort \notin AllowedOf[t] /\ Live(s)
      => bound[p] # t

\* A session that lost its place in byName is being shut down: its connection
\* is closed, or a newer session of the client is about to close it.  (A
\* session that nobody evicts and nobody can find would keep its ports.)
StaleIsEvicted ==
  \A s \in Sessions :
    Named(s) /\ pc[s] \in {"evict", "wait", "serve"} /\ byName[NameOf[s]] # s
      => \/ conn[s] = "closed"
         \/ \E t \in Sessions : pc[t] = "evict" /\ waitFor[t] = s

\* byName never names a session whose goroutine has ended, so a reconnect
\* never waits EvictWait for a session long gone.
NoDeadEntry ==
  \A n \in Names : byName[n] \in Sessions =>
    NameOf[byName[n]] = n /\ pc[byName[n]] \in
      {"evict", "wait", "serve", "released", "unregister"}

\* Sessions wait only for sessions of the same client that registered before
\* them: no cycle of evictions waiting for each other.
WaitsForEarlier ==
  \A s \in Sessions : pc[s] \in {"evict", "wait"} =>
    /\ waitFor[s] \in Sessions
    /\ SameName(s, waitFor[s])
    /\ 0 < ord[waitFor[s]] /\ ord[waitFor[s]] < ord[s]

\* A client never loses a listener to someone else's request: a port leaves a
\* session only in a step of that session, and is free before anyone else
\* binds it.
OnlyOwnerFrees ==
  [][\A p \in Ports : \A s \in Sessions :
       bound[p] = s /\ bound'[p] # s
         => /\ bound'[p] = NoSession
            /\ pc[s] = "serve" /\ (reqs'[s] # reqs[s] \/ pc'[s] # pc[s])]_vars

\* A session that waits for the one it displaced gets through without the
\* timer: closing the old connection is enough to end the old session.
EvictionCompletes ==
  \A s \in Sessions : pc[s] = "wait" ~> pc[s] = "serve"

\* When the link dies silently the keepalive ends the session: its ports are
\* free and the panel no longer lists it.
DeadLinkFreesPorts ==
  \A s \in Sessions :
    ~link[s] /\ pc[s] = "serve"
      ~> regm[AddrOf[s]] # s /\ \A p \in Ports : bound[p] # s

\* The keepalive goroutine never outlives its session for good.
KeepaliveEnds ==
  \A s \in Sessions : s \in done ~> ka[s] = "stopped"

(***************************************************************************)
(* The abstract specification this one implements.                         *)
(***************************************************************************)
Lease == INSTANCE NameLease WITH
           live  <- {s \in Sessions : Live(s)},
           ended <- done,
           owner <- bound

\* With no eviction wait cut short, and no key allowed to request port 0, the
\* server implements the lease: one session per name binds listeners, on
\* ports its key allows, and gives the name back with every listener closed.
ImplementsLease == Lease!Spec

(***************************************************************************)
(* The strengthening under which the safety properties are inductive.      *)
(***************************************************************************)

Before(t, s) == SameName(s, t) /\ 0 < ord[t] /\ ord[t] < ord[s]

\* The order of registration is a strict order, set once past the mutex.
OrdInv ==
  /\ \A s \in Sessions : ord[s] < nextOrd
  /\ \A s, t \in Sessions : ord[s] = ord[t] /\ s # t => ord[s] = 0
  /\ \A s \in Sessions : ord[s] > 0 => Named(s)
  /\ \A s \in Sessions : pc[s] \in {"new", "handshake", "register"} => ord[s] = 0
  /\ \A s \in Sessions : Named(s) /\ pc[s] \in {"evict", "wait", "serve", "released"}
       => ord[s] > 0

\* done is closed exactly between the loop's end and the deferred calls.
DoneInv ==
  /\ \A s \in done : pc[s] \in {"unregister", "del", "end"}
  /\ \A s \in Sessions : pc[s] \in {"unregister", "del"} => s \in done
  /\ \A s \in Sessions : pc[s] = "end" /\ ord[s] > 0 => s \in done

\* Between a session that evicts and the one it waits for, all are done.
GapInv == \A s, t \in Sessions :
  pc[s] \in {"evict", "wait"} /\ NoTimeout(s) /\ Before(t, s) /\ ord[waitFor[s]] < ord[t]
    => t \in done

\* When register has returned, every earlier session of the client is done.
PastInv == \A s, t \in Sessions :
  pc[s] \in {"serve", "released", "unregister", "del", "end"} /\ NoTimeout(s) /\ Before(t, s)
    => t \in done

\* byName holds the latest registration while any session of the client is
\* not done.
LatestInv == \A t \in Sessions :
  ord[t] > 0 /\ t \notin done /\ NoTimeout(t)
    => byName[NameOf[t]] \in Sessions /\ ord[t] <= ord[byName[NameOf[t]]]

\* byName entries are registered sessions.
EntryInv == \A n \in Names : byName[n] \in Sessions => ord[byName[n]] > 0

ManagerInv == /\ OrdInv /\ DoneInv /\ WaitsForEarlier /\ NoDeadEntry
              /\ EntryInv /\ GapInv /\ PastInv /\ LatestInv

\* A listener in fwds is bound by its session, which is in its request loop,
\* and is recorded once.
FwdInv ==
  /\ \A s \in Sessions : \A p \in ReqPorts : fwds[s][p] \in Ports =>
       /\ bound[fwds[s][p]] = s
       /\ pc[s] = "serve"
       /\ p \in AllowedOf[s]
       /\ p \in {fwds[s][p], AnyPort}
  /\ \A s \in Sessions : \A p, q \in ReqPorts :
       fwds[s][p] \in Ports /\ fwds[s][p] = fwds[s][q] => p = q
=============================================================================
