------------------------------- MODULE Panel --------------------------------
(***************************************************************************)
(* Panel requests that describe or probe a forwarded port: clients.json,   *)
(* which they read through MetaStore, and the gate that spaces probes of   *)
(* one port.  Requests run concurrently with each other and with an        *)
(* operator who edits, breaks and removes the file.  MetaStore stats the   *)
(* file outside its mutex, decides and reads inside it, and Get takes the  *)
(* mutex a second time.  Time passes in seconds.                           *)
(***************************************************************************)
EXTENDS Naturals, FiniteSets

CONSTANTS
  Missing,    \* the file does not exist
  Nil,        \* MetaStore.data when there is none
  Requests,   \* goroutines of the HTTP server
  Ports,      \* "client:port" keys of forwarded ports
  Gap,        \* probeGate.min
  Minute,     \* age past which the gate forgets an entry, once it is full
  MaxEntries, \* entries the gate holds before it looks for old ones (1024)
  MaxEdits    \* bound: edits of the file

\* The URL the file gives for a port, and what sanitize keeps of it: an
\* unacceptable one (scheme, host, credentials, length) is dropped.
RawURLs == {"http", "ssh", "bad"}
Sanitize(url) == IF url = "bad" THEN "none" ELSE url

ASSUME PanelAssumption ==
  /\ Missing \notin Nat \cup [stamp : Nat, parses : BOOLEAN, url : RawURLs]
  /\ Nil \notin RawURLs \cup {"none"}
  /\ IsFiniteSet(Ports)
  /\ Gap \in Nat /\ Minute \in Nat /\ Gap <= Minute
  /\ MaxEntries \in Nat /\ MaxEdits \in Nat

NoStamp == 0          \* MetaStore.mtime and size when there are none
NoEntry == Minute + 2 \* the gate has no entry for the port

VARIABLES
  file,   \* clients.json: Missing, or its stamp (time and size), whether it
          \* parses, and the URL in it
  edits,
  data, stamp,  \* MetaStore.data; MetaStore.mtime and size
  pc,     \* where each request is: idle, stat, lock, get
  st,     \* what its os.Stat found: a stamp, or Missing
  last,   \* probeGate.last: age of the port's entry, or NoEntry
  \* history
  fresh,  \* requests that began after the last edit or failed call on the file,
          \* with no earlier one left
  kept,   \* MetaStore.data when the request began
  since,  \* seconds since the port was last probed
  res     \* the URL the last finished request was given

storeVars == <<data, stamp>>
fileVars  == <<file, edits>>
gateVars  == <<last, since>>
vars == <<file, edits, data, stamp, pc, st, last, fresh, kept, since, res>>

Busy == {r \in Requests : pc[r] # "idle"}

Init ==
  /\ file = Missing /\ edits = 0
  /\ data = Nil /\ stamp = NoStamp
  /\ pc = [r \in Requests |-> "idle"]
  /\ st = [r \in Requests |-> Missing]
  /\ last = [p \in Ports |-> NoEntry] /\ since = [p \in Ports |-> Minute + 1]
  /\ fresh = {} /\ kept = [r \in Requests |-> Nil] /\ res = "none"

(***************************************************************************)
(* The operator.                                                           *)
(***************************************************************************)

\* Every edit changes the file's time or size.
Edit ==
  /\ edits < MaxEdits
  /\ edits' = edits + 1
  /\ \E parses \in BOOLEAN, url \in RawURLs :
       file' = [stamp |-> edits + 1, parses |-> parses, url |-> url]
  /\ fresh' = {}
  /\ UNCHANGED <<storeVars, gateVars, pc, st, kept, res>>

Remove ==
  /\ file # Missing
  /\ file' = Missing
  /\ fresh' = {}
  /\ UNCHANGED <<edits, storeVars, gateVars, pc, st, kept, res>>

(***************************************************************************)
(* Requests.                                                               *)
(***************************************************************************)

Begin(r) ==
  /\ pc[r] = "idle"
  /\ pc' = [pc EXCEPT ![r] = "stat"]
  /\ kept' = [kept EXCEPT ![r] = data]
  /\ fresh' = IF Busy \subseteq fresh THEN fresh \cup {r} ELSE fresh \ {r}

\* /api/status: describe asks for the port's metadata.
Describe(r) ==
  /\ Begin(r)
  /\ UNCHANGED <<fileVars, storeVars, gateVars, st, res>>

\* probeGate.allow: not within Gap of the last probe of the port.
Allowed(p) == last[p] >= Gap

\* What the gate keeps of its entries when there are too many; a fault would be
\* to start from scratch.
PurgeAll(l, p) == [q \in Ports |-> IF q = p THEN 0 ELSE NoEntry]
Purge(l, p) == [q \in Ports |-> IF l[q] > Minute THEN NoEntry ELSE l[q]]

\* /api/probe of a port the client forwards: refused by the gate, or noted and
\* on to the port's metadata.
Probe(r, p) ==
  /\ Allowed(p)
  /\ LET noted == [last EXCEPT ![p] = 0] IN
       last' = IF Cardinality({q \in Ports : noted[q] # NoEntry}) > MaxEntries
               THEN Purge(noted, p) ELSE noted
  /\ since' = [since EXCEPT ![p] = 0]
  /\ Begin(r)
  /\ UNCHANGED <<fileVars, storeVars, st, res>>

\* refresh: os.Stat.
Stat(r) ==
  /\ pc[r] = "stat"
  /\ st' = [st EXCEPT ![r] = IF file = Missing THEN Missing ELSE file.stamp]
  /\ pc' = [pc EXCEPT ![r] = "lock"]
  /\ UNCHANGED <<fileVars, storeVars, gateVars, fresh, kept, res>>

\* os.Stat failed although the file is there: refresh takes it for removed.
StatFails(r) ==
  /\ pc[r] = "stat" /\ file # Missing
  /\ st' = [st EXCEPT ![r] = Missing]
  /\ pc' = [pc EXCEPT ![r] = "lock"]
  /\ fresh' = {}
  /\ UNCHANGED <<fileVars, storeVars, gateVars, kept, res>>

Locked(r) == pc[r] = "lock" /\ pc' = [pc EXCEPT ![r] = "get"]

\* The stat failed: forget everything.
Cleared(r) ==
  /\ Locked(r) /\ st[r] = Missing
  /\ data' = Nil /\ stamp' = IF data = Nil THEN stamp ELSE NoStamp
  /\ UNCHANGED <<fileVars, gateVars, st, fresh, kept, res>>

Unmodified(r) == data # Nil /\ st[r] = stamp

\* Nothing to do, or the file is gone by now.
Unread(r) ==
  /\ Locked(r) /\ st[r] # Missing
  /\ Unmodified(r) \/ file = Missing
  /\ UNCHANGED <<fileVars, storeVars, gateVars, st, fresh, kept, res>>

\* os.ReadFile failed although the file is there: what is known stays.
ReadFails(r) ==
  /\ Locked(r) /\ st[r] # Missing
  /\ ~Unmodified(r) /\ file # Missing
  /\ fresh' = {}
  /\ UNCHANGED <<fileVars, storeVars, gateVars, st, kept, res>>

\* What is kept when the file does not parse; a fault would be to drop it.
KeepNothing == Nil
KeepData == data

\* The file is read as it is now, and dated as it was at the stat.
Load(r) ==
  /\ Locked(r) /\ st[r] # Missing
  /\ ~Unmodified(r) /\ file # Missing
  /\ data' = IF file.parses THEN Sanitize(file.url) ELSE KeepData
  /\ stamp' = st[r]
  /\ UNCHANGED <<fileVars, gateVars, st, fresh, kept, res>>

\* Get, the mutex taken again; probe chooses HTTP or TCP by the URL.
Get(r) ==
  /\ pc[r] = "get"
  /\ pc' = [pc EXCEPT ![r] = "idle"]
  /\ res' = IF data = Nil THEN "none" ELSE data
  /\ st' = [st EXCEPT ![r] = Missing] /\ kept' = [kept EXCEPT ![r] = Nil]
  /\ fresh' = fresh \ {r}
  /\ UNCHANGED <<fileVars, storeVars, gateVars>>

Older(age) == IF age <= Minute THEN age + 1 ELSE age

Tick ==
  /\ last' = [p \in Ports |-> Older(last[p])]
  /\ since' = [p \in Ports |-> Older(since[p])]
  /\ UNCHANGED <<fileVars, storeVars, pc, st, fresh, kept, res>>

Next == \/ Edit \/ Remove \/ Tick
        \/ \E r \in Requests : \/ Stat(r) \/ StatFails(r) \/ Cleared(r) \/ Unread(r)
                               \/ ReadFails(r) \/ Load(r) \/ Get(r)
                               \/ Describe(r) \/ \E p \in Ports : Probe(r, p)

Spec == Init /\ [][Next]_vars

(***************************************************************************)
(* Properties.                                                             *)
(***************************************************************************)

\* What a request should be told about its port.
Current(r) ==
  LET known == IF file = Missing THEN Nil
               ELSE IF file.parses THEN Sanitize(file.url) ELSE kept[r]
  IN IF known = Nil THEN "none" ELSE known

\* The file "can be edited without restarting the server": once the requests
\* that were running at an edit, or when the file could not be read, are gone,
\* every request is answered from the file as it is -- nothing if it was
\* removed, the previous metadata if it does not parse -- whatever order their
\* stats and reads came in.
AnswersAreCurrent ==
  [][\A r \in Requests : r \in fresh /\ pc[r] = "get" /\ pc'[r] = "idle" => res' = Current(r)]_vars

\* The gate "limits how often the same client/port can be probed", also when
\* it forgets entries to stay small.
ProbesAreSpaced ==
  [][\A r \in Requests, p \in Ports : Probe(r, p) => since[p] >= Gap]_vars
=============================================================================
