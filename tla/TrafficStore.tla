---------------------------- MODULE TrafficStore ----------------------------
(***************************************************************************)
(* The panel's persisted store (monitor.TrafficStore) together with the    *)
(* two background loops that work on it: the sampler of Serve, which marks *)
(* clients up and down every 5 s, and the saver, which writes the store to *)
(* its file every 30 s.  The server may crash at any point and start again *)
(* from the file.                                                          *)
(*                                                                         *)
(* The entries of different clients are independent but for the dirty flag *)
(* and the file they share, so the module follows one client's entry.  The *)
(* byte counters of its ports are one counter; the per-day totals are left *)
(* out.  Every call on the store is one step: it holds the store's mutex.  *)
(***************************************************************************)
EXTENDS Integers, Sequences, FiniteSets, SequencesExt

CONSTANTS
  Window,    \* the window of uptimePct the panel shows (24 h)
  Keep,      \* availability events older than this are pruned (31 days)
  Grace,     \* no DOWN marks this long after the server's start (30 s)
  MaxLog,    \* cap on the availability log (8000 events)
  MaxTime,   \* bound: last instant of the clock
  MaxBytes,  \* bound: bytes forwarded
  MaxFlips   \* bound: times the client connects or disconnects

ASSUME TrafficAssumption ==
  /\ {Window, Keep, Grace, MaxLog, MaxTime, MaxBytes, MaxFlips} \subseteq Nat
  /\ 0 < Window /\ Window < Keep /\ MaxLog > 1 /\ Grace < MaxTime

VARIABLES
  now,      \* unix time
  alive,    \* is the server process running?
  startAt,  \* when Serve started
  conn,     \* is the client in the registry?
  mem,      \* the client's entry in TrafficStore.m
  dirty,    \* TrafficStore.dirty
  smp, saw, \* the sampler: idle or mark; was the client in the list it took?
  sv, data, \* the saver: idle or write; the snapshot it marshalled
  file,     \* the entry in the file on disk
  \* history, read by properties only
  full,     \* the availability log since it was loaded, never pruned
  flips,    \* connects and disconnects so far
  failed,   \* did the last write of the file fail?
  blank     \* did this process fail to load the file, and has not saved since?

vars == <<now, alive, startAt, conn, mem, dirty, smp, saw, sv, data, file,
          full, flips, failed, blank>>

procVars == <<now, alive, startAt>>

\* dated: is LastSeen a time, not the 0 of a new entry?
Empty == [known |-> FALSE, bytes |-> 0, dated |-> FALSE, up |-> <<>>]

Init ==
  /\ now = 1 /\ startAt = 1 /\ alive = TRUE
  /\ conn = FALSE /\ flips = 0
  /\ mem = Empty /\ file = Empty /\ data = Empty /\ dirty = FALSE
  /\ smp = "idle" /\ saw = FALSE /\ sv = "idle"
  /\ full = <<>> /\ failed = FALSE /\ blank = FALSE

(***************************************************************************)
(* Calls on the store.                                                     *)
(***************************************************************************)

\* Add: the pipes of the client's forwarded connections; creates the entry.
\* (The last bytes of a session that just ended count as its own.)
Add ==
  /\ alive /\ conn /\ mem.bytes < MaxBytes
  /\ mem' = [mem EXCEPT !.known = TRUE, !.bytes = @ + 1]
  /\ dirty' = TRUE
  /\ UNCHANGED <<procVars, conn, smp, saw, sv, data, file, full, flips, failed, blank>>

\* A transition is recorded only when it differs from the last one; a fault
\* would be to record the first one only.
ChangedOnce(log, up) == log = <<>>
Changed(log, up) == log = <<>> \/ Last(log).u # up

Event(up) == [t |-> now, u |-> up]

RecordState(up) ==
  IF Changed(mem.up, up)
  THEN /\ mem' = [mem EXCEPT !.up = Append(@, Event(up))]
       /\ full' = Append(full, Event(up))
       /\ dirty' = TRUE
  ELSE UNCHANGED <<mem, full, dirty>>

(***************************************************************************)
(* The sampler of Serve.                                                   *)
(***************************************************************************)

\* The registry is listed and the client touched if it is there.
SampleList ==
  /\ alive /\ smp = "idle"
  /\ saw' = conn /\ smp' = "mark"
  /\ IF conn THEN /\ mem' = [mem EXCEPT !.known = TRUE, !.dated = TRUE]
                  /\ dirty' = TRUE
             ELSE UNCHANGED <<mem, dirty>>
  /\ UNCHANGED <<procVars, conn, sv, data, file, full, flips, failed, blank>>

InGrace == now - startAt < Grace

\* Every client the store knows is marked as the list said, except DOWN
\* during the grace period.
SampleMark ==
  /\ alive /\ smp = "mark"
  /\ smp' = "idle" /\ saw' = FALSE
  /\ IF mem.known /\ (saw \/ ~InGrace) THEN RecordState(saw)
                                      ELSE UNCHANGED <<mem, full, dirty>>
  /\ UNCHANGED <<procVars, conn, sv, data, file, flips, failed, blank>>

(***************************************************************************)
(* The saver.                                                              *)
(***************************************************************************)

\* Events before the cutoff go, except the last of them, which carries the
\* state entering the window; a fault would be to drop that one as well.
PruneAllOld(log) == SelectSeq(log, LAMBDA e : e.t >= now - Keep)
Prune(log) ==
  LET old == {i \in 1..Len(log) : \A j \in 1..i : log[j].t < now - Keep}
  IN IF old = {} THEN log ELSE SubSeq(log, Cardinality(old), Len(log))

Cap(log) == IF Len(log) > MaxLog THEN SubSeq(log, Len(log) - MaxLog + 1, Len(log))
                                 ELSE log

\* One critical section: prune, marshal, clear dirty.
SaveSnapshot ==
  /\ alive /\ sv = "idle" /\ dirty
  /\ LET pruned == [mem EXCEPT !.up = Cap(Prune(@))]
     IN mem' = pruned /\ data' = pruned
  /\ dirty' = FALSE /\ sv' = "write"
  /\ UNCHANGED <<procVars, conn, smp, saw, file, full, flips, failed, blank>>

\* WriteFile or Rename failed: nothing marks the store dirty again.
SaveFail ==
  /\ alive /\ sv = "write"
  /\ sv' = "idle" /\ data' = Empty /\ failed' = TRUE
  /\ UNCHANGED <<procVars, conn, mem, dirty, smp, saw, file, full, flips, blank>>

\* A fault: dirty is cleared when the file is in place, not with the snapshot.
SaveRenameClears ==
  /\ alive /\ sv = "write"
  /\ file' = data /\ sv' = "idle" /\ data' = Empty /\ failed' = FALSE
  /\ dirty' = FALSE /\ blank' = FALSE
  /\ UNCHANGED <<procVars, conn, mem, smp, saw, full, flips>>

\* WriteFile of a temporary file nobody reads, then Rename: outside the mutex.
SaveRename ==
  /\ alive /\ sv = "write"
  /\ file' = data /\ sv' = "idle" /\ data' = Empty /\ failed' = FALSE
  /\ blank' = FALSE
  /\ UNCHANGED <<procVars, conn, mem, dirty, smp, saw, full, flips>>

(***************************************************************************)
(* Clients, the clock, crashes.                                            *)
(***************************************************************************)

\* Registry.Add and Registry.Del.
Flip ==
  /\ alive /\ flips < MaxFlips
  /\ conn' = ~conn /\ flips' = flips + 1
  /\ UNCHANGED <<procVars, mem, dirty, smp, saw, sv, data, file, full, failed, blank>>

\* The bounds leave a started server the time to get past its grace period.
Tick ==
  /\ now < MaxTime /\ (alive \/ now + Grace < MaxTime)
  /\ now' = now + 1
  /\ UNCHANGED <<alive, startAt, conn, mem, dirty, smp, saw, sv, data, file, full,
                 flips, failed, blank>>

\* The process ends anywhere; only the file survives.
Crash ==
  /\ alive /\ now + Grace <= MaxTime
  /\ alive' = FALSE /\ conn' = FALSE
  /\ mem' = Empty /\ dirty' = FALSE /\ full' = <<>>
  /\ smp' = "idle" /\ saw' = FALSE /\ sv' = "idle" /\ data' = Empty
  /\ blank' = FALSE
  /\ UNCHANGED <<now, startAt, file, flips, failed>>

\* NewTrafficStore reads the file, and dates an entry that was never touched
\* to now; a fault would be not to read it.
LoadedNothing == Empty
Loaded == [file EXCEPT !.dated = file.known]

Start ==
  /\ ~alive
  /\ alive' = TRUE /\ startAt' = now
  /\ mem' = Loaded /\ full' = Loaded.up /\ failed' = FALSE /\ blank' = FALSE
  /\ UNCHANGED <<now, conn, dirty, smp, saw, sv, data, file, flips>>

\* ReadFile or Unmarshal failed: the error is ignored and the store starts
\* empty; the file keeps what it has until the next save replaces it.
StartBlank ==
  /\ ~alive
  /\ alive' = TRUE /\ startAt' = now
  /\ mem' = Empty /\ full' = <<>> /\ failed' = FALSE /\ blank' = TRUE
  /\ UNCHANGED <<now, conn, dirty, smp, saw, sv, data, file, flips>>

Sampler == SampleList \/ SampleMark
Saver   == SaveSnapshot \/ SaveRename

Next == \/ Add \/ Sampler \/ Saver \/ SaveFail
        \/ Flip \/ Tick \/ Crash \/ Start \/ StartBlank

Spec == Init /\ [][Next]_vars

\* The two loops are driven by tickers and the clock advances; clients,
\* traffic, crashes and restarts come when they like.
FairSpec == Spec /\ WF_vars(Sampler) /\ WF_vars(Saver \/ SaveFail) /\ WF_vars(Tick)

(***************************************************************************)
(* What the panel shows.                                                   *)
(***************************************************************************)

\* uptimePct looks back to the window's start or the first event.
From(log) == IF log[1].t > now - Window THEN log[1].t ELSE now - Window

\* The state entering the window: that of the last event before it.
Entering(log) ==
  LET past == {i \in 1..Len(log) : \A j \in 1..i : log[j].t <= From(log)}
  IN IF past = {} THEN log[1].u ELSE log[Cardinality(past)].u

\* The loop of uptimePct: what it has added up, how far it has come and the
\* state there, after the first i events.  It ends at an event of this second.
Walk(log) ==
  LET w[i \in 0..Len(log)] ==
        IF i = 0 THEN [dur |-> 0, cursor |-> From(log), u |-> Entering(log)]
        ELSE IF log[i].t <= From(log) \/ \E j \in 1..i : log[j].t >= now THEN w[i - 1]
        ELSE [dur |-> w[i - 1].dur + (IF w[i - 1].u THEN log[i].t - w[i - 1].cursor ELSE 0),
              cursor |-> log[i].t, u |-> log[i].u]
  IN w

\* uptimePct: the time spent up in the window, the last stretch included.
UpTime(log) ==
  LET end == Walk(log)[Len(log)]
  IN end.dur + (IF end.u THEN now - end.cursor ELSE 0)

\* /api/status has an offline row for the client: now - LastSeen seconds.
OfflineRow == alive /\ mem.known /\ ~conn

(***************************************************************************)
(* Properties.                                                             *)
(***************************************************************************)

\* The client's state at instant x, by the log.
UpAt(log, x) == LET past == {i \in 1..Len(log) : log[i].t <= x}
                IN past # {} /\ log[Cardinality(past)].u

\* The percentage the panel shows is the share of the window's instants at
\* which the client was up by the complete log: neither the pruning of the
\* saver nor the order of its passes with the sampler's marks changes it,
\* as long as the window holds fewer events than the cap.
UptimeIsExact ==
  alive /\ mem.up # <<>>
    /\ Cardinality({i \in 1..Len(full) : full[i].t > now - Window}) < MaxLog
  => /\ From(mem.up) = From(full)
     /\ UpTime(mem.up) = Cardinality({x \in From(full)..(now - 1) : UpAt(full, x)})

\* "OfflineSeconds is how long a KNOWN client has been disconnected": the row
\* counts from the time the client was last seen, not from unix time 0.
OfflineIsMeasured == OfflineRow => mem.dated

\* A store that is not dirty, with the saver at rest and its last write done,
\* is what the file says: a change made while the saver was writing is never
\* taken for saved.  Exempt is a store that could not load the file, until its
\* first save.
CleanIsSaved ==
  alive /\ ~dirty /\ sv = "idle" /\ ~failed /\ ~blank
    => file.known = mem.known /\ file.bytes = mem.bytes /\ file.up = mem.up

\* The counter as the panel's user sees it: counted in memory, saved now and
\* then, and back at the last save after a restart.
Counter == INSTANCE Ledger WITH total <- mem.bytes, saved <- file.bytes, up <- alive

\* Crashes, failed writes and bytes counted during a save included, the store
\* does what the ledger allows: a restart that reads the file forgets nothing
\* that was saved and brings back nothing that was lost, and a save leaves the
\* file behind an earlier one only as the first save of a process that could
\* not read the file at its start.
ImplementsLedger == Counter!Spec

\* Every byte counted reaches the file in a save of this process, those counted
\* while the saver was writing the previous snapshot too, unless the server
\* crashes or a write fails first.
TrafficIsSaved ==
  \A b \in 1..MaxBytes :
    alive /\ mem.bytes = b ~> (file.bytes >= b /\ ~blank) \/ ~alive \/ failed

\* A known client that stays away is marked down, once the grace period is
\* over.
DownIsRecorded ==
  alive /\ mem.known /\ ~conn
    ~> conn \/ ~alive \/ (mem.up # <<>> /\ ~Last(mem.up).u)
=============================================================================
