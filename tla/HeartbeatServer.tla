-------------------------- MODULE HeartbeatServer ---------------------------
(***************************************************************************)
(* heartbeat.Server: the receive loop (Serve, note) and the checker        *)
(* goroutine (check) share the table of the last heartbeat per client.     *)
(* Time passes in ticks; ages are capped at LostTicks, the number of ticks *)
(* in LostAfter.  A record's age is what time.Since(v.at) gives: of the    *)
(* zero time it is past every limit.                                       *)
(***************************************************************************)
EXTENDS Integers

CONSTANTS
  Clients,    \* client names in authentic heartbeats
  NoClient,
  LostTicks   \* LostAfter in ticks

ASSUME ServerAssumption ==
  /\ NoClient \notin Clients
  /\ LostTicks \in Nat \ {0}

VARIABLES
  known,    \* Server.m: names with a record
  age,      \* ticks since the record's "at"
  alive,    \* the record's alive flag
  loop,     \* the receive loop: idle, "first" (in note's first-heartbeat branch,
            \* unlocked) or "resume" (about to call OnResume), and for whom
  lost,     \* events the checker collected, OnLost not yet called
  silent,   \* history: ticks since a heartbeat of the client last arrived
  told      \* history: calls of OnLost less calls of OnResume, per client

vars == <<known, age, alive, loop, lost, silent, told>>

Idle == [at |-> "idle", client |-> NoClient]

Init ==
  /\ known = {}
  /\ age = [c \in Clients |-> LostTicks]
  /\ alive = [c \in Clients |-> FALSE]
  /\ loop = Idle
  /\ lost = {}
  /\ silent = [c \in Clients |-> LostTicks]
  /\ told = [c \in Clients |-> 0]

\* A fault: the time is refreshed only when the record was flagged.
StampFlagged(c) ==
  /\ age' = [age EXCEPT ![c] = IF alive[c] THEN @ ELSE 0]
  /\ alive' = [alive EXCEPT ![c] = TRUE]
  /\ loop' = Idle

\* The rest of note, under the mutex: stamp the record; OnResume is to be
\* called if it was flagged.  (The echo that follows changes no state.)
Stamp(c) ==
  /\ age' = [age EXCEPT ![c] = 0]
  /\ alive' = [alive EXCEPT ![c] = TRUE]
  /\ loop' = IF alive[c] THEN Idle ELSE [at |-> "resume", client |-> c]

\* An authentic heartbeat of a client seen before.
Note(c) ==
  /\ loop = Idle /\ c \in known
  /\ Stamp(c)
  /\ silent' = [silent EXCEPT ![c] = 0]
  /\ UNCHANGED <<known, lost, told>>

\* The first one: the record is inserted, alive and with the zero time, and
\* the mutex is released to log.
NoteFirst(c) ==
  /\ loop = Idle /\ c \notin known
  /\ known' = known \cup {c}
  /\ alive' = [alive EXCEPT ![c] = TRUE]
  /\ loop' = [at |-> "first", client |-> c]
  /\ silent' = [silent EXCEPT ![c] = 0]
  /\ UNCHANGED <<age, lost, told>>

\* ... and taken again.
NoteFirstStamp(c) ==
  /\ loop = [at |-> "first", client |-> c]
  /\ Stamp(c)
  /\ UNCHANGED <<known, lost, silent, told>>

\* The callback, after the mutex.
OnResume ==
  /\ loop.at = "resume"
  /\ loop' = Idle
  /\ told' = [told EXCEPT ![loop.client] = @ - 1]
  /\ UNCHANGED <<known, age, alive, lost, silent>>

\* Records the checker flags; a fault would be to ask for the exact age.
ToFlagExact == {c \in known : alive[c] /\ age[c] = LostTicks - 1}
ToFlag == {c \in known : alive[c] /\ age[c] >= LostTicks}

\* One pass of the checker over the table, under the mutex.
Check ==
  /\ lost = {}
  /\ ToFlag # {}
  /\ alive' = [c \in Clients |-> IF c \in ToFlag THEN FALSE ELSE alive[c]]
  /\ lost' = ToFlag
  /\ UNCHANGED <<known, age, loop, silent, told>>

\* The callbacks, after the mutex.
OnLost(c) ==
  /\ c \in lost
  /\ lost' = lost \ {c}
  /\ told' = [told EXCEPT ![c] = @ + 1]
  /\ UNCHANGED <<known, age, alive, loop, silent>>

Older(n) == IF n < LostTicks THEN n + 1 ELSE n

Tick ==
  /\ age' = [c \in Clients |-> Older(age[c])]
  /\ silent' = [c \in Clients |-> Older(silent[c])]
  /\ UNCHANGED <<known, alive, loop, lost, told>>

Next == Check \/ Tick \/ OnResume
          \/ \E c \in Clients : Note(c) \/ NoteFirst(c) \/ NoteFirstStamp(c) \/ OnLost(c)

Spec == Init /\ [][Next]_vars

\* The checker's ticker fires, callbacks return, time passes.
FairSpec == Spec /\ WF_vars(Check) /\ WF_vars(Tick) /\ WF_vars(OnResume)
                 /\ \A c \in Clients : WF_vars(OnLost(c)) /\ WF_vars(NoteFirstStamp(c))

(***************************************************************************)
(* Properties.                                                             *)
(***************************************************************************)

\* OnLost is for clients whose "heartbeats stop for LostAfter": a record is
\* flagged only after that much silence, but for the client whose first
\* heartbeat is being recorded (its record has no time yet).
LostAfterSilence ==
  [][\A c \in Clients : c \in lost' \ lost =>
       silent[c] >= LostTicks \/ loop = [at |-> "first", client |-> c]]_vars

Count(b) == IF b THEN 1 ELSE 0

\* Every outage is reported lost once and back once, however check and note
\* interleave (callbacks run unlocked, so they may even swap): a client has one
\* OnLost more than OnResume just when its record is flagged, but for the calls
\* that the checker and the receive loop still have to make.
CallbacksPaired ==
  \A c \in Clients :
    told[c] = Count(c \in known /\ ~alive[c]) - Count(c \in lost)
                + Count(loop = [at |-> "resume", client |-> c])

\* A client whose heartbeats stop for good ends up flagged, with OnLost called.
SilenceIsFlagged ==
  \A c \in Clients :
    <>[][~Note(c)]_vars /\ <>(c \in known) => <>[](~alive[c] /\ c \notin lost)
=============================================================================
