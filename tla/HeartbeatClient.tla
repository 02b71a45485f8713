-------------------------- MODULE HeartbeatClient ---------------------------
(***************************************************************************)
(* heartbeat.RunClient: one beat per interval over UDP, the replies that   *)
(* may come late, twice, out of order or never, and the state of the UDP   *)
(* path the client reports (Stats.SetUDP).  Time passes in rounds of one   *)
(* interval.  The server and the network are external: a reply to any      *)
(* beat that was written may arrive at any time and any number of times.   *)
(***************************************************************************)
EXTENDS Naturals, FiniteSets

CONSTANTS
  MissedBeforeWarn, \* unanswered beats before the path is reported down (3)
  WaitRounds,       \* replyWait (5 s) in rounds, rounded up
  MaxBeats,         \* bound: sequence numbers
  MaxRounds         \* bound: rounds

Beats == 1..MaxBeats

ASSUME HeartbeatAssumption ==
  /\ MissedBeforeWarn \in Nat \ {0} /\ WaitRounds \in Nat \ {0}
  /\ MaxBeats \in Nat /\ MaxRounds \in Nat

VARIABLES
  phase,    \* "beat": at the top of the loop; "wait": in the select
  conn,     \* is the UDP socket open?
  seq,      \* last sequence number used
  sent,     \* outstanding beats: sequence number -> round, 0 = not outstanding
  missed,   \* beats lost in a row
  udp,      \* what Stats reports: "unset", "ok" or "down"
  round,    \* rounds completed
  written,  \* beats handed to the network
  outcome,  \* history: how each beat was counted
  unanswered  \* history: beats sent since the last beat was answered

vars == <<phase, conn, seq, sent, missed, udp, round, written, outcome, unanswered>>

Init ==
  /\ phase = "beat" /\ conn = FALSE /\ seq = 0
  /\ sent = [s \in Beats |-> 0]
  /\ missed = 0 /\ udp = "unset" /\ round = 0
  /\ written = {}
  /\ outcome = [s \in Beats |-> "none"]
  /\ unanswered = 0

Outstanding == {s \in Beats : sent[s] # 0}

\* The socket is closed and net.Dial fails (the host name does not resolve):
\* nothing is sent this round.
DialFailed ==
  /\ phase = "beat" /\ round < MaxRounds
  /\ ~conn
  /\ phase' = "wait"
  /\ UNCHANGED <<conn, seq, sent, missed, udp, round, written, outcome, unanswered>>

\* Dial if need be, and send: the beat is outstanding whether or not the write
\* succeeds; after a failed write the socket is closed.
Beat ==
  /\ phase = "beat" /\ round < MaxRounds /\ seq < MaxBeats
  /\ seq' = seq + 1
  /\ sent' = [sent EXCEPT ![seq + 1] = round + 1]
  /\ \/ conn' = TRUE  /\ written' = written \cup {seq + 1}
     \/ conn' = FALSE /\ UNCHANGED written
  /\ phase' = "wait"
  /\ unanswered' = unanswered + 1
  /\ UNCHANGED <<missed, udp, round, outcome>>

\* A reply counts when its beat is outstanding; a fault would be to accept the
\* reply to any beat.
AnyBeat(s) == TRUE
Expected(s) == sent[s] # 0

\* A reply to an outstanding beat.  (Any other reply is skipped: it changes
\* nothing.)
Reply(s) ==
  /\ phase = "wait" /\ s \in written
  /\ Expected(s)
  /\ sent' = [sent EXCEPT ![s] = 0]
  /\ outcome' = [outcome EXCEPT ![s] = "answered"]
  /\ missed' = 0
  /\ udp' = "ok"
  /\ unanswered' = 0
  /\ UNCHANGED <<phase, conn, seq, round, written>>

\* Beats counted as lost at the end of a round: older than replyWait and not
\* the beat of this round.
Lost == {s \in Outstanding : round + 2 - sent[s] >= WaitRounds /\ s # seq}

\* What SetUDP reports after losses; a fault would be an off-by-one.
ReportsLate(m) == IF m <= MissedBeforeWarn THEN "ok" ELSE "down"
Reports(m) == IF m < MissedBeforeWarn THEN "ok" ELSE "down"

\* The interval is over.
EndRound ==
  /\ phase = "wait"
  /\ sent' = [s \in Beats |-> IF s \in Lost THEN 0 ELSE sent[s]]
  /\ outcome' = [s \in Beats |-> IF s \in Lost THEN "lost" ELSE outcome[s]]
  /\ missed' = missed + Cardinality(Lost)
  /\ udp' = IF Lost = {} THEN udp ELSE Reports(missed')
  /\ round' = round + 1
  /\ phase' = "beat"
  /\ UNCHANGED <<conn, seq, written, unanswered>>

Next == DialFailed \/ Beat \/ EndRound \/ \E s \in Beats : Reply(s)

Spec == Init /\ [][Next]_vars

(***************************************************************************)
(* Properties.                                                             *)
(***************************************************************************)

\* A beat is counted once, as answered or as lost, never both: a duplicate
\* reply, or one that comes after the beat was given up, does not count again
\* in the loss percentage and does not clear the missed beats.
CountedOnce ==
  [][\A s \in Beats : outcome[s] # "none" => outcome'[s] = outcome[s] /\ sent'[s] = 0]_vars

\* Beats after which MissedBeforeWarn of them have had their time.
UnansweredBound == MissedBeforeWarn + (IF WaitRounds > 2 THEN WaitRounds - 1 ELSE 1)

\* "missedBeforeWarn consecutive unanswered beats before the client says so":
\* when that many beats since the last answer have had their time, the path is
\* not reported as working, however late, doubled or reordered the earlier
\* replies were and however often the socket was opened again.
UnansweredIsReported ==
  phase = "beat" /\ unanswered >= UnansweredBound => udp # "ok"
=============================================================================
