----------------------------- MODULE NameLease ------------------------------
(***************************************************************************)
(* What the session manager and the listeners promise, without goroutines, *)
(* channels or connections: a client name is a lease that one session      *)
(* holds at a time, listeners are bound by lease holders only, on ports    *)
(* their key allows, and a lease is given back with every listener closed. *)
(***************************************************************************)
CONSTANTS Sessions, NoName, Ports, NameOf, AllowedOf, NoSession

VARIABLES
  live,   \* sessions holding the lease of their name
  ended,  \* sessions that gave it back, for good
  owner   \* port -> session whose listener is bound to it

leaseVars == <<live, ended, owner>>

Init == live = {} /\ ended = {} /\ owner = [p \in Ports |-> NoSession]

Owned(s) == {p \in Ports : owner[p] = s}

\* A session without a name does not compete for a lease.
Acquire(s) ==
  /\ s \notin live \cup ended
  /\ NameOf[s] # NoName => \A t \in live : NameOf[t] # NameOf[s]
  /\ live' = live \cup {s}
  /\ UNCHANGED <<ended, owner>>

Bind(s, p) ==
  /\ s \in live /\ p \in AllowedOf[s] /\ owner[p] = NoSession
  /\ owner' = [owner EXCEPT ![p] = s]
  /\ UNCHANGED <<live, ended>>

\* One listener cancelled, or all of them closed.
Free(s, P) ==
  /\ s \in live /\ P \subseteq Owned(s)
  /\ owner' = [p \in Ports |-> IF p \in P THEN NoSession ELSE owner[p]]
  /\ UNCHANGED <<live, ended>>

Release(s) ==
  /\ s \in live /\ Owned(s) = {}
  /\ live' = live \ {s}
  /\ ended' = ended \cup {s}
  /\ UNCHANGED owner

Next == \E s \in Sessions :
  \/ Acquire(s)
  \/ \E p \in Ports : Bind(s, p)
  \/ \E P \in SUBSET Ports : Free(s, P)
  \/ Release(s)

Spec == Init /\ [][Next]_leaseVars
=============================================================================
