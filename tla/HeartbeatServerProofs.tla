----------------------- MODULE HeartbeatServerProofs ------------------------
(***************************************************************************)
(* Proofs about HeartbeatServer, for any number of clients.                *)
(***************************************************************************)
EXTENDS HeartbeatServer, TLAPS

First(c) == [at |-> "first", client |-> c]

\* A record with a time is no older than its client's silence.
BeatInv ==
  /\ age \in [Clients -> Nat] /\ silent \in [Clients -> Nat]
  /\ alive \in [Clients -> BOOLEAN] /\ known \subseteq Clients
  /\ \A c \in known : loop # First(c) => age[c] <= silent[c]

LEMMA InitBeat == Init => BeatInv
BY ServerAssumption DEF Init, BeatInv

LEMMA NextBeat == BeatInv /\ [Next]_vars => BeatInv'
<1> SUFFICES ASSUME BeatInv, [Next]_vars PROVE BeatInv'
  OBVIOUS
<1> USE ServerAssumption DEF BeatInv
<1>1. CASE UNCHANGED vars
  BY <1>1 DEF vars
<1>2. CASE Check
  BY <1>2 DEF Check
<1>3. CASE Tick
  <2>1. \A c \in Clients : age'[c] = Older(age[c]) /\ silent'[c] = Older(silent[c])
    BY <1>3 DEF Tick
  <2>2. \A m, n \in Nat : Older(m) \in Nat /\ (m <= n => Older(m) <= Older(n))
    BY DEF Older
  <2>3. /\ age' \in [Clients -> Nat] /\ silent' \in [Clients -> Nat]
        /\ known' = known /\ alive' = alive /\ loop' = loop
    BY <1>3, <2>2 DEF Tick
  <2>4. ASSUME NEW c \in known', loop' # First(c) PROVE age'[c] <= silent'[c]
    BY <2>1, <2>2, <2>3, <2>4 DEF BeatInv
  <2> QED
    BY <2>3, <2>4
<1>4. CASE OnResume
  BY <1>4 DEF OnResume, First, Idle
<1>5. ASSUME NEW c \in Clients, Note(c) PROVE BeatInv'
  BY <1>5 DEF Note, Stamp, Idle, First
<1>6. ASSUME NEW c \in Clients, NoteFirst(c) PROVE BeatInv'
  BY <1>6 DEF NoteFirst, Idle, First
<1>7. ASSUME NEW c \in Clients, NoteFirstStamp(c) PROVE BeatInv'
  BY <1>7 DEF NoteFirstStamp, Stamp, Idle, First
<1>8. ASSUME NEW c \in Clients, OnLost(c) PROVE BeatInv'
  BY <1>8 DEF OnLost
<1> QED
  BY <1>1, <1>2, <1>3, <1>4, <1>5, <1>6, <1>7, <1>8 DEF Next

\* The checker flags a client only after LostAfter without a heartbeat of it
\* (check), however the receive loop is interleaved with it.
THEOREM LostOnlyAfterSilence == Spec => LostAfterSilence
<1> DEFINE Silent == \A c \in Clients : c \in lost' \ lost =>
                       silent[c] >= LostTicks \/ loop = First(c)
<1>1. BeatInv /\ [Next]_vars => [Silent]_vars
  <2> SUFFICES ASSUME BeatInv, Next, NEW c \in Clients, c \in lost' \ lost
               PROVE  silent[c] >= LostTicks \/ loop = First(c)
    OBVIOUS
  <2>1. Check
    BY DEF Next, Tick, OnResume, Note, NoteFirst, NoteFirstStamp, OnLost
  <2>2. c \in known /\ age[c] >= LostTicks
    BY <2>1 DEF Check, ToFlag
  <2> QED
    BY <2>2, ServerAssumption DEF BeatInv
<1> QED
  BY <1>1, InitBeat, NextBeat, PTL DEF Spec, LostAfterSilence, First

\* What CallbacksPaired rests on: the receive loop is in one of its three
\* places, and the first heartbeat it may be recording, like a pending OnLost,
\* is of a client with a record.
Resume(c) == [at |-> "resume", client |-> c]
Loops == {Idle} \cup {First(c) : c \in Clients} \cup {Resume(c) : c \in Clients}

PairInv ==
  /\ told \in [Clients -> Int] /\ alive \in [Clients -> BOOLEAN]
  /\ known \subseteq Clients /\ lost \subseteq known /\ loop \in Loops
  /\ \A c \in Clients : loop = First(c) => c \in known
  /\ CallbacksPaired

LEMMA LoopsDiffer ==
  ASSUME NEW c \in Clients, NEW d \in Clients
  PROVE  /\ Idle # First(c) /\ Idle # Resume(c) /\ First(c) # Resume(d)
         /\ (Resume(c) = Resume(d) => c = d) /\ (First(c) = First(d) => c = d)
         /\ Resume(c).at = "resume" /\ Resume(c).client = c
         /\ First(c).at # "resume" /\ Idle.at # "resume"
BY DEF Idle, First, Resume

LEMMA InitPair == Init => PairInv
BY DEF Init, PairInv, CallbacksPaired, Count, Loops, Idle, First

LEMMA NextPair == PairInv /\ [Next]_vars => PairInv'
<1> SUFFICES ASSUME PairInv, [Next]_vars PROVE PairInv'
  OBVIOUS
<1> DEFINE Owed(d) == Count(d \in known /\ ~alive[d]) - Count(d \in lost)
                        + Count(loop = Resume(d))
<1>a. \A d \in Clients : told[d] = Owed(d)
  BY DEF PairInv, CallbacksPaired, Resume
<1>b. (\A d \in Clients : told'[d] = Owed(d)') => CallbacksPaired'
  BY DEF CallbacksPaired, Resume
<1> HIDE DEF Owed
<1>1. CASE UNCHANGED vars
  BY <1>1 DEF vars, PairInv, CallbacksPaired
<1>2. CASE Check
  <2>1. /\ UNCHANGED <<told, known, loop>> /\ lost' \subseteq known /\ lost = {}
        /\ alive' \in [Clients -> BOOLEAN]
    BY <1>2 DEF Check, ToFlag, PairInv
  <2>2. ASSUME NEW d \in Clients PROVE told'[d] = Owed(d)'
    <3>1. /\ d \in lost' => d \in known /\ alive[d] /\ ~alive'[d]
          /\ d \notin lost' => alive'[d] = alive[d]
      BY <1>2 DEF Check, ToFlag, PairInv
    <3> QED
      BY <1>a, <2>1, <3>1 DEF Owed, Count
  <2> QED
    BY <1>b, <2>1, <2>2 DEF PairInv
<1>3. CASE Tick
  BY <1>3 DEF Tick, PairInv, CallbacksPaired
<1>4. CASE OnResume
  <2>1. PICK c \in Clients : loop = Resume(c)
    BY <1>4, LoopsDiffer DEF OnResume, PairInv, Loops, Idle, First
  <2>2. /\ UNCHANGED <<known, alive, lost>> /\ loop' = Idle
        /\ told' = [told EXCEPT ![c] = @ - 1]
    BY <1>4, <2>1, LoopsDiffer DEF OnResume
  <2>3. ASSUME NEW d \in Clients PROVE told'[d] = Owed(d)'
    BY <1>a, <2>1, <2>2, LoopsDiffer DEF Owed, Count, PairInv
  <2> QED
    BY <1>b, <2>2, <2>3, LoopsDiffer DEF PairInv, Loops
<1>5. ASSUME NEW c \in known, Stamp(c), UNCHANGED <<known, lost, told>>,
             \A d \in Clients : loop # Resume(d)
      PROVE  PairInv'
  <2> c \in Clients
    BY DEF PairInv
  <2>1. /\ alive' = [alive EXCEPT ![c] = TRUE]
        /\ loop' = IF alive[c] THEN Idle ELSE Resume(c)
    BY <1>5 DEF Stamp, Resume
  <2>2. ASSUME NEW d \in Clients PROVE told'[d] = Owed(d)'
    BY <1>a, <1>5, <2>1, LoopsDiffer DEF Owed, Count, PairInv
  <2> QED
    BY <1>b, <1>5, <2>1, <2>2, LoopsDiffer DEF PairInv, Loops
<1>6. ASSUME NEW c \in Clients, Note(c) PROVE PairInv'
  BY <1>5, <1>6, LoopsDiffer DEF Note
<1>7. ASSUME NEW c \in Clients, NoteFirst(c) PROVE PairInv'
  <2>1. /\ c \notin known /\ known' = known \cup {c} /\ loop = Idle /\ loop' = First(c)
        /\ alive' = [alive EXCEPT ![c] = TRUE] /\ UNCHANGED <<lost, told>>
    BY <1>7 DEF NoteFirst, First
  <2>2. ASSUME NEW d \in Clients PROVE told'[d] = Owed(d)'
    BY <1>a, <2>1, LoopsDiffer DEF Owed, Count, PairInv
  <2> QED
    BY <1>b, <2>1, <2>2, LoopsDiffer DEF PairInv, Loops
<1>8. ASSUME NEW c \in Clients, NoteFirstStamp(c) PROVE PairInv'
  <2>1. loop = First(c) /\ c \in known /\ Stamp(c) /\ UNCHANGED <<known, lost, told>>
    BY <1>8 DEF NoteFirstStamp, First, PairInv
  <2> QED
    BY <1>5, <2>1, LoopsDiffer
<1>9. ASSUME NEW c \in Clients, OnLost(c) PROVE PairInv'
  <2>1. /\ c \in lost /\ lost' = lost \ {c} /\ told' = [told EXCEPT ![c] = @ + 1]
        /\ UNCHANGED <<known, alive, loop>>
    BY <1>9 DEF OnLost
  <2>2. ASSUME NEW d \in Clients PROVE told'[d] = Owed(d)'
    BY <1>a, <2>1 DEF Owed, Count, PairInv
  <2> QED
    BY <1>b, <2>1, <2>2 DEF PairInv
<1> QED
  BY <1>1, <1>2, <1>3, <1>4, <1>6, <1>7, <1>8, <1>9 DEF Next

\* Each outage is one OnLost and one OnResume (check, note), for any number of
\* clients and however the two goroutines interleave.
THEOREM CallbacksPair == Spec => []CallbacksPaired
<1>1. PairInv => CallbacksPaired
  BY DEF PairInv
<1> QED
  BY <1>1, InitPair, NextPair, PTL DEF Spec
=============================================================================
