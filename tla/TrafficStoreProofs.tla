------------------------- MODULE TrafficStoreProofs -------------------------
(***************************************************************************)
(* Proofs about TrafficStore: it implements the ledger, a clean store is a *)
(* saved one, and the uptime shown is exact for every window, retention    *)
(* and cap.          The last one needs what the loop of uptimePct       *)
(* computes for a log of any length; the induction over the log is a least *)
(* counterexample argument on a set of positions (lemma SetInduction).     *)
(***************************************************************************)
EXTENDS TrafficStore, FiniteSetTheorems, TLAPS

(***************************************************************************)
(* Naturals, initial segments.                                             *)
(***************************************************************************)

\* A set of naturals has a least element.
LEMMA LeastNat ==
  ASSUME NEW T \in SUBSET Nat, T # {}
  PROVE  \E m \in T : \A n \in T : m <= n
<1> DEFINE R == {ss \in Nat \X Nat : ss[1] < ss[2]}
<1>1. OpToRel(<, Nat) = R
  BY DEF OpToRel
<1>2. IsWellFoundedOn(R, Nat)
  BY <1>1, NatLessThanWellFounded
<1>3. \A a, b \in Nat : a < b => <<a, b>> \in R
  OBVIOUS
<1> HIDE DEF R
<1>4. PICK m \in T : \A n \in T : ~ (<<n, m>> \in R)
  BY <1>2, WFMin
<1>5. \A n \in T : ~ (n < m)
  BY <1>3, <1>4
<1> QED
  BY <1>4, <1>5

\* Induction over the naturals for membership in a set.
LEMMA SetInduction ==
  ASSUME NEW T, 0 \in T, \A n \in Nat : n \in T => n + 1 \in T
  PROVE  Nat \subseteq T
<1> DEFINE C == Nat \ T
<1>1. SUFFICES ASSUME C # {} PROVE FALSE
  OBVIOUS
<1>2. PICK m \in C : \A n \in C : m <= n
  BY <1>1, LeastNat
<1>3. m - 1 \in Nat /\ m - 1 \notin C
  BY <1>2
<1> QED
  BY <1>2, <1>3

\* A set of positions that has, with each, all the earlier ones is counted by
\* its last member.
LEMMA InitialSegment ==
  ASSUME NEW n \in Nat, NEW S \in SUBSET (1..n),
         \A i \in S : \A j \in 1..i : j \in S
  PROVE  /\ Cardinality(S) \in 0..n
         /\ S = 1..Cardinality(S)
<1> DEFINE T == {m \in Nat : m + 1 \notin S}
<1>1. n \in T
  OBVIOUS
<1>2. PICK m \in T : \A k \in T : m <= k
  BY <1>1, LeastNat
<1>3. m \in 0..n
  BY <1>1, <1>2
<1>4. ASSUME NEW j \in 1..m PROVE j \in S
  <2>1. j - 1 \in Nat /\ j - 1 \notin T
    BY <1>2, <1>3
  <2> QED
    BY <2>1
<1>5. ASSUME NEW j \in S PROVE j \in 1..m
  BY <1>2, <1>3
<1>6. S = 1..m
  BY <1>4, <1>5
<1>7. Cardinality(1..m) = m
  BY <1>3, FS_Interval
<1> QED
  BY <1>3, <1>6, <1>7

(***************************************************************************)
(* The loop of uptimePct.                                                  *)
(***************************************************************************)

\* g lists the states of a loop: g[i] is the one after i steps.
IsTrace(g, n, start, step) ==
  g[0] = start /\ \A i \in 1..n : g[i] = step[<<i, g[i - 1]>>]

\* A loop of n steps has a trace.
LEMMA LoopTrace ==
  ASSUME NEW S, NEW n \in Nat, NEW start \in S, NEW step \in [(1..n) \X S -> S]
  PROVE  \E g \in [0..n -> S] : IsTrace(g, n, start, step)
<1> DEFINE Trace(m, g) == /\ g[0] = start
                          /\ \A i \in 1..m : g[i] = step[<<i, g[i - 1]>>]
           T == {m \in Nat : m <= n => \E g \in [0..m -> S] : Trace(m, g)}
<1>1. 0 \in T
  <2>1. [i \in 0..0 |-> start] \in [0..0 -> S] /\ Trace(0, [i \in 0..0 |-> start])
    OBVIOUS
  <2> QED
    BY <2>1
<1>2. ASSUME NEW m \in Nat, m \in T PROVE m + 1 \in T
  <2>1. SUFFICES ASSUME m + 1 <= n
                 PROVE  \E g \in [0..(m + 1) -> S] : Trace(m + 1, g)
    OBVIOUS
  <2>2. PICK g \in [0..m -> S] : Trace(m, g)
    BY <1>2, <2>1
  <2> DEFINE h == [i \in 0..(m + 1) |-> IF i <= m THEN g[i] ELSE step[<<m + 1, g[m]>>]]
  <2>3. h \in [0..(m + 1) -> S]
    <3>1. g[m] \in S /\ m + 1 \in 1..n
      BY <2>1
    <3>2. step[<<m + 1, g[m]>>] \in S
      BY <3>1
    <3> QED
      BY <3>2
  <2>4. Trace(m + 1, h)
    <3>1. h[0] = start
      BY <2>2
    <3>2. ASSUME NEW i \in 1..(m + 1) PROVE h[i] = step[<<i, h[i - 1]>>]
      <4>1. h[i - 1] = g[i - 1]
        OBVIOUS
      <4>2. CASE i <= m
        BY <2>2, <4>1, <4>2
      <4>3. CASE i = m + 1
        <5>1. h[i] = step[<<m + 1, g[m]>>] /\ i - 1 = m
          BY <4>3
        <5> QED
          BY <4>1, <4>3, <5>1
      <4> QED
        BY <4>2, <4>3
    <3> QED
      BY <3>1, <3>2
  <2> QED
    BY <2>3, <2>4
<1>3. n \in T
  <2> HIDE DEF T
  <2> QED
    BY <1>1, <1>2, SetInduction
<1> QED
  BY <1>3 DEF IsTrace

Events == [t : Nat, u : BOOLEAN]

LoopStates == [dur : Int, cursor : Int, u : BOOLEAN]

\* The log is in the order of time.
Sorted(log) == \A i, j \in 1..Len(log) : i <= j => log[i].t <= log[j].t

\* The loop does nothing at event i.
Skipped(log, i) == log[i].t <= From(log) \/ \E j \in 1..i : log[j].t >= now

Entry(log) == [dur |-> 0, cursor |-> From(log), u |-> Entering(log)]

Advance(log, i, w) ==
  [dur |-> w.dur + (IF w.u THEN log[i].t - w.cursor ELSE 0),
   cursor |-> log[i].t, u |-> log[i].u]

\* The window starts at the first event or later, and not in the future.
LEMMA FromFacts ==
  ASSUME NEW log \in Seq(Events), log # <<>>, now \in Nat
  PROVE  /\ From(log) \in Int
         /\ log[1] \in Events
         /\ log[1].t <= From(log)
         /\ log[1].t <= now => From(log) <= now
<1>1. log[1] \in Events
  OBVIOUS
<1> QED
  BY <1>1, TrafficAssumption DEF From, Events

\* In an ordered log, the events up to an instant are the first so many.
LEMMA UpTo ==
  ASSUME NEW log \in Seq(Events), Sorted(log), NEW x \in Int
  PROVE  LET past == {i \in 1..Len(log) : log[i].t <= x}
         IN  /\ Cardinality(past) \in 0..Len(log)
             /\ past = 1..Cardinality(past)
<1> DEFINE past == {i \in 1..Len(log) : log[i].t <= x}
<1>1. \A i \in 1..Len(log) : log[i] \in Events
  OBVIOUS
<1>2. ASSUME NEW i \in past, NEW j \in 1..i PROVE j \in past
  BY <1>1 DEF Sorted, Events
<1> HIDE DEF past
<1>3. past \in SUBSET (1..Len(log))
  BY DEF past
<1>4. Cardinality(past) \in 0..Len(log) /\ past = 1..Cardinality(past)
  BY <1>2, <1>3, InitialSegment
<1> QED
  BY <1>4 DEF past

\* The state entering the window is that of the last event before it.
LEMMA EnteringFacts ==
  ASSUME NEW log \in Seq(Events), log # <<>>, Sorted(log), now \in Nat
  PROVE  \E c \in 1..Len(log) :
           /\ Entering(log) = log[c].u
           /\ \A i \in 1..Len(log) : log[i].t <= From(log) <=> i <= c
<1> DEFINE past == {i \in 1..Len(log) : log[i].t <= From(log)}
           c    == Cardinality(past)
<1>1. From(log) \in Int /\ log[1].t <= From(log)
  BY FromFacts
<1>2. c \in 0..Len(log) /\ past = 1..c
  BY <1>1, UpTo
<1>3. 1 \in past
  BY <1>1
<1>4. c \in 1..Len(log)
  BY <1>2, <1>3
<1>5. {i \in 1..Len(log) : \A j \in 1..i : log[j].t <= From(log)} = past
  <2>1. ASSUME NEW i \in past, NEW j \in 1..i PROVE log[j].t <= From(log)
    <3>1. i \in 1..c
      BY <1>2
    <3>2. j \in 1..c
      BY <1>2, <3>1
    <3>3. j \in past
      BY <1>2, <3>2
    <3> QED
      BY <3>3
  <2> QED
    BY <2>1
<1>6. Entering(log) = log[c].u
  BY <1>3, <1>5 DEF Entering
<1>7. \A i \in 1..Len(log) : log[i].t <= From(log) <=> i <= c
  BY <1>2, <1>4
<1> QED
  BY <1>4, <1>6, <1>7

\* Walk is the trace of the loop: its recursion has a solution.
LEMMA WalkTrace ==
  ASSUME NEW log \in Seq(Events), log # <<>>, Sorted(log), now \in Nat
  PROVE  /\ Walk(log)[0] = Entry(log)
         /\ \A i \in 1..Len(log) :
              Walk(log)[i] = IF Skipped(log, i) THEN Walk(log)[i - 1]
                             ELSE Advance(log, i, Walk(log)[i - 1])
<1> DEFINE n == Len(log)
           step == [a \in (1..n) \X LoopStates |->
                      IF Skipped(log, a[1]) THEN a[2] ELSE Advance(log, a[1], a[2])]
           Def(g) == [i \in 0..n |->
                        IF i = 0 THEN Entry(log)
                        ELSE IF Skipped(log, i) THEN g[i - 1]
                        ELSE Advance(log, i, g[i - 1])]
<1>1. Entry(log) \in LoopStates
  <2>1. PICK c \in 1..n : Entering(log) = log[c].u
    BY EnteringFacts
  <2>2. Entering(log) \in BOOLEAN
    <3>1. log[c] \in Events
      BY <2>1
    <3> QED
      BY <2>1, <3>1 DEF Events
  <2>3. From(log) \in Int
    BY FromFacts
  <2> QED
    BY <2>2, <2>3 DEF Entry, LoopStates
<1>2. ASSUME NEW i \in 1..n, NEW w \in LoopStates PROVE Advance(log, i, w) \in LoopStates
  <2>1. log[i] \in Events
    OBVIOUS
  <2> QED
    BY <2>1 DEF Advance, LoopStates, Events
<1>3. step \in [(1..n) \X LoopStates -> LoopStates]
  BY <1>2
<1>4. PICK g \in [0..n -> LoopStates] : IsTrace(g, n, Entry(log), step)
  <2>1. n \in Nat
    OBVIOUS
  <2> HIDE DEF step, n, Def
  <2> QED
    BY <1>1, <1>3, <2>1, LoopTrace
<1>5. ASSUME NEW i \in 1..n
      PROVE  g[i] = IF Skipped(log, i) THEN g[i - 1] ELSE Advance(log, i, g[i - 1])
  <2>1. <<i, g[i - 1]>> \in (1..n) \X LoopStates
    <3>1. i - 1 \in 0..n
      OBVIOUS
    <3>2. g[i - 1] \in LoopStates
      BY <3>1
    <3> QED
      BY <3>2
  <2> QED
    BY <1>4, <2>1 DEF IsTrace
<1>6. g = Def(g)
  <2> HIDE DEF step
  <2> QED
    BY <1>4, <1>5 DEF IsTrace
<1>7. Walk(log) = Def(Walk(log))
  <2>1. Walk(log) = CHOOSE h : h = Def(h)
    BY DEF Walk, Skipped, Entry, Advance
  <2> HIDE DEF Def
  <2> QED
    BY <1>6, <2>1
<1> HIDE DEF step
<1>8. Walk(log)[0] = Entry(log)
  BY <1>7
<1>9. ASSUME NEW i \in 1..n
      PROVE  Walk(log)[i] = IF Skipped(log, i) THEN Walk(log)[i - 1]
                            ELSE Advance(log, i, Walk(log)[i - 1])
  <2> DEFINE w == Walk(log)
  <2>1. w = Def(w)
    BY <1>7
  <2> HIDE DEF w
  <2>2. w[i] = Def(w)[i] /\ i \in 0..n /\ i # 0
    <3>1. i \in 0..n /\ i # 0
      OBVIOUS
    <3> HIDE DEF Def
    <3> QED
      BY <2>1, <3>1
  <2>3. w[i] = IF Skipped(log, i) THEN w[i - 1] ELSE Advance(log, i, w[i - 1])
    BY <2>2
  <2> QED
    BY <2>3 DEF w
<1> QED
  BY <1>8, <1>9

\* An ordered log says of an instant what its last event before it says.
LEMMA StateAt ==
  ASSUME NEW log \in Seq(Events), Sorted(log), NEW x \in Int,
         NEW j \in 1..Len(log), log[j].t <= x,
         \A k \in 1..Len(log) : k > j => log[k].t > x
  PROVE  UpAt(log, x) <=> log[j].u
<1> DEFINE past == {i \in 1..Len(log) : log[i].t <= x}
<1>0. \A i \in 1..Len(log) : log[i] \in Events
  OBVIOUS
<1>1. Cardinality(past) \in 0..Len(log) /\ past = 1..Cardinality(past)
  BY UpTo
<1>2. j \in past
  OBVIOUS
<1>3. \A k \in past : k <= j
  BY <1>0 DEF Events
<1> DEFINE c == Cardinality(past)
<1>4. c \in Nat /\ past = 1..c
  BY <1>1
<1> HIDE DEF past, c
<1>5. c = j
  <2>1. 1 <= j /\ j <= c
    BY <1>2, <1>4
  <2>2. c \in past
    BY <1>4, <2>1
  <2> QED
    BY <1>3, <1>4, <2>1, <2>2
<1>6. UpAt(log, x) <=> past # {} /\ log[c].u
  BY DEF UpAt, past, c
<1> QED
  BY <1>2, <1>5, <1>6

\* How many instants of U lie from a up to b, b excluded.
CountIn(U, a, b) == Cardinality({x \in a..(b - 1) : x \in U})

\* An interval of instants up adds its length to the count, one of instants
\* down adds nothing.
LEMMA CountUp ==
  ASSUME NEW U, NEW a \in Int, NEW b \in Int, NEW c \in Int, a <= b, b <= c,
         NEW v \in BOOLEAN, \A x \in b..(c - 1) : x \in U <=> v
  PROVE  CountIn(U, a, c) = CountIn(U, a, b) + (IF v THEN c - b ELSE 0)
<1> DEFINE A == {x \in a..(b - 1) : x \in U}
           B == {x \in b..(c - 1) : x \in U}
           C == {x \in a..(c - 1) : x \in U}
<1>1. C = A \cup B /\ A \cap B = {}
  OBVIOUS
<1>2. IsFiniteSet(a..(b - 1)) /\ IsFiniteSet(b..(c - 1))
  BY FS_Interval
<1>3. IsFiniteSet(A) /\ Cardinality(A) \in Nat
  BY <1>2, FS_Subset, FS_CardinalityType
<1>4. IsFiniteSet(B) /\ Cardinality(B) = IF v THEN c - b ELSE 0
  <2>1. CASE v
    <3>1. B = b..(c - 1)
      BY <2>1
    <3>2. Cardinality(b..(c - 1)) = IF b > c - 1 THEN 0 ELSE (c - 1) - b + 1
      BY FS_Interval
    <3>3. Cardinality(b..(c - 1)) = c - b
      BY <3>2
    <3> QED
      BY <1>2, <2>1, <3>1, <3>3
  <2>2. CASE ~v
    <3>1. B = {}
      BY <2>2
    <3> QED
      BY <2>2, <3>1, FS_EmptySet
  <2> QED
    BY <2>1, <2>2
<1> HIDE DEF A, B, C
<1>5. Cardinality(C) = Cardinality(A) + Cardinality(B)
  <2>1. Cardinality(A \cup B) = Cardinality(A) + Cardinality(B) - Cardinality(A \cap B)
    BY <1>3, <1>4, FS_Union
  <2>2. Cardinality(A \cap B) = 0
    BY <1>1, FS_EmptySet
  <2>3. Cardinality(B) \in Nat
    BY <1>4, FS_CardinalityType
  <2> QED
    BY <1>1, <1>3, <2>1, <2>2, <2>3
<1>6. Cardinality(C) = Cardinality(A) + (IF v THEN c - b ELSE 0)
  BY <1>4, <1>5
<1> QED
  BY <1>6 DEF A, C, CountIn

\* The instants at which a log says up.
Ups(log) == {x \in Int : UpAt(log, x)}

\* Event j is the one whose state the loop carries after i events: none that
\* the loop should have taken lies between it and the next.
Carries(log, i, w, j) ==
  /\ w.u = log[j].u /\ log[j].t <= w.cursor
  /\ w.cursor = From(log) \/ (j <= i /\ w.cursor = log[j].t)
  /\ \A k \in 1..Len(log) : k > j => log[k].t > From(log) /\ (k <= i => log[k].t >= now)

\* After i events the loop has counted the instants up before its cursor.
LoopInv(log, i, w) ==
  /\ w \in LoopStates
  /\ w.cursor \in From(log)..now
  /\ w.dur = CountIn(Ups(log), From(log), w.cursor)
  /\ \E j \in 1..Len(log) : Carries(log, i, w, j)

\* From the cursor up to an instant that no later event precedes, the state is
\* the one the loop carries.
LEMMA CarriedState ==
  ASSUME NEW log \in Seq(Events), log # <<>>, Sorted(log), now \in Nat,
         NEW i \in 0..Len(log), NEW w \in LoopStates, w.cursor \in From(log)..now,
         NEW j \in 1..Len(log), Carries(log, i, w, j),
         NEW c \in Int, w.cursor <= c, c <= now,
         \A k \in 1..Len(log) : k > i /\ k > j => log[k].t >= c
  PROVE  CountIn(Ups(log), From(log), c)
           = CountIn(Ups(log), From(log), w.cursor) + (IF w.u THEN c - w.cursor ELSE 0)
<1>1. From(log) \in Int /\ w.cursor \in Int /\ From(log) <= w.cursor
  BY FromFacts DEF LoopStates
<1>2. \A k \in 1..Len(log) : log[k] \in Events
  OBVIOUS
<1>3. ASSUME NEW x \in w.cursor..(c - 1) PROVE x \in Ups(log) <=> w.u
  <2>1. x \in Int /\ log[j].t <= x
    BY <1>1, <1>2 DEF Carries, Events
  <2>2. ASSUME NEW k \in 1..Len(log), k > j PROVE log[k].t > x
    <3>1. CASE k <= i
      <4>1. log[k].t >= now /\ log[k].t \in Int
        BY <1>2, <2>2, <3>1 DEF Carries, Events
      <4> QED
        BY <1>1, <4>1
    <3>2. CASE k > i
      <4>1. log[k].t >= c /\ log[k].t \in Int
        BY <1>2, <2>2, <3>2 DEF Events
      <4> QED
        BY <1>1, <4>1
    <3> QED
      BY <3>1, <3>2
  <2>3. UpAt(log, x) <=> log[j].u
    BY <2>1, <2>2, StateAt
  <2> QED
    BY <2>1, <2>3 DEF Carries, Ups
<1>4. w.u \in BOOLEAN
  BY DEF LoopStates
<1> QED
  BY <1>1, <1>3, <1>4, CountUp

LEMMA LoopStart ==
  ASSUME NEW log \in Seq(Events), log # <<>>, Sorted(log), now \in Nat, log[1].t <= now
  PROVE  LoopInv(log, 0, Entry(log))
<1>1. PICK c \in 1..Len(log) :
        /\ Entering(log) = log[c].u
        /\ \A i \in 1..Len(log) : log[i].t <= From(log) <=> i <= c
  BY EnteringFacts
<1>2. From(log) \in Int /\ From(log) <= now
  BY FromFacts
<1>3. \A k \in 1..Len(log) : log[k] \in Events
  OBVIOUS
<1>4. Entry(log) \in LoopStates
  BY <1>1, <1>2, <1>3 DEF Entry, LoopStates, Events
<1>5. CountIn(Ups(log), From(log), From(log)) = 0
  <2>1. {x \in From(log)..(From(log) - 1) : x \in Ups(log)} = {}
    BY <1>2
  <2> QED
    BY <2>1, FS_EmptySet DEF CountIn
<1>6. Carries(log, 0, Entry(log), c)
  BY <1>1, <1>2, <1>3 DEF Carries, Entry, Events
<1> QED
  BY <1>2, <1>4, <1>5, <1>6 DEF LoopInv, Entry

LEMMA LoopStep ==
  ASSUME NEW log \in Seq(Events), log # <<>>, Sorted(log), now \in Nat,
         NEW i \in 1..Len(log), NEW w, LoopInv(log, i - 1, w)
  PROVE  LoopInv(log, i, IF Skipped(log, i) THEN w ELSE Advance(log, i, w))
<1>1. PICK j \in 1..Len(log) : Carries(log, i - 1, w, j)
  BY DEF LoopInv
<1>2. \A k \in 1..Len(log) : log[k] \in Events
  OBVIOUS
<1>3. From(log) \in Int
  BY FromFacts
<1>4. CASE Skipped(log, i)
  <2>1. log[i].t <= From(log) \/ log[i].t >= now
    BY <1>2, <1>4 DEF Skipped, Sorted, Events
  <2>2. Carries(log, i, w, j)
    <3>1. \A k \in 1..Len(log) : k > j => log[k].t > From(log) /\ (k <= i => log[k].t >= now)
      BY <1>1, <1>2, <1>3, <2>1 DEF Carries, Events
    <3> QED
      BY <1>1, <3>1 DEF Carries
  <2> QED
    BY <1>4, <2>2 DEF LoopInv
<1>5. CASE ~Skipped(log, i)
  <2> DEFINE v == Advance(log, i, w)
  <2>1. From(log) < log[i].t /\ log[i].t < now /\ log[i].t \in Int
    BY <1>2, <1>3, <1>5 DEF Skipped, Events
  <2>2. w \in LoopStates /\ w.cursor \in From(log)..now /\ w.cursor <= log[i].t
    BY <1>1, <1>2, <1>3, <2>1 DEF LoopInv, Carries, Sorted, Events
  <2>3. v \in LoopStates
    BY <1>2, <2>2 DEF Advance, LoopStates, Events
  <2>4. v.cursor = log[i].t /\ v.u = log[i].u
    BY DEF Advance
  <2>5. v.dur = w.dur + (IF w.u THEN log[i].t - w.cursor ELSE 0)
    BY DEF Advance
  <2>6. \A k \in 1..Len(log) : k > i - 1 /\ k > j => log[k].t >= log[i].t
    BY <1>2 DEF Sorted, Events
  <2>7. CountIn(Ups(log), From(log), log[i].t)
          = CountIn(Ups(log), From(log), w.cursor) + (IF w.u THEN log[i].t - w.cursor ELSE 0)
    <3> DEFINE c == log[i].t
               p == i - 1
    <3>1. p \in 0..Len(log) /\ c \in Int /\ w.cursor <= c /\ c <= now
      BY <2>1, <2>2
    <3>2. \A k \in 1..Len(log) : k > p /\ k > j => log[k].t >= c
      BY <2>6
    <3>3. Carries(log, p, w, j)
      BY <1>1
    <3> HIDE DEF c, p
    <3>4. CountIn(Ups(log), From(log), c)
            = CountIn(Ups(log), From(log), w.cursor) + (IF w.u THEN c - w.cursor ELSE 0)
      BY <2>2, <3>1, <3>2, <3>3, CarriedState
    <3> QED
      BY <3>4 DEF c
  <2>8. v.dur = CountIn(Ups(log), From(log), v.cursor)
    BY <2>4, <2>5, <2>7 DEF LoopInv
  <2>9. Carries(log, i, v, i)
    BY <1>2, <1>3, <2>1, <2>4 DEF Carries, Sorted, Events
  <2> HIDE DEF v
  <2>10. LoopInv(log, i, v)
    BY <1>3, <2>1, <2>3, <2>4, <2>8, <2>9 DEF LoopInv
  <2> QED
    BY <1>5, <2>10 DEF v
<1> QED
  BY <1>4, <1>5

\* What uptimePct computes, for a log of any length: the number of instants
\* of the window at which the log says up.
LEMMA UpTimeCounts ==
  ASSUME NEW log \in Seq(Events), log # <<>>, Sorted(log), now \in Nat, log[1].t <= now
  PROVE  UpTime(log) = CountIn(Ups(log), From(log), now)
<1> DEFINE n == Len(log)
           w == Walk(log)
           T == {i \in Nat : i <= n => LoopInv(log, i, w[i])}
<1>1. w[0] = Entry(log)
  BY WalkTrace
<1>2. \A i \in 1..n : w[i] = IF Skipped(log, i) THEN w[i - 1] ELSE Advance(log, i, w[i - 1])
  BY WalkTrace
<1>3. n \in Nat
  OBVIOUS
<1> HIDE DEF w
<1>4. 0 \in T
  BY <1>1, LoopStart
<1>5. ASSUME NEW i \in Nat, i \in T PROVE i + 1 \in T
  <2>1. SUFFICES ASSUME i + 1 <= n PROVE LoopInv(log, i + 1, w[i + 1])
    OBVIOUS
  <2> DEFINE k == i + 1
  <2>2. k \in 1..n /\ k - 1 = i
    BY <1>3, <2>1
  <2>3. LoopInv(log, k - 1, w[k - 1])
    BY <1>3, <1>5, <2>1, <2>2
  <2> HIDE DEF k
  <2>4. LoopInv(log, k, w[k])
    BY <1>2, <2>2, <2>3, LoopStep
  <2> QED
    BY <2>4 DEF k
<1>6. LoopInv(log, n, w[n])
  <2>1. Nat \subseteq T
    <3> HIDE DEF T
    <3> QED
      BY <1>4, <1>5, SetInduction
  <2> QED
    BY <1>3, <2>1
<1> DEFINE e == w[n]
<1>7. LoopInv(log, n, e)
  BY <1>6
<1>8. UpTime(log) = e.dur + (IF e.u THEN now - e.cursor ELSE 0)
  BY DEF UpTime, w
<1> HIDE DEF e
<1>9. PICK j \in 1..Len(log) : Carries(log, n, e, j)
  BY <1>7 DEF LoopInv
<1>10. /\ e \in LoopStates /\ e.cursor \in From(log)..now
       /\ e.dur = CountIn(Ups(log), From(log), e.cursor)
  BY <1>7 DEF LoopInv
<1>11. e.cursor <= now
  BY <1>10, FromFacts
<1>12. CountIn(Ups(log), From(log), now)
         = CountIn(Ups(log), From(log), e.cursor) + (IF e.u THEN now - e.cursor ELSE 0)
  <2>1. n \in 0..Len(log) /\ now \in Int /\ now <= now
    OBVIOUS
  <2>2. \A k \in 1..Len(log) : k > n /\ k > j => log[k].t >= now
    OBVIOUS
  <2> HIDE DEF n
  <2> QED
    BY <1>9, <1>10, <1>11, <2>1, <2>2, CarriedState
<1> QED
  BY <1>8, <1>10, <1>12

(***************************************************************************)
(* Cutting a log.                                                          *)
(***************************************************************************)

\* What is left of f without its first k - 1 events.
SuffixFrom(f, log, k) ==
  /\ Len(log) + k = Len(f) + 1
  /\ \A i \in 1..Len(log) : log[i] = f[i + k - 1]

\* Nothing was cut, or the first event left is older than the retention, or
\* the log is at its cap.
CutAt(f, log, k, z) ==
  /\ SuffixFrom(f, log, k)
  /\ \/ k = 1
     \/ k <= Len(f) /\ (f[k].t < z - Keep \/ Len(log) >= MaxLog)

InOrder(log, z) == Sorted(log) /\ \A i \in 1..Len(log) : log[i].t <= z

\* The tail of a log from position k.
LEMMA SubSeqIsSuffix ==
  ASSUME NEW log \in Seq(Events), NEW k \in 1..Len(log)
  PROVE  /\ SubSeq(log, k, Len(log)) \in Seq(Events)
         /\ SuffixFrom(log, SubSeq(log, k, Len(log)), k)
BY DEF SuffixFrom

\* A suffix of a suffix is a suffix.
LEMMA SuffixTrans ==
  ASSUME NEW f \in Seq(Events), NEW a \in Seq(Events), NEW b \in Seq(Events),
         NEW k \in Nat \ {0}, NEW m \in Nat \ {0},
         SuffixFrom(f, a, k), SuffixFrom(a, b, m)
  PROVE  SuffixFrom(f, b, k + m - 1)
<1>1. Len(b) + (k + m - 1) = Len(f) + 1
  BY DEF SuffixFrom
<1>2. ASSUME NEW i \in 1..Len(b) PROVE b[i] = f[i + (k + m - 1) - 1]
  <2> DEFINE j == i + m - 1
  <2>1. j \in 1..Len(a) /\ b[i] = a[j]
    BY DEF SuffixFrom
  <2>2. a[j] = f[j + k - 1]
    BY <2>1 DEF SuffixFrom
  <2>3. j + k - 1 = i + (k + m - 1) - 1
    OBVIOUS
  <2> QED
    BY <2>1, <2>2, <2>3
<1> QED
  BY <1>1, <1>2 DEF SuffixFrom

\* A suffix of an ordered log is ordered.
LEMMA SuffixInOrder ==
  ASSUME NEW f \in Seq(Events), NEW log \in Seq(Events), NEW k \in Nat \ {0},
         SuffixFrom(f, log, k), InOrder(f, now)
  PROVE  InOrder(log, now)
<1>1. ASSUME NEW i \in 1..Len(log)
      PROVE  i + k - 1 \in 1..Len(f) /\ log[i] = f[i + k - 1]
  BY DEF SuffixFrom
<1>2. ASSUME NEW i \in 1..Len(log), NEW j \in 1..Len(log), i <= j
      PROVE  log[i].t <= log[j].t
  <2>1. i + k - 1 <= j + k - 1
    BY <1>2
  <2> QED
    BY <1>1, <2>1 DEF InOrder, Sorted
<1>3. ASSUME NEW i \in 1..Len(log) PROVE log[i].t <= now
  BY <1>1 DEF InOrder
<1> QED
  BY <1>2, <1>3 DEF InOrder, Sorted

\* Pruning keeps the last event before the cutoff and all that follow.
LEMMA PruneCuts ==
  ASSUME NEW log \in Seq(Events), now \in Nat
  PROVE  /\ Prune(log) \in Seq(Events)
         /\ \E k \in Nat \ {0} :
              /\ SuffixFrom(log, Prune(log), k)
              /\ k = 1 \/ (k <= Len(log) /\ log[k].t < now - Keep)
<1> DEFINE old == {i \in 1..Len(log) : \A j \in 1..i : log[j].t < now - Keep}
           c   == Cardinality(old)
<1>1. CASE old = {}
  <2>1. Prune(log) = log
    BY <1>1 DEF Prune
  <2>2. SuffixFrom(log, log, 1)
    BY DEF SuffixFrom
  <2> QED
    BY <2>1, <2>2
<1>2. CASE old # {}
  <2>1. old \in SUBSET (1..Len(log)) /\ \A i \in old : \A j \in 1..i : j \in old
    OBVIOUS
  <2>2. c \in 0..Len(log) /\ old = 1..c
    <3>1. Len(log) \in Nat
      OBVIOUS
    <3> HIDE DEF old
    <3> QED
      BY <2>1, <3>1, InitialSegment
  <2>3. c \in 1..Len(log) /\ c \in old
    <3> HIDE DEF old, c
    <3> QED
      BY <1>2, <2>2
  <2>4. Prune(log) = SubSeq(log, c, Len(log))
    BY <1>2 DEF Prune
  <2>5. log[c].t < now - Keep
    BY <2>3
  <2> HIDE DEF c, old
  <2> QED
    BY <2>3, <2>4, <2>5, SubSeqIsSuffix
<1> QED
  BY <1>1, <1>2

\* Capping keeps the last MaxLog events.
LEMMA CapCuts ==
  ASSUME NEW log \in Seq(Events)
  PROVE  /\ Cap(log) \in Seq(Events)
         /\ \E k \in Nat \ {0} :
              /\ SuffixFrom(log, Cap(log), k)
              /\ k = 1 \/ (k <= Len(log) /\ Len(Cap(log)) = MaxLog)
<1>0. MaxLog \in Nat /\ MaxLog > 1
  BY TrafficAssumption
<1>1. CASE Len(log) > MaxLog
  <2> DEFINE k == Len(log) - MaxLog + 1
  <2>1. k \in 1..Len(log)
    BY <1>0, <1>1
  <2>2. Cap(log) = SubSeq(log, k, Len(log))
    BY <1>1 DEF Cap
  <2>3. SuffixFrom(log, Cap(log), k) /\ Cap(log) \in Seq(Events)
    BY <2>1, <2>2, SubSeqIsSuffix
  <2>4. Len(Cap(log)) = MaxLog
    BY <1>0, <2>1, <2>3 DEF SuffixFrom
  <2> QED
    BY <2>1, <2>3, <2>4
<1>2. CASE ~(Len(log) > MaxLog)
  <2>1. Cap(log) = log
    BY <1>2 DEF Cap
  <2>2. SuffixFrom(log, log, 1)
    BY DEF SuffixFrom
  <2> QED
    BY <2>1, <2>2
<1> QED
  BY <1>1, <1>2

\* A pass of the saver over a log that was cut before.
LEMMA SaverCuts ==
  ASSUME NEW f \in Seq(Events), NEW log \in Seq(Events), now \in Nat,
         NEW k \in Nat \ {0}, CutAt(f, log, k, now)
  PROVE  /\ Cap(Prune(log)) \in Seq(Events)
         /\ \E m \in Nat \ {0} : SuffixFrom(log, Cap(Prune(log)), m)
         /\ \E m \in Nat \ {0} : CutAt(f, Cap(Prune(log)), m, now)
<1> DEFINE a == Prune(log)
           b == Cap(a)
<1>1. a \in Seq(Events)
  BY PruneCuts
<1>2. PICK m \in Nat \ {0} : /\ SuffixFrom(log, a, m)
                             /\ m = 1 \/ (m <= Len(log) /\ log[m].t < now - Keep)
  BY PruneCuts
<1>3. b \in Seq(Events)
  BY <1>1, CapCuts
<1>4. PICK p \in Nat \ {0} : /\ SuffixFrom(a, b, p)
                             /\ p = 1 \/ (p <= Len(a) /\ Len(b) = MaxLog)
  BY <1>1, CapCuts
<1> HIDE DEF a, b
<1>5. SuffixFrom(log, b, m + p - 1) /\ m + p - 1 \in Nat \ {0}
  BY <1>1, <1>2, <1>3, <1>4, SuffixTrans
<1> DEFINE r == m + p - 1
           q == k + r - 1
<1>6. SuffixFrom(f, log, k)
  BY DEF CutAt
<1>7. r \in Nat \ {0} /\ SuffixFrom(log, b, r)
  BY <1>5
<1>8. SuffixFrom(f, b, q) /\ q \in Nat \ {0}
  <2> HIDE DEF r
  <2> QED
    BY <1>3, <1>6, <1>7, SuffixTrans
<1>9. CutAt(f, b, q, now)
  <2>0. MaxLog \in Nat /\ MaxLog > 1
    BY TrafficAssumption
  <2>1. CASE p # 1
    <3>1. Len(b) = MaxLog
      BY <1>4, <2>1
    <3>2. q <= Len(f)
      BY <1>3, <1>8, <2>0, <3>1 DEF SuffixFrom
    <3> QED
      BY <1>8, <2>0, <3>1, <3>2 DEF CutAt
  <2>2. CASE p = 1 /\ m # 1
    <3>1. q = m + k - 1 /\ m \in 1..Len(log) /\ log[m].t < now - Keep
      BY <1>2, <2>2
    <3>2. log[m] = f[q] /\ q <= Len(f)
      BY <1>6, <3>1 DEF SuffixFrom
    <3> QED
      BY <1>8, <3>1, <3>2 DEF CutAt
  <2>3. CASE p = 1 /\ m = 1
    <3>1. q = k /\ Len(b) = Len(log)
      BY <1>2, <1>3, <1>4, <1>1, <2>3 DEF SuffixFrom
    <3> QED
      BY <1>8, <3>1 DEF CutAt
  <2> QED
    BY <2>1, <2>2, <2>3
<1> HIDE DEF r, q
<1>10. /\ b \in Seq(Events)
       /\ \E i \in Nat \ {0} : SuffixFrom(log, b, i)
       /\ \E i \in Nat \ {0} : CutAt(f, b, i, now)
  BY <1>3, <1>7, <1>8, <1>9
<1> QED
  BY <1>10 DEF a, b

\* A new event at the end of an ordered log.
LEMMA AppendFacts ==
  ASSUME NEW log \in Seq(Events), NEW e \in Events
  PROVE  /\ Append(log, e) \in Seq(Events)
         /\ Len(Append(log, e)) = Len(log) + 1
         /\ \A i \in 1..Len(log) : Append(log, e)[i] = log[i]
         /\ Append(log, e)[Len(log) + 1] = e
OBVIOUS

LEMMA AppendInOrder ==
  ASSUME NEW log \in Seq(Events), InOrder(log, now), NEW e \in Events, e.t = now
  PROVE  InOrder(Append(log, e), now)
<1> DEFINE new == Append(log, e)
<1>1. /\ Len(new) = Len(log) + 1
      /\ \A i \in 1..Len(log) : new[i] = log[i]
      /\ new[Len(log) + 1] = e
  BY AppendFacts
<1>2. \A i \in 1..Len(new) : i \in 1..Len(log) \/ i = Len(log) + 1
  BY <1>1
<1> HIDE DEF new
<1>3. ASSUME NEW i \in 1..Len(new) PROVE new[i].t <= now
  BY <1>1, <1>2 DEF InOrder, Events
<1>4. ASSUME NEW i \in 1..Len(new), NEW j \in 1..Len(new), i <= j
      PROVE  new[i].t <= new[j].t
  <2>1. CASE j = Len(log) + 1
    BY <1>1, <1>3, <2>1
  <2>2. CASE j \in 1..Len(log)
    <3>1. i \in 1..Len(log)
      BY <1>4, <2>2
    <3> QED
      BY <1>1, <1>4, <2>2, <3>1 DEF InOrder, Sorted
  <2> QED
    BY <1>2, <2>1, <2>2
<1>5. InOrder(new, now)
  BY <1>3, <1>4 DEF InOrder, Sorted
<1> QED
  BY <1>5 DEF new

\* The same event at the end of the complete log and of what is left of it.
LEMMA AppendCut ==
  ASSUME NEW f \in Seq(Events), NEW log \in Seq(Events), NEW e \in Events,
         NEW k \in 1..(Len(f) + 1), CutAt(f, log, k, now)
  PROVE  CutAt(Append(f, e), Append(log, e), k, now)
<1> DEFINE F == Append(f, e)
           L == Append(log, e)
<1>1. /\ Len(F) = Len(f) + 1
      /\ \A i \in 1..Len(f) : F[i] = f[i]
      /\ F[Len(f) + 1] = e
  BY AppendFacts
<1>2. /\ Len(L) = Len(log) + 1
      /\ \A i \in 1..Len(log) : L[i] = log[i]
      /\ L[Len(log) + 1] = e
  BY AppendFacts
<1> HIDE DEF F, L
<1>3. SuffixFrom(F, L, k)
  <2>1. Len(L) + k = Len(F) + 1
    BY <1>1, <1>2 DEF CutAt, SuffixFrom
  <2>2. ASSUME NEW i \in 1..Len(L) PROVE L[i] = F[i + k - 1]
    <3>1. CASE i \in 1..Len(log)
      <4>1. log[i] = f[i + k - 1] /\ i + k - 1 \in 1..Len(f)
        BY <3>1 DEF CutAt, SuffixFrom
      <4> QED
        BY <1>1, <1>2, <3>1, <4>1
    <3>2. CASE i = Len(log) + 1
      BY <1>1, <1>2, <3>2 DEF CutAt, SuffixFrom
    <3> QED
      BY <1>2, <3>1, <3>2
  <2> QED
    BY <2>1, <2>2 DEF SuffixFrom
<1>4. k = 1 \/ (k <= Len(F) /\ (F[k].t < now - Keep \/ Len(L) >= MaxLog))
  BY <1>1, <1>2, TrafficAssumption DEF CutAt
<1>5. CutAt(F, L, k, now)
  BY <1>3, <1>4 DEF CutAt
<1> QED
  BY <1>5 DEF F, L

(***************************************************************************)
(* The invariant.                                                          *)
(***************************************************************************)

Entries == [known : BOOLEAN, bytes : Nat, dated : BOOLEAN, up : Seq(Events)]

StoreTypes ==
  /\ now \in Nat
  /\ {alive, dirty, failed, blank, saw, conn} \subseteq BOOLEAN
  /\ sv \in {"idle", "write"}
  /\ mem \in Entries /\ data \in Entries /\ file \in Entries
  /\ full \in Seq(Events)

\* Every log is in the order of time and has no event of the future.
OrderInv == /\ InOrder(mem.up, now) /\ InOrder(data.up, now)
            /\ InOrder(file.up, now) /\ InOrder(full, now)

\* The log in memory is the complete log but for old events.
CutInv == \E k \in 1..(Len(full) + 1) : CutAt(full, mem.up, k, now)

\* A snapshot is between the file and the memory, unless the file could not
\* be loaded: then it is anything up to the memory.
SaveInv ==
  /\ alive /\ ~blank => file.bytes <= mem.bytes
  /\ sv = "write" => /\ alive /\ data.bytes <= mem.bytes
                     /\ ~blank => file.bytes <= data.bytes

\* While the store is clean the snapshot being written is the store.
CleanInv ==
  /\ CleanIsSaved
  /\ sv = "write" /\ ~dirty => data = mem

StoreInv == StoreTypes /\ OrderInv /\ CutInv /\ SaveInv /\ CleanInv

LEMMA StoreInit == Init => StoreInv
<1> SUFFICES ASSUME Init PROVE StoreInv
  OBVIOUS
<1>1. Empty \in Entries /\ Empty.up = <<>> /\ <<>> \in Seq(Events)
  BY DEF Empty, Entries
<1>2. StoreTypes
  BY <1>1 DEF Init, StoreTypes
<1>3. InOrder(<<>>, now)
  BY DEF InOrder, Sorted
<1>4. OrderInv
  BY <1>1, <1>3 DEF Init, OrderInv
<1>5. CutAt(<<>>, <<>>, 1, now)
  BY DEF CutAt, SuffixFrom
<1>6. CutInv
  BY <1>1, <1>5 DEF Init, CutInv
<1>7. SaveInv /\ CleanInv
  <2>1. Empty.bytes \in Nat /\ Empty.bytes <= Empty.bytes
    BY DEF Empty
  <2> QED
    BY <2>1 DEF Init, SaveInv, CleanInv, CleanIsSaved
<1> QED
  BY <1>2, <1>4, <1>6, <1>7 DEF StoreInv

\* A step that leaves the logs and the clock alone keeps what is said of them.
LEMMA LogsUnchanged ==
  ASSUME OrderInv, CutInv, now' = now, mem'.up = mem.up, data'.up = data.up,
         file'.up = file.up, full' = full
  PROVE  OrderInv' /\ CutInv'
BY DEF OrderInv, CutInv

\* Time passes.
LEMMA LogsLater ==
  ASSUME StoreTypes, OrderInv, CutInv, now' = now + 1,
         UNCHANGED <<mem, data, file, full>>
  PROVE  OrderInv' /\ CutInv'
<1>1. ASSUME NEW log \in Seq(Events), InOrder(log, now) PROVE InOrder(log, now')
  <2>1. \A i \in 1..Len(log) : log[i] \in Events
    OBVIOUS
  <2> QED
    BY <1>1, <2>1 DEF InOrder, StoreTypes, Events
<1>2. /\ mem.up \in Seq(Events) /\ data.up \in Seq(Events)
      /\ file.up \in Seq(Events) /\ full \in Seq(Events)
  BY DEF StoreTypes, Entries
<1>3. /\ InOrder(mem.up, now') /\ InOrder(data.up, now')
      /\ InOrder(file.up, now') /\ InOrder(full, now')
  BY <1>1, <1>2 DEF OrderInv
<1>4. PICK k \in 1..(Len(full) + 1) : CutAt(full, mem.up, k, now)
  BY DEF CutInv
<1>5. CutAt(full, mem.up, k, now')
  <2>1. CASE k = 1
    BY <1>4, <2>1 DEF CutAt
  <2>2. CASE k # 1
    <3>1. k \in 1..Len(full)
      BY <1>2, <1>4, <2>2 DEF CutAt
    <3>2. full[k].t \in Nat
      <4>1. full[k] \in Events
        BY <1>2, <3>1
      <4> QED
        BY <4>1 DEF Events
    <3>3. full[k].t < now - Keep => full[k].t < now' - Keep
      BY <3>2, TrafficAssumption DEF StoreTypes
    <3> QED
      BY <1>4, <3>3 DEF CutAt
  <2> QED
    BY <2>1, <2>2
<1> QED
  BY <1>3, <1>4, <1>5 DEF OrderInv, CutInv

\* recordState appends to both logs or to neither.
LEMMA RecordKeepsLogs ==
  ASSUME StoreTypes, OrderInv, CutInv, NEW u \in BOOLEAN, RecordState(u),
         UNCHANGED <<now, data, file>>
  PROVE  /\ OrderInv' /\ CutInv'
         /\ mem' \in Entries /\ full' \in Seq(Events) /\ dirty' \in BOOLEAN
         /\ mem'.bytes = mem.bytes /\ mem'.known = mem.known
         /\ ~dirty' => mem' = mem /\ dirty' = dirty
<1>1. CASE Changed(mem.up, u)
  <2> DEFINE e == Event(u)
  <2>1. e \in Events /\ e.t = now
    BY DEF Event, Events, StoreTypes
  <2>2. mem.up \in Seq(Events) /\ full \in Seq(Events)
    BY DEF StoreTypes, Entries
  <2>3. /\ mem' = [mem EXCEPT !.up = Append(mem.up, e)]
        /\ full' = Append(full, e) /\ dirty' = TRUE
    BY <1>1 DEF RecordState
  <2> HIDE DEF e
  <2>4. Append(mem.up, e) \in Seq(Events) /\ Append(full, e) \in Seq(Events)
        /\ Len(Append(full, e)) = Len(full) + 1
    BY <2>1, <2>2, AppendFacts
  <2>5. /\ mem' \in Entries /\ mem'.up = Append(mem.up, e)
        /\ mem'.bytes = mem.bytes /\ mem'.known = mem.known
    BY <2>3, <2>4 DEF StoreTypes, Entries
  <2>6. InOrder(Append(mem.up, e), now) /\ InOrder(Append(full, e), now)
    BY <2>1, <2>2, AppendInOrder DEF OrderInv
  <2>7. PICK k \in 1..(Len(full) + 1) : CutAt(full, mem.up, k, now)
    BY DEF CutInv
  <2>8. CutAt(Append(full, e), Append(mem.up, e), k, now)
    BY <2>1, <2>2, <2>7, AppendCut
  <2>9. OrderInv'
    BY <2>3, <2>5, <2>6 DEF OrderInv
  <2>10. k \in 1..(Len(full') + 1)
    BY <2>2, <2>3, <2>4
  <2>11. CutInv'
    BY <2>3, <2>5, <2>8, <2>10 DEF CutInv
  <2> QED
    BY <2>3, <2>4, <2>5, <2>9, <2>11
<1>2. CASE ~Changed(mem.up, u)
  <2>1. UNCHANGED <<mem, full, dirty>>
    BY <1>2 DEF RecordState
  <2> QED
    BY <2>1, LogsUnchanged DEF StoreTypes
<1> QED
  BY <1>1, <1>2

LEMMA StoreStep == StoreInv /\ [Next]_vars => StoreInv'
<1> SUFFICES ASSUME StoreInv, [Next]_vars PROVE StoreInv'
  OBVIOUS
<1> USE DEF StoreInv
<1>0. /\ mem.up \in Seq(Events) /\ mem.bytes \in Nat /\ file.bytes \in Nat /\ data.bytes \in Nat
      /\ file.up \in Seq(Events) /\ data.up \in Seq(Events) /\ full \in Seq(Events)
  BY DEF StoreTypes, Entries
<1>e. Empty \in Entries /\ Empty.up = <<>> /\ <<>> \in Seq(Events)
      /\ InOrder(<<>>, now) /\ Empty.bytes = 0
  BY DEF Empty, Entries, InOrder, Sorted
<1>1. CASE Add
  <2>1. /\ mem' \in Entries /\ mem'.up = mem.up /\ mem'.bytes = mem.bytes + 1
    <3>1. mem' = [mem EXCEPT !.known = TRUE, !.bytes = mem.bytes + 1] /\ mem.bytes + 1 \in Nat
      BY <1>0, <1>1 DEF Add
    <3>2. mem \in Entries
      BY DEF StoreTypes
    <3> QED
      BY <3>1, <3>2 DEF Entries
  <2>2. StoreTypes'
    BY <1>1, <2>1 DEF Add, StoreTypes, procVars
  <2>3. OrderInv' /\ CutInv'
    BY <1>1, <2>1, LogsUnchanged DEF Add, procVars
  <2>4. SaveInv' /\ CleanInv'
    BY <1>0, <1>1, <2>1 DEF Add, procVars, SaveInv, CleanInv, CleanIsSaved
  <2> QED
    BY <2>2, <2>3, <2>4
<1>2. CASE SampleList
  <2>1. CASE conn
    <3>1. /\ mem' \in Entries /\ mem'.up = mem.up /\ mem'.bytes = mem.bytes /\ dirty' = TRUE
      BY <1>2, <2>1 DEF SampleList, StoreTypes, Entries
    <3>2. StoreTypes'
      BY <1>2, <3>1 DEF SampleList, StoreTypes, procVars
    <3>3. OrderInv' /\ CutInv'
      BY <1>2, <3>1, LogsUnchanged DEF SampleList, procVars
    <3>4. SaveInv' /\ CleanInv'
      BY <1>2, <3>1 DEF SampleList, procVars, SaveInv, CleanInv, CleanIsSaved
    <3> QED
      BY <3>2, <3>3, <3>4
  <2>2. CASE ~conn
    <3>1. UNCHANGED <<now, alive, mem, dirty, sv, data, file, full, failed, blank, conn>> /\ saw' = conn
      BY <1>2, <2>2 DEF SampleList, procVars
    <3>2. StoreTypes'
      BY <3>1 DEF StoreTypes
    <3>3. OrderInv' /\ CutInv'
      BY <3>1, LogsUnchanged
    <3>4. SaveInv' /\ CleanInv'
      BY <3>1 DEF SaveInv, CleanInv, CleanIsSaved
    <3> QED
      BY <3>2, <3>3, <3>4
  <2> QED
    BY <2>1, <2>2
<1>3. CASE SampleMark
  <2>1. UNCHANGED <<now, alive, sv, data, file, failed, blank, conn>> /\ saw' = FALSE
    BY <1>3 DEF SampleMark, procVars
  <2>2. CASE RecordState(saw)
    <3>1. /\ OrderInv' /\ CutInv'
          /\ mem' \in Entries /\ full' \in Seq(Events) /\ dirty' \in BOOLEAN
          /\ mem'.bytes = mem.bytes
          /\ ~dirty' => mem' = mem /\ dirty' = dirty
      BY <2>1, <2>2, RecordKeepsLogs DEF StoreTypes
    <3>2. StoreTypes'
      BY <2>1, <3>1 DEF StoreTypes
    <3>3. SaveInv' /\ CleanInv'
      BY <2>1, <3>1 DEF SaveInv, CleanInv, CleanIsSaved
    <3> QED
      BY <3>1, <3>2, <3>3
  <2>3. CASE UNCHANGED <<mem, full, dirty>>
    <3>1. StoreTypes'
      BY <2>1, <2>3 DEF StoreTypes
    <3>2. OrderInv' /\ CutInv'
      BY <2>1, <2>3, LogsUnchanged
    <3>3. SaveInv' /\ CleanInv'
      BY <2>1, <2>3 DEF SaveInv, CleanInv, CleanIsSaved
    <3> QED
      BY <3>1, <3>2, <3>3
  <2> QED
    BY <1>3, <2>2, <2>3 DEF SampleMark
<1>4. CASE SaveSnapshot
  <2> DEFINE cut == Cap(Prune(mem.up))
  <2>1. PICK k \in 1..(Len(full) + 1) : CutAt(full, mem.up, k, now)
    BY DEF CutInv
  <2>2. /\ cut \in Seq(Events)
        /\ \E m \in Nat \ {0} : SuffixFrom(mem.up, cut, m)
        /\ \E m \in Nat \ {0} : CutAt(full, cut, m, now)
    BY <1>0, <2>1, SaverCuts DEF StoreTypes
  <2>3. /\ mem' = [mem EXCEPT !.up = cut] /\ data' = mem'
        /\ UNCHANGED <<now, alive, conn, saw, file, full, failed, blank>>
        /\ dirty' = FALSE /\ sv' = "write" /\ alive /\ sv = "idle"
    BY <1>4 DEF SaveSnapshot, procVars
  <2> HIDE DEF cut
  <2>4. mem' \in Entries /\ mem'.up = cut /\ mem'.bytes = mem.bytes
    BY <2>2, <2>3 DEF StoreTypes, Entries
  <2>5. StoreTypes'
    BY <2>3, <2>4 DEF StoreTypes
  <2>6. InOrder(cut, now)
    BY <1>0, <2>2, SuffixInOrder DEF OrderInv
  <2>7. OrderInv'
    BY <2>3, <2>4, <2>6 DEF OrderInv
  <2>8. PICK m \in Nat \ {0} : CutAt(full, cut, m, now)
    BY <2>2
  <2>9. m \in 1..(Len(full) + 1)
    BY <1>0, <2>2, <2>8 DEF CutAt, SuffixFrom
  <2>10. CutInv'
    BY <2>3, <2>4, <2>8, <2>9 DEF CutInv
  <2>11. SaveInv' /\ CleanInv'
    BY <1>0, <2>3, <2>4 DEF SaveInv, CleanInv, CleanIsSaved
  <2> QED
    BY <2>5, <2>7, <2>10, <2>11
<1>5. CASE SaveRename
  <2>1. /\ file' = data /\ data' = Empty /\ sv' = "idle" /\ failed' = FALSE /\ sv = "write"
        /\ blank' = FALSE
        /\ UNCHANGED <<now, alive, conn, mem, dirty, saw, full>>
    BY <1>5 DEF SaveRename, procVars
  <2>2. StoreTypes'
    BY <1>e, <2>1 DEF StoreTypes
  <2>3. OrderInv' /\ CutInv'
    BY <1>e, <2>1 DEF OrderInv, CutInv
  <2>4. SaveInv' /\ CleanInv'
    BY <1>0, <2>1 DEF SaveInv, CleanInv, CleanIsSaved
  <2> QED
    BY <2>2, <2>3, <2>4
<1>6. CASE SaveFail
  <2>1. /\ data' = Empty /\ sv' = "idle" /\ failed' = TRUE
        /\ UNCHANGED <<now, alive, conn, mem, dirty, saw, full, file, blank>>
    BY <1>6 DEF SaveFail, procVars
  <2>2. StoreTypes'
    BY <1>e, <2>1 DEF StoreTypes
  <2>3. OrderInv' /\ CutInv'
    BY <1>e, <2>1 DEF OrderInv, CutInv
  <2>4. SaveInv' /\ CleanInv'
    BY <2>1 DEF SaveInv, CleanInv, CleanIsSaved
  <2> QED
    BY <2>2, <2>3, <2>4
<1>7. CASE Flip
  <2>1. UNCHANGED <<now, alive, mem, dirty, saw, sv, data, full, file, failed, blank>> /\ conn' \in BOOLEAN
    BY <1>7 DEF Flip, procVars, StoreTypes
  <2>2. StoreTypes'
    BY <2>1 DEF StoreTypes
  <2>3. OrderInv' /\ CutInv'
    BY <2>1, LogsUnchanged
  <2>4. SaveInv' /\ CleanInv'
    BY <2>1 DEF SaveInv, CleanInv, CleanIsSaved
  <2> QED
    BY <2>2, <2>3, <2>4
<1>8. CASE Tick
  <2>1. UNCHANGED <<alive, conn, mem, dirty, saw, sv, data, full, file, failed, blank>> /\ now' = now + 1
    BY <1>8 DEF Tick
  <2>2. StoreTypes'
    BY <2>1 DEF StoreTypes
  <2>3. OrderInv' /\ CutInv'
    BY <2>1, LogsLater
  <2>4. SaveInv' /\ CleanInv'
    BY <2>1 DEF SaveInv, CleanInv, CleanIsSaved
  <2> QED
    BY <2>2, <2>3, <2>4
<1>9. CASE Crash
  <2>1. /\ alive' = FALSE /\ conn' = FALSE /\ mem' = Empty /\ dirty' = FALSE /\ full' = <<>>
        /\ saw' = FALSE /\ sv' = "idle" /\ data' = Empty /\ blank' = FALSE
        /\ UNCHANGED <<now, file, failed>>
    BY <1>9 DEF Crash
  <2>2. StoreTypes'
    BY <1>e, <2>1 DEF StoreTypes
  <2>3. OrderInv'
    BY <1>e, <2>1 DEF OrderInv
  <2>4. CutAt(<<>>, <<>>, 1, now)
    BY DEF CutAt, SuffixFrom
  <2>5. CutInv'
    BY <1>e, <2>1, <2>4 DEF CutInv
  <2>6. SaveInv' /\ CleanInv'
    BY <2>1 DEF SaveInv, CleanInv, CleanIsSaved
  <2> QED
    BY <2>2, <2>3, <2>5, <2>6
<1>10. CASE Start
  <2>1. /\ ~alive /\ alive' = TRUE /\ mem' = Loaded /\ full' = Loaded.up /\ failed' = FALSE
        /\ blank' = FALSE /\ UNCHANGED <<now, conn, dirty, saw, sv, data, file>>
    BY <1>10 DEF Start
  <2>2. /\ Loaded \in Entries /\ Loaded.up = file.up /\ Loaded.bytes = file.bytes
        /\ Loaded.known = file.known
    BY DEF Loaded, StoreTypes, Entries
  <2>3. StoreTypes'
    BY <1>0, <2>1, <2>2 DEF StoreTypes
  <2>4. OrderInv'
    BY <2>1, <2>2 DEF OrderInv
  <2>5. CutAt(file.up, file.up, 1, now)
    BY <1>0 DEF CutAt, SuffixFrom
  <2>6. CutInv'
    <3>1. 1 \in 1..(Len(file.up) + 1)
      BY <1>0
    <3> QED
      BY <2>1, <2>2, <2>5, <3>1 DEF CutInv
  <2>7. SaveInv' /\ CleanInv'
    BY <1>0, <2>1, <2>2 DEF SaveInv, CleanInv, CleanIsSaved
  <2> QED
    BY <2>3, <2>4, <2>6, <2>7
<1>11. CASE StartBlank
  <2>1. /\ ~alive /\ alive' = TRUE /\ mem' = Empty /\ full' = <<>> /\ failed' = FALSE
        /\ blank' = TRUE /\ UNCHANGED <<now, conn, dirty, saw, sv, data, file>>
    BY <1>11 DEF StartBlank
  <2>2. StoreTypes'
    BY <1>e, <2>1 DEF StoreTypes
  <2>3. OrderInv'
    BY <1>e, <2>1 DEF OrderInv
  <2>4. CutAt(<<>>, <<>>, 1, now)
    BY DEF CutAt, SuffixFrom
  <2>5. CutInv'
    BY <1>e, <2>1, <2>4 DEF CutInv
  <2>6. SaveInv' /\ CleanInv'
    BY <2>1 DEF SaveInv, CleanInv, CleanIsSaved
  <2> QED
    BY <2>2, <2>3, <2>5, <2>6
<1>12. CASE UNCHANGED vars
  <2>1. UNCHANGED <<now, alive, conn, mem, dirty, saw, sv, data, full, file, failed, blank>>
    BY <1>12 DEF vars
  <2>2. StoreTypes'
    BY <2>1 DEF StoreTypes
  <2>3. OrderInv' /\ CutInv'
    BY <2>1, LogsUnchanged
  <2>4. SaveInv' /\ CleanInv'
    BY <2>1 DEF SaveInv, CleanInv, CleanIsSaved
  <2> QED
    BY <2>2, <2>3, <2>4
<1> QED
  BY <1>1, <1>2, <1>3, <1>4, <1>5, <1>6, <1>7, <1>8, <1>9, <1>10, <1>11, <1>12
     DEF Next, Sampler, Saver

(***************************************************************************)
(* What the panel shows.                                                   *)
(***************************************************************************)

\* A log cut before the window starts its window where the complete one does,
\* and says the same of every instant of it.
LEMMA SuffixAgrees ==
  ASSUME NEW f \in Seq(Events), NEW log \in Seq(Events), log # <<>>, Sorted(f), Sorted(log),
         now \in Nat, NEW k \in 1..Len(f), SuffixFrom(f, log, k),
         k = 1 \/ f[k].t <= now - Window
  PROVE  /\ From(log) = From(f)
         /\ \A x \in Int : x >= From(f) => (UpAt(log, x) <=> UpAt(f, x))
<1>0. Window \in Nat
  BY TrafficAssumption
<1>1. \A i \in 1..Len(f) : f[i] \in Events
  OBVIOUS
<1>2. log[1] = f[k] /\ f # <<>> /\ 1 \in 1..Len(log) /\ 1 \in 1..Len(f)
  <2>1. 1 \in 1..Len(log)
    OBVIOUS
  <2>2. log[1] = f[1 + k - 1]
    BY <2>1 DEF SuffixFrom
  <2> QED
    BY <2>1, <2>2
<1>3. From(log) = From(f)
  <2>1. f[1].t <= f[k].t /\ f[1].t \in Nat /\ f[k].t \in Nat
    BY <1>1, <1>2 DEF Sorted, Events
  <2> QED
    BY <1>0, <1>2, <2>1 DEF From
<1>4. ASSUME NEW x \in Int, x >= From(f) PROVE UpAt(log, x) <=> UpAt(f, x)
  <2> DEFINE past == {i \in 1..Len(log) : log[i].t <= x}
             c    == Cardinality(past)
  <2>1. c \in 0..Len(log) /\ past = 1..c
    BY UpTo
  <2>2. 1 \in past
    <3>1. From(log) \in Int /\ log[1].t <= From(log) /\ log[1] \in Events
      BY FromFacts
    <3>2. log[1].t <= x
      BY <1>3, <1>4, <3>1 DEF Events
    <3> QED
      BY <1>2, <3>2
  <2>3. \A i \in 1..Len(log) : log[i].t <= x <=> i \in past
    OBVIOUS
  <2> HIDE DEF past, c
  <2>4. c \in 1..Len(log) /\ \A i \in 1..Len(log) : log[i].t <= x <=> i <= c
    BY <2>1, <2>2, <2>3
  <2>5. \A i \in 1..Len(log) : log[i] \in Events
    OBVIOUS
  <2>6. \A i \in 1..Len(log) : i > c => log[i].t > x
    BY <2>4, <2>5 DEF Events
  <2>7. UpAt(log, x) <=> log[c].u
    BY <2>4, <2>6, StateAt
  <2> DEFINE j == c + k - 1
  <2>8. j \in 1..Len(f) /\ f[j] = log[c]
    BY <2>4 DEF SuffixFrom
  <2>9. ASSUME NEW i \in 1..Len(f), i > j PROVE f[i].t > x
    <3> DEFINE m == i - k + 1
    <3>1. m \in 1..Len(log) /\ m > c /\ m + k - 1 = i
      BY <2>4, <2>9 DEF SuffixFrom
    <3>2. log[m] = f[i]
      BY <3>1 DEF SuffixFrom
    <3> QED
      BY <2>6, <3>1, <3>2
  <2>10. f[j].t <= x
    BY <2>4, <2>8
  <2> HIDE DEF j
  <2>11. UpAt(f, x) <=> f[j].u
    BY <2>8, <2>9, <2>10, StateAt
  <2> QED
    BY <2>7, <2>8, <2>11
<1> QED
  BY <1>3, <1>4

\* Fewer events than the cap in the window: what was cut lies before it.
LEMMA CutBeforeWindow ==
  ASSUME NEW f \in Seq(Events), NEW log \in Seq(Events), Sorted(f), now \in Nat,
         NEW k \in 1..Len(f), CutAt(f, log, k, now),
         Cardinality({i \in 1..Len(f) : f[i].t > now - Window}) < MaxLog
  PROVE  k = 1 \/ f[k].t <= now - Window
<1>0. Window \in Nat /\ Keep \in Nat /\ Window < Keep /\ MaxLog \in Nat
  BY TrafficAssumption
<1>1. \A i \in 1..Len(f) : f[i] \in Events
  OBVIOUS
<1>2. CASE f[k].t < now - Keep
  BY <1>0, <1>1, <1>2 DEF Events
<1>3. CASE Len(log) >= MaxLog /\ f[k].t > now - Window
  <2> DEFINE W == {i \in 1..Len(f) : f[i].t > now - Window}
  <2>1. ASSUME NEW i \in k..Len(f) PROVE i \in W
    <3>1. i \in 1..Len(f) /\ k <= i
      OBVIOUS
    <3>2. f[k].t <= f[i].t
      BY <3>1 DEF Sorted
    <3>3. f[i].t > now - Window
      BY <1>0, <1>1, <1>3, <3>1, <3>2 DEF Events
    <3> QED
      BY <3>1, <3>3
  <2>2. IsFiniteSet(W) /\ Cardinality(W) \in Nat
    <3>1. IsFiniteSet(1..Len(f))
      BY FS_Interval
    <3>2. W \in SUBSET (1..Len(f))
      OBVIOUS
    <3> HIDE DEF W
    <3> QED
      BY <3>1, <3>2, FS_Subset, FS_CardinalityType
  <2>3. Cardinality(k..Len(f)) = Len(f) - k + 1
    BY FS_Interval
  <2>4. Cardinality(k..Len(f)) <= Cardinality(W)
    <3>1. k..Len(f) \in SUBSET W
      BY <2>1
    <3> HIDE DEF W
    <3> QED
      BY <2>2, <3>1, FS_Subset
  <2>5. Len(log) = Len(f) - k + 1
    BY DEF CutAt, SuffixFrom
  <2>6. Cardinality(W) < MaxLog
    OBVIOUS
  <2> HIDE DEF W
  <2> QED
    BY <1>0, <1>3, <2>2, <2>3, <2>4, <2>5, <2>6
<1>4. CASE Len(log) >= MaxLog /\ ~(f[k].t > now - Window)
  BY <1>0, <1>1, <1>4 DEF Events
<1> QED
  BY <1>2, <1>3, <1>4 DEF CutAt

\* The panel's percentage, in any state of the invariant.
LEMMA ExactFromInv == StoreInv => UptimeIsExact
<1> SUFFICES ASSUME StoreInv, mem.up # <<>>,
                    Cardinality({i \in 1..Len(full) : full[i].t > now - Window}) < MaxLog
             PROVE  /\ From(mem.up) = From(full)
                    /\ UpTime(mem.up)
                         = Cardinality({x \in From(full)..(now - 1) : UpAt(full, x)})
  BY DEF UptimeIsExact
<1>1. now \in Nat /\ mem.up \in Seq(Events) /\ full \in Seq(Events)
  BY DEF StoreInv, StoreTypes, Entries
<1>2. /\ Sorted(mem.up) /\ Sorted(full)
      /\ \A i \in 1..Len(mem.up) : mem.up[i].t <= now
  BY DEF StoreInv, OrderInv, InOrder
<1>3. PICK k \in 1..(Len(full) + 1) : CutAt(full, mem.up, k, now)
  BY DEF StoreInv, CutInv
<1>4. SuffixFrom(full, mem.up, k) /\ k \in 1..Len(full)
  BY <1>1, <1>3 DEF CutAt, SuffixFrom
<1>5. k = 1 \/ full[k].t <= now - Window
  BY <1>1, <1>2, <1>3, <1>4, CutBeforeWindow
<1>6. /\ From(mem.up) = From(full)
      /\ \A x \in Int : x >= From(full) => (UpAt(mem.up, x) <=> UpAt(full, x))
  BY <1>1, <1>2, <1>4, <1>5, SuffixAgrees
<1>7. mem.up[1].t <= now
  BY <1>1, <1>2
<1>8. UpTime(mem.up) = CountIn(Ups(mem.up), From(mem.up), now)
  BY <1>1, <1>2, <1>7, UpTimeCounts
<1>9. From(full) \in Int
  BY <1>1, <1>6, FromFacts
<1>10. {x \in From(full)..(now - 1) : x \in Ups(mem.up)}
         = {x \in From(full)..(now - 1) : UpAt(full, x)}
  BY <1>1, <1>6, <1>9 DEF Ups
<1> QED
  BY <1>6, <1>8, <1>10 DEF CountIn

(***************************************************************************)
(* The theorems.                                                           *)
(***************************************************************************)

\* The inductive invariant of the store, its saver and its sampler.
THEOREM StoreHolds == Spec => []StoreInv
BY StoreInit, StoreStep, PTL DEF Spec

\* The percentage of uptimePct is exact whatever was pruned or capped, for
\* every window, retention, cap and length of the log.
THEOREM UptimeExact == Spec => []UptimeIsExact
BY StoreHolds, ExactFromInv, PTL

\* A clean store at rest is what the file says, unless it could not load it and
\* has not saved since.
THEOREM CleanSaved == Spec => []CleanIsSaved
<1>1. StoreInv => CleanIsSaved
  BY DEF StoreInv, CleanInv
<1> QED
  BY <1>1, StoreHolds, PTL

\* Each action is a step of the ledger or leaves it unchanged.
LEMMA LedgerStep == StoreInv /\ [Next]_vars => [Counter!Next]_(Counter!ledgerVars)
<1> SUFFICES ASSUME StoreInv, [Next]_vars
             PROVE  Counter!Next \/ UNCHANGED <<mem.bytes, file.bytes, alive, blank>>
  BY DEF Counter!ledgerVars
<1>0. /\ mem \in Entries /\ file \in Entries /\ mem.bytes \in Nat /\ file.bytes \in Nat
      /\ data.bytes \in Nat
  BY DEF StoreInv, StoreTypes, Entries
<1>1. CASE Add
  <2>1. mem' = [mem EXCEPT !.known = TRUE, !.bytes = mem.bytes + 1]
    BY <1>1 DEF Add
  <2>2. mem'.bytes = mem.bytes + 1
    BY <1>0, <2>1 DEF Entries
  <2> QED
    BY <1>1, <2>2 DEF Add, procVars, Counter!Next, Counter!Count
<1>2. CASE SampleList
  <2>1. mem'.bytes = mem.bytes
    BY <1>0, <1>2 DEF SampleList, Entries
  <2> QED
    BY <1>2, <2>1 DEF SampleList, procVars
<1>3. CASE SampleMark
  <2>1. mem'.bytes = mem.bytes
    BY <1>0, <1>3 DEF SampleMark, RecordState, Entries
  <2> QED
    BY <1>3, <2>1 DEF SampleMark, procVars
<1>4. CASE SaveSnapshot
  <2>1. mem'.bytes = mem.bytes
    BY <1>0, <1>4 DEF SaveSnapshot, Entries
  <2> QED
    BY <1>4, <2>1 DEF SaveSnapshot, procVars
<1>5. CASE SaveRename
  <2>1. data.bytes \in (IF blank THEN 0 ELSE file.bytes)..mem.bytes
    BY <1>0, <1>5 DEF SaveRename, StoreInv, SaveInv
  <2> QED
    BY <1>5, <2>1 DEF SaveRename, procVars, Counter!Next, Counter!Save
<1>6. CASE SaveFail \/ Flip \/ Tick \/ UNCHANGED vars
  BY <1>6 DEF SaveFail, Flip, Tick, vars, procVars
<1>7. CASE Crash
  BY <1>7 DEF Crash, Empty, Counter!Next, Counter!Crash
<1>8. CASE Start
  <2>1. Loaded.bytes = file.bytes
    BY <1>0 DEF Loaded, Entries
  <2> QED
    BY <1>8, <2>1 DEF Start, Counter!Next, Counter!Start
<1>9. CASE StartBlank
  BY <1>9 DEF StartBlank, Empty, Counter!Next, Counter!StartBlank
<1> QED
  BY <1>1, <1>2, <1>3, <1>4, <1>5, <1>6, <1>7, <1>8, <1>9 DEF Next, Sampler, Saver

\* The store, its crashes, restarts, failed writes and failed loads included,
\* implements the ledger.
THEOREM StoreImplementsLedger == Spec => ImplementsLedger
<1>1. Init => Counter!Init
  BY DEF Init, Empty, Counter!Init
<1> QED
  BY <1>1, LedgerStep, StoreHolds, PTL DEF Spec, ImplementsLedger, Counter!Spec
=============================================================================
