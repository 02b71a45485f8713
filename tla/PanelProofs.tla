---------------------------- MODULE PanelProofs -----------------------------
(***************************************************************************)
(* Proofs about Panel, for any number of requests, ports and edits.        *)
(***************************************************************************)
EXTENDS Panel, TLAPS

(***************************************************************************)
(* The gate.                                                               *)
(***************************************************************************)

\* The gate forgets only entries older than a minute.
GateInv ==
  /\ last \in [Ports -> Nat] /\ since \in [Ports -> 0..(Minute + 1)]
  /\ \A p \in Ports : last[p] = since[p] \/ (last[p] = NoEntry /\ since[p] = Minute + 1)

LEMMA GateInit == Init => GateInv
BY PanelAssumption DEF Init, GateInv, NoEntry

LEMMA GateStep == GateInv /\ [Next]_vars => GateInv'
<1> SUFFICES ASSUME GateInv, [Next]_vars PROVE GateInv'
  OBVIOUS
<1> USE PanelAssumption DEF GateInv
<1>1. CASE UNCHANGED gateVars
  BY <1>1 DEF gateVars
<1>2. CASE Tick
  <2>1. \A p \in Ports : last'[p] = Older(last[p]) /\ since'[p] = Older(since[p])
    BY <1>2 DEF Tick
  <2>2. last' \in [Ports -> Nat] /\ since' \in [Ports -> 0..(Minute + 1)]
    BY <1>2 DEF Tick, Older
  <2> QED
    BY <2>1, <2>2 DEF Older, NoEntry
<1>3. ASSUME NEW r \in Requests, NEW p \in Ports, Probe(r, p) PROVE GateInv'
  <2> DEFINE noted == [last EXCEPT ![p] = 0]
  <2>1. since' = [since EXCEPT ![p] = 0] /\ (last' = noted \/ last' = Purge(noted, p))
    BY <1>3 DEF Probe
  <2>2. CASE last' = noted
    BY <2>1, <2>2
  <2>3. CASE last' = Purge(noted, p)
    <3>1. last' = [q \in Ports |-> IF noted[q] > Minute THEN NoEntry ELSE noted[q]]
      BY <2>3 DEF Purge
    <3>2. noted \in [Ports -> Nat] /\ noted[p] = 0 /\ \A q \in Ports : q # p => noted[q] = last[q]
      OBVIOUS
    <3> HIDE DEF noted
    <3>3. last' \in [Ports -> Nat] /\ since' \in [Ports -> 0..(Minute + 1)]
      BY <2>1, <3>1, <3>2 DEF NoEntry
    <3>4. ASSUME NEW q \in Ports
          PROVE  last'[q] = since'[q] \/ (last'[q] = NoEntry /\ since'[q] = Minute + 1)
      <4>1. CASE q = p
        BY <2>1, <3>1, <3>2, <4>1
      <4>2. CASE q # p
        <5>1. last'[q] = (IF last[q] > Minute THEN NoEntry ELSE last[q]) /\ since'[q] = since[q]
          BY <2>1, <3>1, <3>2, <4>2
        <5>2. last[q] > Minute => since[q] = Minute + 1
          BY DEF NoEntry
        <5> QED
          BY <5>1, <5>2
      <4> QED
        BY <4>1, <4>2
    <3> QED
      BY <3>3, <3>4
  <2> QED
    BY <2>1, <2>2, <2>3
<1> QED
  BY <1>1, <1>2, <1>3 DEF Next, vars, gateVars, Edit, Remove, Stat, StatFails, Cleared,
                              Unread, ReadFails, Load, Get, Describe

\* Two probes of one port are at least Gap apart, also when the gate forgets
\* entries to stay small (probeGate.allow).
THEOREM ProbesSpaced == Spec => ProbesAreSpaced
<1> DEFINE Spaced == \A r \in Requests, p \in Ports : Probe(r, p) => since[p] >= Gap
<1>1. GateInv => Spaced
  <2> SUFFICES ASSUME GateInv, NEW p \in Ports, last[p] >= Gap PROVE since[p] >= Gap
    BY DEF Probe, Allowed
  <2> QED
    BY PanelAssumption DEF GateInv
<1> QED
  BY <1>1, GateInit, GateStep, PTL DEF Spec, ProbesAreSpaced

(***************************************************************************)
(* The metadata.                                                           *)
(***************************************************************************)

Files == [stamp : Nat, parses : BOOLEAN, url : RawURLs]
Kept  == RawURLs \cup {"none"}
Parsed == file # Missing /\ file.parses

MetaType ==
  /\ file \in Files \cup {Missing}
  /\ edits \in Nat /\ stamp \in Nat
  /\ data \in Kept \cup {Nil}
  /\ pc \in [Requests -> {"idle", "stat", "lock", "get"}]
  /\ st \in [Requests -> Nat \cup {Missing}]
  /\ kept \in [Requests -> Kept \cup {Nil}]
  /\ fresh \subseteq Requests

\* The file is the last edit, and no stamp is of a later one.
StampInv ==
  /\ file # Missing => file.stamp = edits
  /\ stamp <= edits
  /\ \A r \in Requests : st[r] # Missing => st[r] <= edits

\* Metadata stamped like the file is the file's.
DataInv == Parsed /\ data # Nil /\ stamp = edits => data = Sanitize(file.url)

\* While there are fresh requests there are no others.
FreshInv == /\ fresh \subseteq Busy
            /\ fresh # {} => Busy \subseteq fresh

\* What fresh requests have found is the file as it is.
FoundInv == \A r \in fresh :
  /\ pc[r] = "lock" => st[r] = IF file = Missing THEN Missing ELSE edits
  /\ file # Missing /\ ~file.parses => data = kept[r]
  /\ pc[r] = "get" /\ file = Missing => data = Nil
  /\ pc[r] = "get" /\ Parsed => data = Sanitize(file.url)

MetaInv == MetaType /\ StampInv /\ DataInv /\ FreshInv /\ FoundInv

LEMMA SanitizeType == ASSUME NEW u \in RawURLs PROVE Sanitize(u) \in Kept /\ Sanitize(u) # Nil
BY PanelAssumption DEF Sanitize, RawURLs, Kept

LEMMA MetaInit == Init => MetaInv
BY PanelAssumption DEF Init, MetaInv, MetaType, StampInv, DataInv, FreshInv, FoundInv, Parsed, Busy, NoStamp

\* A request that begins.
LEMMA BeginKeeps ==
  ASSUME MetaInv, NEW r \in Requests, Begin(r), UNCHANGED <<fileVars, storeVars, st>>
  PROVE  MetaInv'
<1> USE DEF MetaInv
<1>1. /\ pc[r] = "idle" /\ pc' = [pc EXCEPT ![r] = "stat"] /\ kept' = [kept EXCEPT ![r] = data]
      /\ fresh' = IF Busy \subseteq fresh THEN fresh \cup {r} ELSE fresh \ {r}
      /\ UNCHANGED <<file, edits, data, stamp, st>>
  BY DEF Begin, fileVars, storeVars
<1>2. MetaType' /\ StampInv' /\ DataInv'
  BY <1>1 DEF MetaType, StampInv, DataInv, Parsed
<1>3. Busy' = Busy \cup {r} /\ r \notin fresh
  BY <1>1 DEF Busy, MetaType, FreshInv
<1>4. FreshInv'
  BY <1>1, <1>3 DEF FreshInv
<1>5. FoundInv'
  BY <1>1, <1>3 DEF FoundInv, Parsed, MetaType
<1> QED
  BY <1>2, <1>4, <1>5

\* A step of a request past its stat.
LEMMA MetaStep == MetaInv /\ [Next]_vars => MetaInv'
<1> SUFFICES ASSUME MetaInv, [Next]_vars PROVE MetaInv'
  OBVIOUS
<1> USE PanelAssumption DEF MetaInv
<1>1. CASE UNCHANGED <<fileVars, storeVars, pc, st, fresh, kept>>
  BY <1>1 DEF fileVars, storeVars, MetaType, StampInv, DataInv, FreshInv, FoundInv, Parsed, Busy
<1>2. CASE Edit
  <2>1. /\ edits' = edits + 1 /\ fresh' = {} /\ file' \in Files /\ file'.stamp = edits + 1
        /\ UNCHANGED <<data, stamp, pc, st, kept>>
    BY <1>2 DEF Edit, storeVars, Files, MetaType
  <2>2. MetaType' /\ StampInv'
    BY <2>1 DEF MetaType, StampInv
  <2>3. DataInv' /\ FreshInv' /\ FoundInv'
    BY <2>1 DEF MetaType, StampInv, DataInv, FreshInv, FoundInv
  <2> QED
    BY <2>2, <2>3
<1>3. CASE Remove
  BY <1>3 DEF Remove, storeVars, MetaType, StampInv, DataInv, FreshInv, FoundInv, Parsed
<1>4. ASSUME NEW r \in Requests, Describe(r) PROVE MetaInv'
  BY <1>4, BeginKeeps DEF Describe
<1>5. ASSUME NEW r \in Requests, NEW p \in Ports, Probe(r, p) PROVE MetaInv'
  BY <1>5, BeginKeeps DEF Probe
<1>6. ASSUME NEW r \in Requests, Stat(r) PROVE MetaInv'
  <2>1. /\ pc[r] = "stat" /\ pc' = [pc EXCEPT ![r] = "lock"]
        /\ st' = [st EXCEPT ![r] = IF file = Missing THEN Missing ELSE edits]
        /\ UNCHANGED <<file, edits, data, stamp, fresh, kept>>
    BY <1>6 DEF Stat, fileVars, storeVars, StampInv
  <2>2. MetaType' /\ StampInv' /\ DataInv'
    BY <2>1 DEF MetaType, StampInv, DataInv, Parsed
  <2>3. Busy' = Busy
    BY <2>1 DEF Busy, MetaType
  <2>4. FreshInv' /\ FoundInv'
    BY <2>1, <2>3 DEF FreshInv, FoundInv, Parsed, MetaType
  <2> QED
    BY <2>2, <2>4
<1>7. ASSUME NEW r \in Requests, Cleared(r) PROVE MetaInv'
  <2>1. /\ pc[r] = "lock" /\ pc' = [pc EXCEPT ![r] = "get"] /\ st[r] = Missing
        /\ data' = Nil /\ stamp' \in {stamp, 0}
        /\ UNCHANGED <<file, edits, st, fresh, kept>>
    BY <1>7 DEF Cleared, Locked, fileVars, NoStamp
  <2>2. MetaType' /\ StampInv' /\ DataInv'
    BY <2>1 DEF MetaType, StampInv, DataInv
  <2>3. Busy' = Busy /\ r \in Busy
    BY <2>1 DEF Busy, MetaType
  <2>4. FreshInv' /\ (fresh # {} => file = Missing)
    BY <2>1, <2>3 DEF FreshInv, FoundInv, MetaType
  <2>5. FoundInv'
    BY <2>1, <2>4 DEF FoundInv, Parsed, MetaType
  <2> QED
    BY <2>2, <2>4, <2>5
<1>8. ASSUME NEW r \in Requests, Unread(r) PROVE MetaInv'
  <2>1. /\ pc[r] = "lock" /\ pc' = [pc EXCEPT ![r] = "get"] /\ st[r] # Missing
        /\ (data # Nil /\ st[r] = stamp) \/ file = Missing
        /\ UNCHANGED <<file, edits, data, stamp, st, fresh, kept>>
    BY <1>8 DEF Unread, Unmodified, Locked, fileVars, storeVars
  <2>2. MetaType' /\ StampInv' /\ DataInv'
    BY <2>1 DEF MetaType, StampInv, DataInv, Parsed
  <2>3. Busy' = Busy
    BY <2>1 DEF Busy, MetaType
  <2>4. FreshInv'
    BY <2>1, <2>3 DEF FreshInv
  <2>5. r \in fresh => file # Missing /\ st[r] = edits /\ (Parsed => data = Sanitize(file.url))
    BY <2>1 DEF FoundInv, DataInv
  <2>6. FoundInv'
    BY <2>1, <2>5 DEF FoundInv, Parsed, MetaType
  <2> QED
    BY <2>2, <2>4, <2>6
<1>9. ASSUME NEW r \in Requests, Load(r) PROVE MetaInv'
  <2>1. /\ pc[r] = "lock" /\ pc' = [pc EXCEPT ![r] = "get"] /\ st[r] # Missing /\ file # Missing
        /\ data' = IF file.parses THEN Sanitize(file.url) ELSE data
        /\ stamp' = st[r]
        /\ UNCHANGED <<file, edits, st, fresh, kept>>
    BY <1>9 DEF Load, KeepData, Locked, fileVars
  <2>2. file.url \in RawURLs /\ Sanitize(file.url) \in Kept
    BY <2>1, SanitizeType DEF MetaType, Files
  <2>3. MetaType' /\ StampInv' /\ DataInv'
    BY <2>1, <2>2 DEF MetaType, StampInv, DataInv, Parsed
  <2>4. Busy' = Busy
    BY <2>1 DEF Busy, MetaType
  <2>5. FreshInv' /\ FoundInv'
    BY <2>1, <2>4 DEF FreshInv, FoundInv, Parsed, MetaType
  <2> QED
    BY <2>3, <2>5
<1>10. ASSUME NEW r \in Requests, Get(r) PROVE MetaInv'
  <2>1. /\ pc[r] = "get" /\ pc' = [pc EXCEPT ![r] = "idle"]
        /\ st' = [st EXCEPT ![r] = Missing] /\ kept' = [kept EXCEPT ![r] = Nil] /\ fresh' = fresh \ {r}
        /\ UNCHANGED <<file, edits, data, stamp>>
    BY <1>10 DEF Get, fileVars, storeVars
  <2>2. MetaType' /\ StampInv' /\ DataInv'
    BY <2>1 DEF MetaType, StampInv, DataInv, Parsed
  <2>3. Busy' = Busy \ {r}
    BY <2>1 DEF Busy, MetaType
  <2>4. FreshInv' /\ FoundInv'
    BY <2>1, <2>3 DEF FreshInv, FoundInv, Parsed, MetaType
  <2> QED
    BY <2>2, <2>4
<1>11. ASSUME NEW r \in Requests, StatFails(r) PROVE MetaInv'
  <2>1. /\ pc' = [pc EXCEPT ![r] = "lock"] /\ st' = [st EXCEPT ![r] = Missing] /\ fresh' = {}
        /\ UNCHANGED <<file, edits, data, stamp, kept>>
    BY <1>11 DEF StatFails, fileVars, storeVars
  <2> QED
    BY <2>1 DEF MetaType, StampInv, DataInv, FreshInv, FoundInv, Parsed
<1>12. ASSUME NEW r \in Requests, ReadFails(r) PROVE MetaInv'
  <2>1. /\ pc' = [pc EXCEPT ![r] = "get"] /\ fresh' = {}
        /\ UNCHANGED <<file, edits, data, stamp, st, kept>>
    BY <1>12 DEF ReadFails, Locked, fileVars, storeVars
  <2> QED
    BY <2>1 DEF MetaType, StampInv, DataInv, FreshInv, FoundInv, Parsed
<1> QED
  BY <1>1, <1>2, <1>3, <1>4, <1>5, <1>6, <1>7, <1>8, <1>9, <1>10, <1>11, <1>12 DEF Next, vars, fileVars, storeVars, Tick

\* A request that began after the last edit and the last failed call on the
\* file, with no earlier one still running,
\* is answered from the file as it is (MetaStore.refresh and Get).
THEOREM AnswersCurrent == Spec => AnswersAreCurrent
<1> DEFINE Answered == \A r \in Requests :
             r \in fresh /\ pc[r] = "get" /\ pc'[r] = "idle" => res' = Current(r)
<1>1. MetaInv /\ [Next]_vars => [Answered]_vars
  <2> SUFFICES ASSUME MetaInv, Next, NEW r \in Requests, r \in fresh, pc[r] = "get", pc'[r] = "idle"
               PROVE  res' = Current(r)
    OBVIOUS
  <2>1. Get(r)
    BY DEF Next, Edit, Remove, Tick, Stat, StatFails, Cleared, Unread, ReadFails, Load, Locked,
           Get, Describe, Probe, Begin, MetaInv, MetaType
  <2>2. res' = IF data = Nil THEN "none" ELSE data
    BY <2>1 DEF Get
  <2>3. /\ file # Missing /\ ~file.parses => data = kept[r]
        /\ file = Missing => data = Nil
        /\ file # Missing /\ file.parses => data = Sanitize(file.url)
    BY DEF MetaInv, FoundInv, Parsed
  <2> QED
    BY <2>2, <2>3 DEF Current
<1> QED
  BY <1>1, MetaInit, MetaStep, PTL DEF Spec, AnswersAreCurrent
=============================================================================
