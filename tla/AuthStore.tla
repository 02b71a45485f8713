----------------------------- MODULE AuthStore ------------------------------
(***************************************************************************)
(* authStore: the cache of authorized_keys that every SSH handshake looks  *)
(* its key up in.  A lookup first reloads the cache when the file's        *)
(* modification time differs from the cached one; the stat is outside the  *)
(* mutex, the comparison, the read and the assignment are inside it.       *)
(* Handshakes run concurrently with each other and with an operator who    *)
(* edits, removes and recreates the file.                                  *)
(***************************************************************************)
EXTENDS Naturals

CONSTANTS
  Threads,    \* goroutines in a handshake
  Keys,       \* public key fingerprints
  Infos,      \* keyInfo values: allowed ports and name
  NoInfo,     \* the key is not in the file
  Missing,    \* the file does not exist
  NoThread,
  MaxMtime,   \* bound: edits
  FineMtime   \* does every edit get a modification time of its own?

\* What loadAuthorized makes of a file: fingerprint -> info.
Contents == [Keys -> Infos \cup {NoInfo}]
Files == [mtime : Nat, keys : Contents]

ASSUME AuthAssumption ==
  /\ NoThread \notin Threads
  /\ Missing \notin Files \cup Contents
  /\ MaxMtime \in Nat
  /\ FineMtime \in BOOLEAN

VARIABLES
  file,     \* authorized_keys: a member of Files, or Missing
  clock,    \* modification time of the last edit
  mtime, keys,  \* authStore.mtime, authStore.keys
  lock,     \* holder of authStore.mu across the read of the file
  pc, key,  \* where the lookup of each goroutine is, and what it looks up
  st,       \* the modification time its stat returned
  err,      \* did its reload return an error?  (lookup drops it)
  res,      \* what its lookup returned
  seen      \* history: contents the file had since the lookup began

authVars == <<mtime, keys, lock>>
fileVars == <<file, clock>>
vars == <<file, clock, mtime, keys, lock, pc, key, st, err, res, seen>>

\* Run loads the file before it accepts connections, and fails without it.
Init ==
  /\ \E c \in Contents : /\ file = [mtime |-> 0, keys |-> c]
                         /\ keys = c
  /\ clock = 0
  /\ mtime = 0
  /\ lock = NoThread
  /\ pc = [t \in Threads |-> "idle"]
  /\ key \in [Threads -> Keys]
  /\ st = [t \in Threads |-> 0]
  /\ err = [t \in Threads |-> FALSE]
  /\ res = [t \in Threads |-> NoInfo]
  /\ seen = [t \in Threads |-> {}]

Busy(t) == pc[t] \in {"stat", "lock", "read", "look"}
FileNow == IF file = Missing THEN Missing ELSE file.keys
Witness(c) == seen' = [t \in Threads |-> IF Busy(t) THEN seen[t] \cup {c} ELSE seen[t]]

\* The operator replaces the file.
Edit(c) ==
  /\ clock < MaxMtime
  /\ clock' \in IF FineMtime THEN {clock + 1} ELSE {clock, clock + 1}
  /\ file' = [mtime |-> clock', keys |-> c]
  /\ Witness(c)
  /\ UNCHANGED <<authVars, pc, key, st, err, res>>

\* The operator removes it.
Remove ==
  /\ file # Missing
  /\ file' = Missing
  /\ Witness(Missing)
  /\ UNCHANGED <<clock, authVars, pc, key, st, err, res>>

\* PublicKeyCallback calls lookup.
Begin(t) ==
  /\ pc[t] \in {"idle", "done"}
  /\ \E k \in Keys : key' = [key EXCEPT ![t] = k]
  /\ pc' = [pc EXCEPT ![t] = "stat"]
  /\ err' = [err EXCEPT ![t] = FALSE]
  /\ seen' = [seen EXCEPT ![t] = {FileNow}]
  /\ UNCHANGED <<fileVars, authVars, st, res>>

\* A fault: the new modification time is noted at the stat.
StatMarks(t) ==
  /\ pc[t] = "stat" /\ file # Missing
  /\ st' = [st EXCEPT ![t] = file.mtime]
  /\ mtime' = file.mtime
  /\ pc' = [pc EXCEPT ![t] = "lock"]
  /\ UNCHANGED <<fileVars, keys, lock, key, err, res, seen>>

\* reload: os.Stat, before the mutex.
StatOK(t) ==
  /\ pc[t] = "stat" /\ file # Missing
  /\ st' = [st EXCEPT ![t] = file.mtime]
  /\ pc' = [pc EXCEPT ![t] = "lock"]
  /\ UNCHANGED <<fileVars, authVars, key, err, res, seen>>

\* An error, because the file is missing or for any other reason, ends the
\* reload; lookup goes on with the cache.
StatFails(t) ==
  /\ pc[t] = "stat"
  /\ err' = [err EXCEPT ![t] = TRUE]
  /\ pc' = [pc EXCEPT ![t] = "look"]
  /\ UNCHANGED <<fileVars, authVars, key, st, res, seen>>

\* st.ModTime().Equal(a.mtime); a fault would be to keep the first load.
AlwaysSame(t) == TRUE
SameMtime(t) == st[t] = mtime

\* reload, mutex taken: nothing to do if the cache has this modification time.
Unmodified(t) ==
  /\ pc[t] = "lock" /\ lock = NoThread
  /\ SameMtime(t)
  /\ pc' = [pc EXCEPT ![t] = "look"]
  /\ UNCHANGED <<fileVars, authVars, key, st, err, res, seen>>

Modified(t) ==
  /\ pc[t] = "lock" /\ lock = NoThread
  /\ ~SameMtime(t)
  /\ lock' = t
  /\ pc' = [pc EXCEPT ![t] = "read"]
  /\ UNCHANGED <<fileVars, mtime, keys, key, st, err, res, seen>>

\* loadAuthorized and the assignment, mutex held: the keys as they are now,
\* with the modification time of the earlier stat.
ReadOK(t) ==
  /\ pc[t] = "read" /\ file # Missing
  /\ keys' = file.keys
  /\ mtime' = st[t]
  /\ lock' = NoThread
  /\ pc' = [pc EXCEPT ![t] = "look"]
  /\ UNCHANGED <<fileVars, key, st, err, res, seen>>

\* The file vanished since the stat, or the read fails for another reason:
\* cache and time stay.
ReadFails(t) ==
  /\ pc[t] = "read"
  /\ lock' = NoThread
  /\ err' = [err EXCEPT ![t] = TRUE]
  /\ pc' = [pc EXCEPT ![t] = "look"]
  /\ UNCHANGED <<fileVars, mtime, keys, key, st, res, seen>>

\* The second critical section of lookup.
Look(t) ==
  /\ pc[t] = "look" /\ lock = NoThread
  /\ res' = [res EXCEPT ![t] = keys[key[t]]]
  /\ pc' = [pc EXCEPT ![t] = "done"]
  /\ UNCHANGED <<fileVars, authVars, key, st, err, seen>>

Next ==
  \/ \E c \in Contents : Edit(c)
  \/ Remove
  \/ \E t \in Threads :
       \/ Begin(t) \/ StatOK(t) \/ StatFails(t) \/ Unmodified(t) \/ Modified(t)
       \/ ReadOK(t) \/ ReadFails(t) \/ Look(t)

Spec == Init /\ [][Next]_vars

(***************************************************************************)
(* Properties.                                                             *)
(***************************************************************************)

\* Every variable keeps its type.
TypeOK ==
  /\ file \in Files \cup {Missing}
  /\ clock \in Nat
  /\ mtime \in Nat
  /\ keys \in Contents
  /\ lock \in Threads \cup {NoThread}
  /\ pc \in [Threads -> {"idle", "stat", "lock", "read", "look", "done"}]
  /\ key \in [Threads -> Keys]
  /\ st \in [Threads -> Nat]
  /\ err \in [Threads -> BOOLEAN]
  /\ res \in [Threads -> Infos \cup {NoInfo}]
  /\ seen \in [Threads -> SUBSET (Contents \cup {Missing})]

\* The cache is never believed current when it is not: if it carries the
\* file's modification time it holds the file's keys, even when the file
\* changed between the stat and the read of a reload.
CacheCurrent ==
  FineMtime /\ file # Missing /\ mtime = file.mtime => keys = file.keys

\* "the server notices the change on the next authentication": a lookup answers
\* from contents the file had at some moment between its start and its end,
\* whatever the operator and the other lookups do meanwhile, their failing
\* reloads included.  So a key revoked, or given other ports, before the
\* connection is not accepted with what it had -- unless this lookup's own
\* stat or read failed: then it answers from whatever was cached.
LookupIsCurrent ==
  \A t \in Threads :
    FineMtime /\ pc[t] = "done" /\ ~err[t]
      => \E c \in seen[t] \ {Missing} : res[t] = c[key[t]]

(***************************************************************************)
(* The strengthening under which LookupIsCurrent is inductive.             *)
(***************************************************************************)

\* Modification times only grow, and a goroutine's stat is in the past.
TimesInv ==
  /\ file # Missing => file.mtime = clock
  /\ mtime <= clock
  /\ \A t \in Threads : st[t] <= clock

\* A stat that still has the file's time is of the file as it is; a cache with
\* the last edit's time holds that edit.
LastInv == FineMtime /\ mtime = clock /\ file # Missing => keys = file.keys

\* Past a reload without error the cache holds contents seen since the lookup
\* began; at the lock it does if it carries the time of the stat.
ReloadInv == \A t \in Threads : FineMtime /\ ~err[t] =>
  /\ pc[t] = "look" => keys \in seen[t]
  /\ pc[t] = "lock" /\ st[t] = mtime => keys \in seen[t]

\* The file's present contents are among those seen by a busy lookup.
SeenInv == \A t \in Threads : Busy(t) => FileNow \in seen[t]

LockInv == \A t \in Threads : pc[t] = "read" <=> lock = t

AuthInv == TimesInv /\ LastInv /\ ReloadInv /\ SeenInv /\ LockInv /\ LookupIsCurrent
=============================================================================
