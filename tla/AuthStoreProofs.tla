-------------------------- MODULE AuthStoreProofs ---------------------------
(***************************************************************************)
(* Theorems about AuthStore, for any number of concurrent handshakes, keys *)
(* and edits.                                                              *)
(***************************************************************************)
EXTENDS AuthStore, TLAPS

(***************************************************************************)
(* Type correctness.                                                       *)
(***************************************************************************)

\* The state after the server's first load is well typed.
LEMMA InitTypeOK == Init => TypeOK
  BY AuthAssumption DEF Init, TypeOK, Files

\* Lookups and edits preserve the types.
LEMMA NextTypeOK == TypeOK /\ [Next]_vars => TypeOK'
<1> SUFFICES ASSUME TypeOK, [Next]_vars PROVE TypeOK'
  OBVIOUS
<1> USE AuthAssumption DEF TypeOK, Files, authVars, fileVars
<1>1. ASSUME NEW c \in Contents, Edit(c) PROVE TypeOK'
  <2>1. clock' \in Nat /\ file' = [mtime |-> clock', keys |-> c]
    BY <1>1 DEF Edit
  <2>2. seen' \in [Threads -> SUBSET (Contents \cup {Missing})]
    BY <1>1 DEF Edit, Witness
  <2> QED BY <1>1, <2>1, <2>2 DEF Edit
<1>2. CASE Remove
  BY <1>2 DEF Remove, Witness
<1>3. ASSUME NEW t \in Threads, Begin(t) PROVE TypeOK'
  BY <1>3 DEF Begin, FileNow
<1>4. ASSUME NEW t \in Threads, StatOK(t) PROVE TypeOK'
  BY <1>4 DEF StatOK
<1>5. ASSUME NEW t \in Threads, StatFails(t) PROVE TypeOK'
  BY <1>5 DEF StatFails
<1>6. ASSUME NEW t \in Threads, Unmodified(t) PROVE TypeOK'
  BY <1>6 DEF Unmodified
<1>7. ASSUME NEW t \in Threads, Modified(t) PROVE TypeOK'
  BY <1>7 DEF Modified
<1>8. ASSUME NEW t \in Threads, ReadOK(t) PROVE TypeOK'
  BY <1>8 DEF ReadOK
<1>9. ASSUME NEW t \in Threads, ReadFails(t) PROVE TypeOK'
  BY <1>9 DEF ReadFails
<1>10. ASSUME NEW t \in Threads, Look(t) PROVE TypeOK'
  BY <1>10 DEF Look, Contents
<1>11. CASE UNCHANGED vars
  BY <1>11 DEF vars
<1> QED
  BY <1>1, <1>2, <1>3, <1>4, <1>5, <1>6, <1>7, <1>8, <1>9, <1>10, <1>11 DEF Next

(***************************************************************************)
(* Lookups answer from the file as it was while they ran.                  *)
(***************************************************************************)

\* After the first load the cache is the file.
LEMMA InitAuthInv == Init => AuthInv
  BY AuthAssumption DEF Init, AuthInv, TimesInv, LastInv, ReloadInv, SeenInv, LockInv,
     LookupIsCurrent, Busy

\* Every step of a lookup or of the operator preserves the invariant.
LEMMA NextAuthInv == TypeOK /\ AuthInv /\ [Next]_vars => AuthInv'
<1> SUFFICES ASSUME TypeOK, AuthInv, [Next]_vars PROVE AuthInv'
  OBVIOUS
<1> USE AuthAssumption
<1> USE DEF TypeOK, Files, authVars, fileVars, AuthInv, TimesInv, LastInv, ReloadInv,
            SeenInv, LockInv, LookupIsCurrent, Busy, FileNow
<1>1. ASSUME NEW c \in Contents, Edit(c) PROVE AuthInv'
  <2>1. TimesInv'
    BY <1>1 DEF Edit, Witness
  <2>2. LastInv'
    BY <1>1 DEF Edit, Witness
  <2>3. ReloadInv'
    BY <1>1 DEF Edit, Witness
  <2>4. SeenInv'
    BY <1>1 DEF Edit, Witness
  <2>5. LockInv'
    BY <1>1 DEF Edit, Witness
  <2>6. LookupIsCurrent'
    BY <1>1 DEF Edit, Witness
  <2> QED BY <2>1, <2>2, <2>3, <2>4, <2>5, <2>6
<1>2. ASSUME Remove PROVE AuthInv'
  <2>1. TimesInv'
    BY <1>2 DEF Remove, Witness
  <2>2. LastInv'
    BY <1>2 DEF Remove, Witness
  <2>3. ReloadInv'
    BY <1>2 DEF Remove, Witness
  <2>4. SeenInv'
    BY <1>2 DEF Remove, Witness
  <2>5. LockInv'
    BY <1>2 DEF Remove, Witness
  <2>6. LookupIsCurrent'
    BY <1>2 DEF Remove, Witness
  <2> QED BY <2>1, <2>2, <2>3, <2>4, <2>5, <2>6
<1>3. ASSUME NEW t \in Threads, Begin(t) PROVE AuthInv'
  <2>1. TimesInv'
    BY <1>3 DEF Begin
  <2>2. LastInv'
    BY <1>3 DEF Begin
  <2>3. ReloadInv'
    BY <1>3 DEF Begin
  <2>4. SeenInv'
    BY <1>3 DEF Begin
  <2>5. LockInv'
    BY <1>3 DEF Begin
  <2>6. LookupIsCurrent'
    BY <1>3 DEF Begin
  <2> QED BY <2>1, <2>2, <2>3, <2>4, <2>5, <2>6
<1>4. ASSUME NEW t \in Threads, StatOK(t) PROVE AuthInv'
  <2>1. TimesInv'
    BY <1>4 DEF StatOK
  <2>2. LastInv'
    BY <1>4 DEF StatOK
  <2>3. ReloadInv'
    BY <1>4 DEF StatOK
  <2>4. SeenInv'
    BY <1>4 DEF StatOK
  <2>5. LockInv'
    BY <1>4 DEF StatOK
  <2>6. LookupIsCurrent'
    BY <1>4 DEF StatOK
  <2> QED BY <2>1, <2>2, <2>3, <2>4, <2>5, <2>6
<1>5. ASSUME NEW t \in Threads, StatFails(t) PROVE AuthInv'
  <2>1. TimesInv'
    BY <1>5 DEF StatFails
  <2>2. LastInv'
    BY <1>5 DEF StatFails
  <2>3. ReloadInv'
    BY <1>5 DEF StatFails
  <2>4. SeenInv'
    BY <1>5 DEF StatFails
  <2>5. LockInv'
    BY <1>5 DEF StatFails
  <2>6. LookupIsCurrent'
    BY <1>5 DEF StatFails
  <2> QED BY <2>1, <2>2, <2>3, <2>4, <2>5, <2>6
<1>6. ASSUME NEW t \in Threads, Unmodified(t) PROVE AuthInv'
  <2>1. TimesInv'
    BY <1>6 DEF Unmodified, SameMtime
  <2>2. LastInv'
    BY <1>6 DEF Unmodified, SameMtime
  <2>3. ReloadInv'
    BY <1>6 DEF Unmodified, SameMtime
  <2>4. SeenInv'
    BY <1>6 DEF Unmodified, SameMtime
  <2>5. LockInv'
    BY <1>6 DEF Unmodified, SameMtime
  <2>6. LookupIsCurrent'
    BY <1>6 DEF Unmodified, SameMtime
  <2> QED BY <2>1, <2>2, <2>3, <2>4, <2>5, <2>6
<1>7. ASSUME NEW t \in Threads, Modified(t) PROVE AuthInv'
  <2>1. TimesInv'
    BY <1>7 DEF Modified, SameMtime
  <2>2. LastInv'
    BY <1>7 DEF Modified, SameMtime
  <2>3. ReloadInv'
    BY <1>7 DEF Modified, SameMtime
  <2>4. SeenInv'
    BY <1>7 DEF Modified, SameMtime
  <2>5. LockInv'
    BY <1>7 DEF Modified, SameMtime
  <2>6. LookupIsCurrent'
    BY <1>7 DEF Modified, SameMtime
  <2> QED BY <2>1, <2>2, <2>3, <2>4, <2>5, <2>6
<1>8. ASSUME NEW t \in Threads, ReadOK(t) PROVE AuthInv'
  <2>1. TimesInv'
    BY <1>8 DEF ReadOK
  <2>2. LastInv'
    BY <1>8 DEF ReadOK
  <2>3. ReloadInv'
    BY <1>8 DEF ReadOK
  <2>4. SeenInv'
    BY <1>8 DEF ReadOK
  <2>5. LockInv'
    BY <1>8 DEF ReadOK
  <2>6. LookupIsCurrent'
    BY <1>8 DEF ReadOK
  <2> QED BY <2>1, <2>2, <2>3, <2>4, <2>5, <2>6
<1>9. ASSUME NEW t \in Threads, ReadFails(t) PROVE AuthInv'
  <2>1. TimesInv'
    BY <1>9 DEF ReadFails
  <2>2. LastInv'
    BY <1>9 DEF ReadFails
  <2>3. ReloadInv'
    BY <1>9 DEF ReadFails
  <2>4. SeenInv'
    BY <1>9 DEF ReadFails
  <2>5. LockInv'
    BY <1>9 DEF ReadFails
  <2>6. LookupIsCurrent'
    BY <1>9 DEF ReadFails
  <2> QED BY <2>1, <2>2, <2>3, <2>4, <2>5, <2>6
<1>10. ASSUME NEW t \in Threads, Look(t) PROVE AuthInv'
  <2>1. TimesInv'
    BY <1>10 DEF Look
  <2>2. LastInv'
    BY <1>10 DEF Look
  <2>3. ReloadInv'
    BY <1>10 DEF Look
  <2>4. SeenInv'
    BY <1>10 DEF Look
  <2>5. LockInv'
    BY <1>10 DEF Look
  <2>6. LookupIsCurrent'
    BY <1>10 DEF Look
  <2> QED BY <2>1, <2>2, <2>3, <2>4, <2>5, <2>6
<1>11. CASE UNCHANGED vars
  BY <1>11 DEF vars
<1> QED
  BY <1>1, <1>2, <1>3, <1>4, <1>5, <1>6, <1>7, <1>8, <1>9, <1>10, <1>11 DEF Next

\* The invariant holds in every reachable state.
LEMMA AuthInvHolds == Spec => [](TypeOK /\ AuthInv)
  BY InitTypeOK, NextTypeOK, InitAuthInv, NextAuthInv, PTL DEF Spec

\* A key lookup answers from contents authorized_keys had while it ran.
THEOREM LookupsAreCurrent == Spec => []LookupIsCurrent
  BY AuthInvHolds, PTL DEF AuthInv

\* A cache that carries the file's modification time holds the file's keys.
THEOREM CacheIsCurrent == Spec => []CacheCurrent
<1>1. TypeOK /\ AuthInv => CacheCurrent
  BY DEF AuthInv, TimesInv, LastInv, CacheCurrent
<1> QED BY <1>1, AuthInvHolds, PTL
=============================================================================
