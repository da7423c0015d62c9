------------------------ MODULE RepositoryCacheProofs ------------------------
(***************************************************************************)
(* What RepositoryCache guarantees for every set of keys, requests and     *)
(* write methods, every kind of failure and any number of writes.          *)
(***************************************************************************)
EXTENDS RepositoryCache, TLAPS

\* Every step of the specification keeps the variables in their types.
THEOREM TypeInvariance == Spec => []TypeOK
<1>1. Init => TypeOK
  BY DEF Init, TypeOK, Reading, Working
<1>2. TypeOK /\ [Next]_vars => TypeOK'
  <2> SUFFICES ASSUME TypeOK, [Next]_vars
               PROVE  TypeOK'
    OBVIOUS
  <2> USE DEF TypeOK, Reading, Working
  <2>1. ASSUME NEW c \in Calls, NEW k \in Keys, ReadHit(c, k)
        PROVE  TypeOK'
    BY <2>1 DEF ReadHit
  <2>2. ASSUME NEW c \in Calls, NEW k \in Keys, NEW refresh \in BOOLEAN,
               NEW isTask \in BOOLEAN, ReadMiss(c, k, refresh, isTask)
        PROVE  TypeOK'
    BY <2>2 DEF ReadMiss
  <2>3. ASSUME NEW c \in Calls, NEW w \in Writes, NEW isTask \in BOOLEAN,
               StartWrite(c, w, isTask)
        PROVE  TypeOK'
    BY <2>3, WritesAssumption DEF StartWrite, ReadsOf
  <2>4. ASSUME NEW c \in Calls, ServiceAnswers(c)
        PROVE  TypeOK'
    BY <2>4 DEF ServiceAnswers
  <2>5. ASSUME NEW c \in Calls, ReadMasked(c)
        PROVE  TypeOK'
    BY <2>5 DEF ReadMasked, FaultKinds
  <2>6. ASSUME NEW c \in Calls, ReadThrows(c)
        PROVE  TypeOK'
    BY <2>6 DEF ReadThrows, FaultKinds
  <2>7. ASSUME NEW c \in Calls, ReadCancelled(c)
        PROVE  TypeOK'
    BY <2>7 DEF ReadCancelled, FaultKinds
  <2>8. ASSUME NEW c \in Calls, Fill(c)
        PROVE  TypeOK'
    BY <2>8 DEF Fill, Cacheable
  <2>9. ASSUME NEW c \in Calls, NEW k \in Keys, RemoveKey(c, k)
        PROVE  TypeOK'
    BY <2>9 DEF RemoveKey, Drop
  <2>10. ASSUME NEW c \in Calls, Commit(c)
         PROVE  TypeOK'
    BY <2>10 DEF Commit, Changed
  <2>11. ASSUME NEW c \in Calls, NEW kind \in Faults, WriteFails(c, kind)
         PROVE  TypeOK'
    BY <2>11, FaultsAssumption DEF WriteFails, Changed, FaultKinds
  <2>12. ASSUME NEW c \in Calls, Return(c)
         PROVE  TypeOK'
    BY <2>12 DEF Return
  <2>13. ASSUME NEW k \in Keys, Expire(k)
         PROVE  TypeOK'
    BY <2>13 DEF Expire, Drop
  <2>14. CASE UNCHANGED vars
    BY <2>14 DEF vars
  <2> QED
    BY <2>1, <2>2, <2>3, <2>4, <2>5, <2>6, <2>7, <2>8, <2>9, <2>10, <2>11,
       <2>12, <2>13, <2>14 DEF Next, Begin, Progress
<1> QED
  BY <1>1, <1>2, PTL DEF Spec

-----------------------------------------------------------------------------
(* Staleness.  That an entry is fresh is not inductive: it needs that an   *)
(* undisturbed read brings a fresh answer, that no write of its key is in  *)
(* progress until it has filled, and that a write which has removed the    *)
(* key finds the key still empty when its service call changes the content *)
(* (unless a disturbed read has filled it in between).                     *)

FreshEntry(k) == k \notin dirty => cache[k] \in {NoEntry, Zero, db[k]}
FreshAnswer(k) ==
  \A c \in ReadsOf(k) \ raced :
    pc[c] = "filling" => answer[c] \in {Null, Zero, db[k]}
NoWriteDuringRead(k) == ReadsOf(k) \ raced # {} => WritesOf(k) = {}
EmptyOnceRemoved(k) ==
  \A c \in WritesOf(k) : k \notin todo[c] /\ k \notin dirty => cache[k] = NoEntry

RaceInv == \A k \in Covered : /\ FreshEntry(k)
                              /\ FreshAnswer(k)
                              /\ NoWriteDuringRead(k)
                              /\ EmptyOnceRemoved(k)

\* The race invariant holds at the start and every step preserves it.
LEMMA RaceInvariance == Spec => []RaceInv
<1> USE DEF RaceInv, FreshEntry, FreshAnswer, NoWriteDuringRead, EmptyOnceRemoved
<1>1. Init => RaceInv
  BY DEF Init, Covered, ReadsOf, WritesOf, Reading
<1>2. TypeOK /\ RaceInv /\ [Next]_vars => RaceInv'
  <2> SUFFICES ASSUME TypeOK, RaceInv, [Next]_vars
               PROVE  RaceInv'
    OBVIOUS
  <2> USE DEF TypeOK, Reading, Working, ReadsOf, WritesOf
  <2>0. Covered' = Covered /\ Covered \subseteq Keys
    BY DEF Covered
  <2>1. ASSUME NEW c \in Calls, NEW k \in Keys, ReadHit(c, k)
        PROVE  RaceInv'
    BY <2>0, <2>1 DEF ReadHit
  <2>2. ASSUME NEW c \in Calls, NEW k \in Keys, NEW refresh \in BOOLEAN,
               NEW isTask \in BOOLEAN, ReadMiss(c, k, refresh, isTask)
        PROVE  RaceInv'
    BY <2>0, <2>2 DEF ReadMiss
  <2>3. ASSUME NEW c \in Calls, NEW w \in Writes, NEW isTask \in BOOLEAN,
               StartWrite(c, w, isTask)
        PROVE  RaceInv'
    BY <2>0, <2>3, WritesAssumption DEF StartWrite, Covered
  <2>4. ASSUME NEW c \in Calls, ServiceAnswers(c)
        PROVE  RaceInv'
    BY <2>0, <2>4 DEF ServiceAnswers
  <2>5. ASSUME NEW c \in Calls, ReadMasked(c)
        PROVE  RaceInv'
    BY <2>0, <2>5 DEF ReadMasked
  <2>6. ASSUME NEW c \in Calls, ReadThrows(c)
        PROVE  RaceInv'
    BY <2>0, <2>6 DEF ReadThrows
  <2>7. ASSUME NEW c \in Calls, ReadCancelled(c)
        PROVE  RaceInv'
    BY <2>0, <2>7 DEF ReadCancelled
  <2>8. ASSUME NEW c \in Calls, Fill(c)
        PROVE  RaceInv'
    BY <2>0, <2>8 DEF Fill, Cacheable
  <2>9. ASSUME NEW c \in Calls, NEW k \in Keys, RemoveKey(c, k)
        PROVE  RaceInv'
    BY <2>0, <2>9 DEF RemoveKey, Drop
  <2>10. ASSUME NEW c \in Calls, Commit(c)
         PROVE  RaceInv'
    BY <2>0, <2>10 DEF Commit, Changed
  <2>11. ASSUME NEW c \in Calls, NEW kind \in Faults, WriteFails(c, kind)
         PROVE  RaceInv'
    BY <2>0, <2>11 DEF WriteFails, Changed
  <2>12. ASSUME NEW c \in Calls, Return(c)
         PROVE  RaceInv'
    BY <2>0, <2>12 DEF Return
  <2>13. ASSUME NEW k \in Keys, Expire(k)
         PROVE  RaceInv'
    BY <2>0, <2>13 DEF Expire, Drop
  <2>14. CASE UNCHANGED vars
    BY <2>0, <2>14 DEF vars
  <2> HIDE DEF RaceInv, TypeOK
  <2> QED
    BY <2>1, <2>2, <2>3, <2>4, <2>5, <2>6, <2>7, <2>8, <2>9, <2>10, <2>11,
       <2>12, <2>13, <2>14 DEF Next, Begin, Progress
<1> QED
  BY <1>1, <1>2, TypeInvariance, PTL DEF Spec

\* An entry of a covered key that is neither current nor a masked default was
\* filled by a read that overlapped a write of the key.
THEOREM StaleOnlyByRaceHolds == Spec => []StaleOnlyByRace
<1>1. RaceInv => StaleOnlyByRace
  BY DEF RaceInv, FreshEntry, StaleOnlyByRace
<1> QED
  BY <1>1, RaceInvariance, PTL

-----------------------------------------------------------------------------
(* Nothing in the cache or on its way there comes from the future.         *)

PastInv ==
  /\ \A k \in Keys : cache[k] \in Nat => cache[k] <= db[k]
  /\ \A c \in Calls :
       pc[c] = "filling" /\ answer[c] \in Nat => answer[c] <= db[key[c]]

\* No entry and no answer is newer than what the back end holds.
LEMMA PastInvariance == Spec => []PastInv
<1>1. Init => PastInv
  BY SentinelsAssumption DEF Init, PastInv
<1>2. TypeOK /\ PastInv /\ [Next]_vars => PastInv'
  <2> SUFFICES ASSUME TypeOK, PastInv, [Next]_vars
               PROVE  PastInv'
    OBVIOUS
  <2> USE SentinelsAssumption DEF TypeOK, PastInv, Reading, Working
  <2>1. ASSUME NEW c \in Calls, Begin(c)
        PROVE  PastInv'
    BY <2>1 DEF Begin, ReadHit, ReadMiss, StartWrite
  <2>2. ASSUME NEW c \in Calls,
               ServiceAnswers(c) \/ ReadMasked(c) \/ ReadThrows(c) \/ ReadCancelled(c)
        PROVE  PastInv'
    BY <2>2 DEF ServiceAnswers, ReadMasked, ReadThrows, ReadCancelled
  <2>3. ASSUME NEW c \in Calls, Fill(c)
        PROVE  PastInv'
    BY <2>3 DEF Fill
  <2>4. ASSUME NEW c \in Calls, NEW k \in Keys, RemoveKey(c, k)
        PROVE  PastInv'
    BY <2>4 DEF RemoveKey, Drop
  <2>5. ASSUME NEW c \in Calls, Commit(c) \/ \E kind \in Faults : WriteFails(c, kind)
        PROVE  PastInv'
    BY <2>5 DEF Commit, WriteFails, Changed
  <2>6. ASSUME NEW c \in Calls, Return(c)
        PROVE  PastInv'
    BY <2>6 DEF Return
  <2>7. ASSUME NEW k \in Keys, Expire(k)
        PROVE  PastInv'
    BY <2>7 DEF Expire, Drop
  <2>8. CASE UNCHANGED vars
    BY <2>8 DEF vars
  <2> HIDE DEF TypeOK, PastInv
  <2> QED
    BY <2>1, <2>2, <2>3, <2>4, <2>5, <2>6, <2>7, <2>8 DEF Next, Progress
<1> QED
  BY <1>1, <1>2, TypeInvariance, PTL DEF Spec

\* An entry of a covered key filled by an undisturbed read is never replaced by
\* an older version: both the entry and its replacement were current, and
\* versions only grow.
THEOREM EntriesNeverGoBackHolds == Spec => EntriesNeverGoBack
<1> DEFINE Forward == \A k \in Covered \ dirty' :
             cache[k] \in Nat /\ cache'[k] \in Nat => cache'[k] >= cache[k]
<1>1. TypeOK /\ PastInv /\ RaceInv' /\ [Next]_vars => [Forward]_vars
  <2> SUFFICES ASSUME TypeOK, PastInv, RaceInv', [Next]_vars,
                      NEW k \in Covered, k \notin dirty',
                      cache[k] \in Nat, cache'[k] \in Nat
               PROVE  cache'[k] >= cache[k]
    OBVIOUS
  <2>1. k \in Keys /\ Covered' = Covered
    BY DEF Covered
  <2>2. db[k] \in Nat /\ db'[k] \in Nat /\ db'[k] >= db[k]
    BY <2>1 DEF TypeOK, Next, Begin, Progress, vars, ReadHit, ReadMiss, StartWrite,
       ServiceAnswers, ReadMasked, ReadThrows, ReadCancelled, Fill, RemoveKey, Drop,
       Commit, WriteFails, Changed, Return, Expire
  <2>3. cache'[k] = db'[k]
    BY <2>1, SentinelsAssumption DEF RaceInv, FreshEntry
  <2>4. cache[k] <= db[k]
    BY <2>1 DEF PastInv
  <2> QED
    BY <2>2, <2>3, <2>4
<1> QED
  BY <1>1, TypeInvariance, PastInvariance, RaceInvariance, PTL DEF Spec, EntriesNeverGoBack

-----------------------------------------------------------------------------
(* Blank answers.                                                          *)

\* A default that masks a failure is on its way into the cache only for a key
\* whose method returns a value type, in a repository that masks failures.
ZeroInv ==
  /\ NoBlankEntry
  /\ \A c \in Calls : pc[c] = "filling" /\ answer[c] = Zero
                        => key[c] \in ValueKeys /\ "masked" \in Faults

\* No null, no empty answer and no masked reference is ever cached.
THEOREM NoBlankEntryHolds == Spec => []NoBlankEntry
<1> USE SentinelsAssumption, VersionsAssumption DEF ZeroInv, NoBlankEntry
<1>1. Init => ZeroInv
  BY DEF Init
<1>2. TypeOK /\ ZeroInv /\ [Next]_vars => ZeroInv'
  <2> SUFFICES ASSUME TypeOK, ZeroInv, [Next]_vars
               PROVE  ZeroInv'
    OBVIOUS
  <2> USE DEF TypeOK, Reading, Working
  <2>1. ASSUME NEW c \in Calls, Begin(c)
        PROVE  ZeroInv'
    BY <2>1 DEF Begin, ReadHit, ReadMiss, StartWrite
  <2>2. ASSUME NEW c \in Calls,
               ServiceAnswers(c) \/ ReadMasked(c) \/ ReadThrows(c) \/ ReadCancelled(c)
        PROVE  ZeroInv'
    BY <2>2 DEF ServiceAnswers, ReadMasked, ReadThrows, ReadCancelled
  <2>3. ASSUME NEW c \in Calls, Fill(c)
        PROVE  ZeroInv'
    BY <2>3 DEF Fill, Cacheable
  <2>4. ASSUME NEW c \in Calls, NEW k \in Keys, RemoveKey(c, k)
        PROVE  ZeroInv'
    BY <2>4 DEF RemoveKey, Drop
  <2>5. ASSUME NEW c \in Calls, Commit(c) \/ \E kind \in Faults : WriteFails(c, kind)
        PROVE  ZeroInv'
    BY <2>5 DEF Commit, WriteFails
  <2>6. ASSUME NEW c \in Calls, Return(c)
        PROVE  ZeroInv'
    BY <2>6 DEF Return
  <2>7. ASSUME NEW k \in Keys, Expire(k)
        PROVE  ZeroInv'
    BY <2>7 DEF Expire, Drop
  <2>8. CASE UNCHANGED vars
    BY <2>8 DEF vars
  <2> HIDE DEF TypeOK, ZeroInv
  <2> QED
    BY <2>1, <2>2, <2>3, <2>4, <2>5, <2>6, <2>7, <2>8 DEF Next, Progress
<1>3. ZeroInv => NoBlankEntry
  OBVIOUS
<1> HIDE DEF ZeroInv, NoBlankEntry
<1> QED
  BY <1>1, <1>2, <1>3, TypeInvariance, PTL DEF Spec
-----------------------------------------------------------------------------
(* The cache as ReadThrough describes it.                                    *)

\* What a step does to the content, the entries and the suspicion of the covered keys.
LEMMA FillIsLearning ==
  ASSUME TypeOK, RaceInv, PastInv, NEW c \in Calls, Fill(c)
  PROVE  [Abstract!Next]_Abstract!vars
<1>0. PICK k \in Keys : k = key[c]
  BY DEF Fill, TypeOK, Reading
<1> DEFINE v == answer[c]
<1>1. k = key[c] /\ db[k] \in Nat /\ v \in Nat \union {Zero, Null} /\ Covered \subseteq Keys
  BY <1>0 DEF TypeOK, Covered
<1>2. Covered' = Covered /\ db' = db
  BY DEF Fill, Covered
<1>3. CASE ~Cacheable(v) \/ k \notin Covered
  <2>1. \A j \in Covered : cache'[j] = cache[j]
    BY <1>1, <1>3 DEF Fill, TypeOK
  <2>2. dirty' \intersect Covered = dirty \intersect Covered
    BY <1>1, <1>3 DEF Fill
  <2> QED
    BY <1>2, <2>1, <2>2 DEF Abstract!vars
<1>4. CASE Cacheable(v) /\ k \in Covered
  <2>1. Abstract!Enter(k, v)
    BY <1>1, <1>2, <1>4 DEF Fill, Abstract!Enter, TypeOK
  <2>2. CASE c \notin raced
    <3>1. v \in {Zero, db[k]}
      BY <1>1, <1>4, <2>2 DEF RaceInv, FreshAnswer, ReadsOf, Reading, Fill, Cacheable
    <3>2. dirty' = dirty \ {k}
      BY <1>0, <1>4, <2>2 DEF Fill
    <3>3. Abstract!Learn(k)
      BY <1>4, <2>1, <3>1, <3>2 DEF Abstract!Learn, Abstract!Enter
    <3> QED
      BY <1>4, <3>3 DEF Abstract!Next
  <2>3. CASE c \in raced
    <3>1. v = Zero \/ v \in 0..db[k]
      BY <1>1, <1>4 DEF PastInv, Fill, Cacheable
    <3>2. dirty' = dirty \union {k}
      BY <1>0, <1>4, <2>3 DEF Fill
    <3>3. Abstract!Misread(k)
      BY <1>4, <2>1, <3>1, <3>2 DEF Abstract!Misread, Abstract!Enter
    <3> QED
      BY <1>4, <3>3 DEF Abstract!Next
  <2> QED
    BY <2>2, <2>3
<1> QED
  BY <1>3, <1>4

\* An entry that goes is forgotten.
LEMMA DropIsForgetting ==
  ASSUME TypeOK, NEW k \in Keys, Drop(k), UNCHANGED db
  PROVE  [Abstract!Next]_Abstract!vars
<1>1. Covered' = Covered /\ Covered \subseteq Keys
  BY DEF Covered
<1>2. CASE k \in Covered
  <2>1. Abstract!Forget(k)
    BY <1>1, <1>2 DEF Drop, Abstract!Forget, Abstract!Enter, TypeOK
  <2> QED
    BY <1>2, <2>1 DEF Abstract!Next
<1>3. CASE k \notin Covered
  BY <1>1, <1>3 DEF Drop, TypeOK, Abstract!vars
<1> QED
  BY <1>2, <1>3

\* A service call changes content that has no entry, or a suspect one.
LEMMA CommitIsChange ==
  ASSUME TypeOK, RaceInv, NEW c \in Calls, pc[c] = "writing", todo[c] = {}, db' = Changed(c),
         UNCHANGED <<cache, dirty>>
  PROVE  [Abstract!Next]_Abstract!vars
<1>0. PICK S : S = Changes[op[c]] \intersect Covered
  OBVIOUS
<1>1. Covered' = Covered /\ Covered \subseteq Keys
  BY DEF Covered
<1>2. ASSUME NEW k \in S \ (dirty \intersect Covered) PROVE cache[k] = NoEntry
  BY <1>0, <1>1, <1>2 DEF RaceInv, EmptyOnceRemoved, WritesOf
<1>3. \A k \in Covered : db'[k] = IF k \in S THEN db[k] + 1 ELSE db[k]
  BY <1>0, <1>1 DEF Changed
<1>4. Abstract!Change(S)
  BY <1>0, <1>1, <1>2, <1>3 DEF Abstract!Change
<1> QED
  BY <1>0, <1>4 DEF Abstract!Next

\* Every step is one of ReadThrough's, or changes nothing it sees.
LEMMA ReadThroughStep ==
  ASSUME TypeOK, RaceInv, PastInv, [Next]_vars
  PROVE  [Abstract!Next]_Abstract!vars
<1>1. ASSUME UNCHANGED <<db, cache, dirty>> PROVE [Abstract!Next]_Abstract!vars
  BY <1>1 DEF Abstract!vars, Covered
<1>2. ASSUME NEW c \in Calls, Begin(c) PROVE [Abstract!Next]_Abstract!vars
  BY <1>1, <1>2 DEF Begin, ReadHit, ReadMiss, StartWrite
<1>3. ASSUME NEW c \in Calls, ServiceAnswers(c) \/ ReadMasked(c) \/ ReadThrows(c)
                                \/ ReadCancelled(c) \/ Return(c)
      PROVE  [Abstract!Next]_Abstract!vars
  BY <1>1, <1>3 DEF ServiceAnswers, ReadMasked, ReadThrows, ReadCancelled, Return
<1>4. ASSUME NEW c \in Calls, Fill(c) PROVE [Abstract!Next]_Abstract!vars
  BY <1>4, FillIsLearning
<1>5. ASSUME NEW c \in Calls, NEW k \in Keys, RemoveKey(c, k)
      PROVE  [Abstract!Next]_Abstract!vars
  BY <1>5, DropIsForgetting DEF RemoveKey
<1>6. ASSUME NEW c \in Calls, Commit(c) PROVE [Abstract!Next]_Abstract!vars
  BY <1>6, CommitIsChange DEF Commit
<1>7. ASSUME NEW c \in Calls, NEW kind \in Faults, WriteFails(c, kind)
      PROVE  [Abstract!Next]_Abstract!vars
  <2>1. CASE db' = db
    BY <1>1, <1>7, <2>1 DEF WriteFails
  <2>2. CASE db' = Changed(c)
    BY <1>7, <2>2, CommitIsChange DEF WriteFails
  <2> QED
    BY <1>7, <2>1, <2>2 DEF WriteFails
<1>8. ASSUME NEW k \in Keys, Expire(k) PROVE [Abstract!Next]_Abstract!vars
  BY <1>8, DropIsForgetting DEF Expire
<1>9. CASE UNCHANGED vars
  BY <1>1, <1>9 DEF vars
<1> QED
  BY <1>2, <1>3, <1>4, <1>5, <1>6, <1>7, <1>8, <1>9 DEF Next, Progress

\* A repository's cache, seen from the keys every write of theirs invalidates, is a
\* cache that learns and forgets in single steps, for every set of keys, requests and
\* writes and every kind of failure.
THEOREM CacheImplementsReadThrough == Spec => ImplementsReadThrough
<1>1. Init => Abstract!Init
  BY DEF Init, Covered, Abstract!Init
<1> QED
  BY <1>1, ReadThroughStep, TypeInvariance, RaceInvariance, PastInvariance, PTL
     DEF Spec, ImplementsReadThrough, Abstract!Spec
=============================================================================
