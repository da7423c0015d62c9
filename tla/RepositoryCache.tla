---------------------------- MODULE RepositoryCache ----------------------------
(***************************************************************************)
(* The interceptor chain every repository of Gro.Infrastructure.Data is    *)
(* wrapped in: CacheInterceptor outside, ErrorInterceptor inside, then the *)
(* repository method and the back-end service it calls.  One instance of   *)
(* this module is one repository implementation: its proxies (one per HTTP *)
(* context) share one region of HttpRuntime.Cache.                         *)
(*                                                                         *)
(* A read method carries [Cache]; it looks its key up, and on a miss (or   *)
(* when the refresh parameter is true) calls the service, then stores the  *)
(* answer.  A write method carries [CacheInvalidate] attributes; it        *)
(* removes the keys they name FIRST and only then calls the service.       *)
(* Nothing locks, so the steps of different requests interleave.           *)
(*                                                                         *)
(* The content behind a key is a version number, raised by every write     *)
(* that changes it.  What a version says does not matter, except whether   *)
(* the service answers it with null or an empty list (EmptyVersions).      *)
(***************************************************************************)
EXTENDS Naturals, FiniteSets

CONSTANTS
  Keys,          \* the cache keys of the repository's [Cache] methods
  ValueKeys,     \* those whose method returns a value type (int, bool)
  RefreshKeys,   \* those whose method has a [RefreshCacheParam]
  Calls,         \* the requests (HTTP contexts) that call the repository
  Writes,        \* the methods that change back-end data, ours or others'
  Removes,       \* Removes[w]: the keys w's [CacheInvalidate]s format to
  Changes,       \* Changes[w]: the keys whose content w's service call changes
  Faults,        \* how a service call of this repository can fail
  EmptyVersions, \* the versions answered by null or an empty enumerable
  MaxWrites,     \* bound: the number of writes started
  NoEntry,       \* the cache has nothing under a key
  Zero,          \* default(T) of a value type: 0, false
  Null           \* null: default(T) of a reference type, or an exception

FaultKinds == {"masked", "thrown", "cancelled"}

ASSUME KeysAssumption == ValueKeys \subseteq Keys /\ RefreshKeys \subseteq Keys
ASSUME WritesAssumption == /\ Removes \in [Writes -> SUBSET Keys]
                           /\ Changes \in [Writes -> SUBSET Keys]
ASSUME FaultsAssumption == Faults \subseteq FaultKinds
ASSUME VersionsAssumption == EmptyVersions \subseteq Nat /\ MaxWrites \in Nat
ASSUME SentinelsAssumption ==
  /\ NoEntry \notin Nat /\ Zero \notin Nat /\ Null \notin Nat
  /\ NoEntry # Zero /\ NoEntry # Null /\ Zero # Null

VARIABLES
  db,      \* db[k]: the version of k's content the back end holds now
  cache,   \* cache[k]: what HttpRuntime.Cache holds under k
  pc,      \* pc[c]: where request c is in its call
  async,   \* async[c]: the method c called returns a Task
  key,     \* key[c]: the key of the read c executes
  answer,  \* answer[c]: what the service call of c returned
  op,      \* op[c]: the write method c executes
  todo,    \* todo[c]: the keys c's write has still to remove
  writes,  \* the number of writes started (bounded by MaxWrites)
  fault,   \* history: fault[c]: how the service call of c failed, or Null
  raced,   \* history: the requests whose read overlapped a write of its key
  dirty    \* history: the keys whose entry was filled by such a read

vars == <<db, cache, pc, async, key, answer, op, todo, writes, fault, raced, dirty>>

Reading == {"reading", "filling"}
Working == Reading \union {"writing"}

\* The requests whose read of k is between its lookup and the end of its fill.
ReadsOf(k) == {c \in Calls : pc[c] \in Reading /\ key[c] = k}
\* The requests executing a write that changes k and has not returned.
WritesOf(k) == {c \in Calls : pc[c] = "writing" /\ k \in Changes[op[c]]}

TypeOK ==
  /\ db \in [Keys -> Nat]
  /\ cache \in [Keys -> Nat \union {NoEntry, Zero}]
  /\ pc \in [Calls -> Working \union {"idle", "done", "hung"}]
  /\ async \in [Calls -> BOOLEAN]
  /\ key \in [Calls -> Keys \union {Null}]
  /\ answer \in [Calls -> Nat \union {Zero, Null}]
  /\ op \in [Calls -> Writes \union {Null}]
  /\ todo \in [Calls -> SUBSET Keys]
  /\ writes \in Nat
  /\ fault \in [Calls -> FaultKinds \union {Null}]
  /\ raced \subseteq Calls /\ dirty \subseteq Keys
  /\ \A c \in Calls : /\ pc[c] \in Reading => key[c] \in Keys
                      /\ pc[c] = "writing" => op[c] \in Writes

Init ==
  /\ db = [k \in Keys |-> 0]
  /\ cache = [k \in Keys |-> NoEntry]
  /\ pc = [c \in Calls |-> "idle"]
  /\ async = [c \in Calls |-> FALSE]
  /\ key = [c \in Calls |-> Null]
  /\ answer = [c \in Calls |-> Null]
  /\ op = [c \in Calls |-> Null]
  /\ todo = [c \in Calls |-> {}]
  /\ writes = 0
  /\ fault = [c \in Calls |-> Null]
  /\ raced = {} /\ dirty = {}

-----------------------------------------------------------------------------
(* The cache: HttpRuntime.Cache behind GroRuntimeCache.                      *)

\* Variant: null is not asked about.
CacheableNull(v) == v \notin EmptyVersions

\* AddCache stores nothing for null and for an empty enumerable.
Cacheable(v) == v # Null /\ v \notin EmptyVersions

Drop(k) ==
  /\ cache' = [cache EXCEPT ![k] = NoEntry]
  /\ dirty' = dirty \ {k}

\* Variant: entries are inserted without an expiration.
NeverExpire(k) == FALSE

\* The entry reaches its absolute expiration (20 minutes), or the runtime
\* evicts it under memory pressure.
Expire(k) ==
  /\ cache[k] # NoEntry
  /\ Drop(k)
  /\ UNCHANGED <<db, pc, async, key, answer, op, todo, writes, fault, raced>>

-----------------------------------------------------------------------------
(* Reads: HandleReadMethod and HandleAsyncReadMethod.                        *)

\* The lookup hits: the call returns the entry, the service is not called.
ReadHit(c, k) ==
  /\ pc[c] = "idle" /\ cache[k] # NoEntry
  /\ pc' = [pc EXCEPT ![c] = "done"]
  /\ UNCHANGED <<db, cache, async, key, answer, op, todo, writes, fault, raced, dirty>>

\* The lookup misses, or the caller asks for a refresh: Proceed.
ReadMiss(c, k, refresh, isTask) ==
  /\ pc[c] = "idle"
  /\ refresh => k \in RefreshKeys
  /\ refresh \/ cache[k] = NoEntry
  /\ pc' = [pc EXCEPT ![c] = "reading"]
  /\ async' = [async EXCEPT ![c] = isTask]
  /\ key' = [key EXCEPT ![c] = k]
  /\ raced' = IF WritesOf(k) # {} THEN raced \union {c} ELSE raced \ {c}
  /\ UNCHANGED <<db, cache, answer, op, todo, writes, fault, dirty>>

\* Variant: the key does not tell the arguments apart, and the answer stored
\* under it may be another query's.
ServiceAnswersAnother(c) ==
  /\ pc[c] = "reading"
  /\ \E k \in Keys : answer' = [answer EXCEPT ![c] = db[k]]
  /\ pc' = [pc EXCEPT ![c] = "filling"]
  /\ UNCHANGED <<db, cache, async, key, op, todo, writes, fault, raced, dirty>>

\* The service answers from what it holds at this moment.
ServiceAnswers(c) ==
  /\ pc[c] = "reading"
  /\ answer' = [answer EXCEPT ![c] = db[key[c]]]
  /\ pc' = [pc EXCEPT ![c] = "filling"]
  /\ UNCHANGED <<db, cache, async, key, op, todo, writes, fault, raced, dirty>>

\* Variant: the masked branch of the continuation does not set a result.
ReadMaskedLost(c) ==
  /\ pc[c] = "reading" /\ "masked" \in Faults
  /\ pc' = [pc EXCEPT ![c] = "hung"]
  /\ fault' = [fault EXCEPT ![c] = "masked"]
  /\ UNCHANGED <<db, cache, async, key, answer, op, todo, writes, raced, dirty>>

\* The service fails with an exception the repository does not let through:
\* ErrorInterceptor answers default(T) in its place.
ReadMasked(c) ==
  /\ pc[c] = "reading" /\ "masked" \in Faults
  /\ answer' = [answer EXCEPT ![c] = IF key[c] \in ValueKeys THEN Zero ELSE Null]
  /\ pc' = [pc EXCEPT ![c] = "filling"]
  /\ fault' = [fault EXCEPT ![c] = "masked"]
  /\ UNCHANGED <<db, cache, async, key, op, todo, writes, raced, dirty>>

\* The service fails with an exception the repository throws.  A synchronous
\* read hands it to its caller.  On a task the continuation that would complete
\* the caller's task throws instead, and that task never completes; a service
\* call that throws before it yields a task is thrown like a synchronous one.
ReadThrows(c) ==
  /\ pc[c] = "reading" /\ "thrown" \in Faults
  /\ \E atOnce \in BOOLEAN :
       pc' = [pc EXCEPT ![c] = IF async[c] /\ ~atOnce THEN "hung" ELSE "done"]
  /\ fault' = [fault EXCEPT ![c] = "thrown"]
  /\ UNCHANGED <<db, cache, async, key, answer, op, todo, writes, raced, dirty>>

\* The service's task is cancelled: ErrorInterceptor's continuation handles
\* faulted and completed tasks only, and leaves the caller's task pending.
ReadCancelled(c) ==
  /\ pc[c] = "reading" /\ async[c] /\ "cancelled" \in Faults
  /\ pc' = [pc EXCEPT ![c] = "hung"]
  /\ fault' = [fault EXCEPT ![c] = "cancelled"]
  /\ UNCHANGED <<db, cache, async, key, answer, op, todo, writes, raced, dirty>>

\* AddCache, then the result goes to the caller.
Fill(c) ==
  /\ pc[c] = "filling"
  /\ IF Cacheable(answer[c])
       THEN /\ cache' = [cache EXCEPT ![key[c]] = answer[c]]
            /\ dirty' = IF c \in raced THEN dirty \union {key[c]} ELSE dirty \ {key[c]}
       ELSE UNCHANGED <<cache, dirty>>
  /\ pc' = [pc EXCEPT ![c] = "done"]
  /\ answer' = [answer EXCEPT ![c] = Null]
  /\ raced' = raced \ {c}
  /\ UNCHANGED <<db, async, key, op, todo, writes, fault>>

-----------------------------------------------------------------------------
(* Writes: HandleWriteMethod.                                                *)

\* Variant: the attributes are looked for on the implementation, which has none.
StartWriteBlind(c, w, isTask) ==
  /\ pc[c] = "idle" /\ writes < MaxWrites
  /\ pc' = [pc EXCEPT ![c] = "writing"]
  /\ async' = [async EXCEPT ![c] = isTask]
  /\ op' = [op EXCEPT ![c] = w]
  /\ todo' = [todo EXCEPT ![c] = {}]
  /\ writes' = writes + 1
  /\ raced' = raced \union UNION {ReadsOf(k) : k \in Changes[w]}
  /\ UNCHANGED <<db, cache, key, answer, fault, dirty>>

StartWrite(c, w, isTask) ==
  /\ pc[c] = "idle" /\ writes < MaxWrites
  /\ pc' = [pc EXCEPT ![c] = "writing"]
  /\ async' = [async EXCEPT ![c] = isTask]
  /\ op' = [op EXCEPT ![c] = w]
  /\ todo' = [todo EXCEPT ![c] = Removes[w]]
  /\ writes' = writes + 1
  /\ raced' = raced \union UNION {ReadsOf(k) : k \in Changes[w]}
  /\ UNCHANGED <<db, cache, key, answer, fault, dirty>>

\* One [CacheInvalidate] attribute.
RemoveKey(c, k) ==
  /\ pc[c] = "writing" /\ k \in todo[c]
  /\ todo' = [todo EXCEPT ![c] = @ \ {k}]
  /\ Drop(k)
  /\ UNCHANGED <<db, pc, async, key, answer, op, writes, fault, raced>>

\* The content after the service has executed c's write.
Changed(c) == [k \in Keys |-> IF k \in Changes[op[c]] THEN db[k] + 1 ELSE db[k]]

\* Variant: the service is called before the keys are removed.
CommitEarly(c) ==
  /\ pc[c] = "writing"
  /\ db' = Changed(c)
  /\ pc' = [pc EXCEPT ![c] = "done"]
  /\ UNCHANGED <<cache, async, key, answer, op, todo, writes, fault, raced, dirty>>

\* Proceed, once every key is removed: the service makes the change.
Commit(c) ==
  /\ pc[c] = "writing" /\ todo[c] = {}
  /\ db' = Changed(c)
  /\ pc' = [pc EXCEPT ![c] = "done"]
  /\ UNCHANGED <<cache, async, key, answer, op, todo, writes, fault, raced, dirty>>

\* Proceed fails, before or after the service made the change.  Masked or
\* thrown, the caller gets an answer; a cancelled task never completes.
WriteFails(c, kind) ==
  /\ pc[c] = "writing" /\ todo[c] = {}
  /\ kind = "cancelled" => async[c]
  /\ db' \in {db, Changed(c)}
  /\ pc' = [pc EXCEPT ![c] = IF kind = "cancelled" THEN "hung" ELSE "done"]
  /\ fault' = [fault EXCEPT ![c] = kind]
  /\ UNCHANGED <<cache, async, key, answer, op, todo, writes, raced, dirty>>

-----------------------------------------------------------------------------
\* The request goes on and may call again.
Return(c) ==
  /\ pc[c] = "done"
  /\ pc' = [pc EXCEPT ![c] = "idle"]
  /\ async' = [async EXCEPT ![c] = FALSE]
  /\ key' = [key EXCEPT ![c] = Null]
  /\ op' = [op EXCEPT ![c] = Null]
  /\ fault' = [fault EXCEPT ![c] = Null]
  /\ raced' = raced \ {c}
  /\ UNCHANGED <<db, cache, answer, todo, writes, dirty>>

Progress(c) ==
  \/ ServiceAnswers(c)
  \/ ReadMasked(c)
  \/ ReadThrows(c)
  \/ ReadCancelled(c)
  \/ Fill(c)
  \/ \E k \in Keys : RemoveKey(c, k)
  \/ Commit(c)
  \/ \E kind \in Faults : WriteFails(c, kind)
  \/ Return(c)

Begin(c) ==
  \/ \E k \in Keys : ReadHit(c, k)
  \/ \E k \in Keys, refresh, isTask \in BOOLEAN : ReadMiss(c, k, refresh, isTask)
  \/ \E w \in Writes, isTask \in BOOLEAN : StartWrite(c, w, isTask)

Next ==
  \/ \E c \in Calls : Begin(c) \/ Progress(c)
  \/ \E k \in Keys : Expire(k)

Spec == Init /\ [][Next]_vars

\* A request that is being served is scheduled again, its service call ends one
\* way or the other (WCF has a send timeout), and an entry reaches its absolute
\* expiration.
FairSpec == /\ Spec
            /\ \A c \in Calls : WF_vars(Progress(c))
            /\ \A k \in Keys : WF_vars(Expire(k))

-----------------------------------------------------------------------------
(* Properties.                                                               *)

\* The keys that every write which changes them also invalidates.
Covered == {k \in Keys : \A w \in Writes : k \in Changes[w] => k \in Removes[w]}

\* Remove-then-write, without a lock, leaves a stale entry only one way: the read
\* that filled it was in flight during a write of its key.  Every other entry
\* is the back end's current content or the default value of a masked failure,
\* however the reads and writes of all keys interleave, and the next fill by a
\* read that no write disturbed (a refresh, say) repairs a stale one.
StaleOnlyByRace ==
  \A k \in Covered \ dirty : cache[k] \in {NoEntry, Zero, db[k]}

\* A cache entry answers for the service: a null or empty answer, or the null
\* that masks a failure, never occupies a key, so data that appears later is
\* seen by the next read and a failed reference-typed read is retried.
NoBlankEntry ==
  \A k \in Keys : /\ cache[k] # Null /\ cache[k] \notin EmptyVersions
                  /\ cache[k] = Zero => k \in ValueKeys /\ "masked" \in Faults

\* While an entry lives it is replaced by nothing older: of two reads that fill
\* the same key (two misses, a miss and a refresh) the one answered first may
\* fill last, and brings an old version back only where a write disturbed it.
EntriesNeverGoBack ==
  [][\A k \in Covered \ dirty' :
       cache[k] \in Nat /\ cache'[k] \in Nat => cache'[k] >= cache[k]]_vars

\* However its requests interleave and fail, a repository's cache is one that learns
\* and forgets in single steps: seen from the keys that are always invalidated, an
\* undisturbed read stores what the back end holds when it is stored, and a write
\* changes no content that has an entry, unless a disturbed read has left it there.
Abstract == INSTANCE ReadThrough WITH
  Keys <- Covered,
  Absent <- NoEntry,
  Default <- Zero,
  value <- [k \in Covered |-> db[k]],
  known <- [k \in Covered |-> cache[k]],
  suspect <- dirty \intersect Covered

ImplementsReadThrough == Abstract!Spec

\* The two failures after which a caller waits for a task that nobody completes: the
\* service's task was cancelled, or a read with an entry to fill failed with an
\* exception that is let through.
LeftWaiting(c) ==
  /\ pc[c] = "hung" /\ async[c]
  /\ fault[c] = "cancelled" \/ (fault[c] = "thrown" /\ op[c] = Null)

\* Every other call of a repository comes back to its caller, whatever the services and
\* the other calls do: those of methods that return a value always, and those of methods
\* that return a task when the service answers, when its failure is masked, and when a
\* write fails with an exception that is let through.
EveryCallReturns ==
  \A c \in Calls : pc[c] \in Working ~> pc[c] = "done" \/ LeftWaiting(c)

\* Once the writes stop, what a race left in the cache dies out: from some
\* moment on every entry is current or a masked default.
StaleEntriesDieOut ==
  <>[](\A k \in Keys : cache[k] \in {NoEntry, Zero, db[k]})

\* CacheInterceptorTest.WriteNoParamAsyncTest: once a write has been awaited its
\* key is not in the cache (at least, not with what the write replaced).
WriteLeavesNoStaleKey ==
  \A c \in Calls, k \in Covered :
    pc[c] = "done" /\ op[c] # Null /\ k \in Changes[op[c]]
      => cache[k] \in {NoEntry, Zero, db[k]}
=============================================================================
