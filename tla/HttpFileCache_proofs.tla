------------------------ MODULE HttpFileCache_proofs ------------------------
(***************************************************************************)
(* Proofs about the file cache, for any threads, any clock and any number  *)
(* of edits and requests.  A pair of a modification time and a version is  *)
(* sound when it may still be in use: it is not from the future, and the   *)
(* present time belongs to the present version.  As long as no edit was    *)
(* missed, the entry and what a thread is about to store are sound, and    *)
(* both are new enough for every thread that is about to look the file up. *)
(***************************************************************************)
EXTENDS HttpFileCache, TLAPS

Entry == [mtime : Nat, data : Nat]
Working == {"fstat", "store"}

\* What a thread has read is a version, not NotFound.
ReadIsData == \A t \in Thread : pc[t] \in Working => data[t] \in Nat

Sound(m, d) == m <= file_mtime /\ d <= version /\ (m = file_mtime => d = version)

\* A thread that has this time from stat may be given this version.
NewEnough(m, d) == \A t \in Thread : pc[t] = "lookup" /\ mtime[t] = m => d >= oldest[t]

CacheIsSound ==
  file_cache # NoEntry =>
    Sound(file_cache.mtime, file_cache.data) /\ NewEnough(file_cache.mtime, file_cache.data)
ThreadIsSound(t) ==
  /\ oldest[t] <= version
  /\ pc[t] = "lookup" => mtime[t] <= file_mtime
  /\ pc[t] = "fstat" => data[t] = version
  /\ pc[t] = "store" => Sound(mtime[t], data[t]) /\ NewEnough(mtime[t], data[t])
  /\ pc[t] \in Working => data[t] >= oldest[t]
  /\ Fresh(t)

CacheInv ==
  /\ TypeOK /\ ReadIsData
  /\ ~raced => CacheIsSound /\ \A t \in Thread : ThreadIsSound(t)

-----------------------------------------------------------------------------
LEMMA NoEntryIsNone == NoEntry \notin Entry
<1>1. \A e \in Entry : e.mtime # -1
  BY DEF Entry
<1> QED BY <1>1 DEF NoEntry

LEMMA CacheInvInit == Init => CacheInv
<1> SUFFICES ASSUME Init PROVE CacheInv
  OBVIOUS
<1>1. TypeOK /\ ReadIsData
  BY DEF Init, TypeOK, ReadIsData, Working, NotFound
<1>2. CacheIsSound
  BY DEF Init, CacheIsSound
<1>3. ASSUME NEW t \in Thread PROVE ThreadIsSound(t)
  BY DEF Init, ThreadIsSound, Fresh, Working
<1> QED BY <1>1, <1>2, <1>3 DEF CacheInv

\* Types do not depend on what was raced.
LEMMA TypesStep == TypeOK /\ ReadIsData /\ [Next]_vars => TypeOK' /\ ReadIsData'
<1> SUFFICES ASSUME TypeOK, ReadIsData, [Next]_vars PROVE TypeOK' /\ ReadIsData'
  OBVIOUS
<1> USE TicksAssumption DEF TypeOK, ReadIsData, Working, Goto, Answers, NotFound, diskVars
<1>1. ASSUME NEW ticks \in Ticks, Edit(ticks) PROVE TypeOK' /\ ReadIsData'
  BY <1>1 DEF Edit
<1>2. ASSUME Remove PROVE TypeOK' /\ ReadIsData'
  BY <1>2 DEF Remove
<1>3. ASSUME NEW t \in Thread, Begin(t) PROVE TypeOK' /\ ReadIsData'
  BY <1>3 DEF Begin
<1>4. ASSUME NEW t \in Thread, Stat(t) PROVE TypeOK' /\ ReadIsData'
  BY <1>4 DEF Stat
<1>5. ASSUME NEW t \in Thread, Lookup(t) PROVE TypeOK' /\ ReadIsData'
  <2>1. file_cache # NoEntry => file_cache.data \in Nat
    BY NoEntryIsNone
  <2> QED BY <1>5, <2>1 DEF Lookup
<1>6. ASSUME NEW t \in Thread, Read(t) PROVE TypeOK' /\ ReadIsData'
  BY <1>6 DEF Read
<1>7. ASSUME NEW t \in Thread, FStat(t) PROVE TypeOK' /\ ReadIsData'
  BY <1>7 DEF FStat
<1>8. ASSUME NEW t \in Thread, Store(t) PROVE TypeOK' /\ ReadIsData'
  BY <1>8 DEF Store
<1>9. CASE UNCHANGED vars
  BY <1>9 DEF vars
<1> QED BY <1>1, <1>2, <1>3, <1>4, <1>5, <1>6, <1>7, <1>8, <1>9 DEF Next

-----------------------------------------------------------------------------
\* What each step does to the pairs in use.
LEMMA SoundStep ==
  CacheInv /\ ~raced' /\ [Next]_vars => CacheIsSound' /\ \A t \in Thread : ThreadIsSound(t)'
<1> SUFFICES ASSUME CacheInv, ~raced', [Next]_vars
             PROVE  CacheIsSound' /\ \A u \in Thread : ThreadIsSound(u)'
  OBVIOUS
<1> USE TicksAssumption DEF TypeOK, ReadIsData, Working, Goto, Answers, NotFound, diskVars,
        Sound, NewEnough, Fresh
<1>0. TypeOK /\ ReadIsData /\ TypeOK' /\ ReadIsData'
  BY TypesStep DEF CacheInv
<1>1. ~raced
  BY <1>0 DEF Next, Edit, Remove, Begin, Stat, Lookup, Read, FStat, Store, vars
<1>2. CacheIsSound /\ \A u \in Thread : ThreadIsSound(u)
  BY <1>1 DEF CacheInv
<1>3. file_cache # NoEntry => file_cache \in Entry
  BY <1>0 DEF Entry
<1> USE DEF CacheIsSound, ThreadIsSound, Entry
<1>4. ASSUME NEW ticks \in Ticks, Edit(ticks)
      PROVE  CacheIsSound' /\ \A u \in Thread : ThreadIsSound(u)'
  <2>1. ticks \in Nat /\ ticks > 0 /\ \A u \in Thread : pc[u] # "fstat"
    <3>1. ~(raced \/ ticks = 0 \/ \E u \in Thread : pc[u] = "fstat")
      BY <1>4, Zenon DEF Edit
    <3> QED BY <3>1
  <2>2. CacheIsSound'
    BY <1>0, <1>2, <1>3, <1>4, <2>1 DEF Edit
  <2>3. ASSUME NEW u \in Thread PROVE ThreadIsSound(u)'
    BY <1>0, <1>2, <1>4, <2>1 DEF Edit
  <2> QED BY <2>2, <2>3
<1>5. ASSUME Remove PROVE CacheIsSound' /\ \A u \in Thread : ThreadIsSound(u)'
  BY <1>0, <1>2, <1>5 DEF Remove
<1>6. ASSUME NEW t \in Thread, Begin(t)
      PROVE  CacheIsSound' /\ \A u \in Thread : ThreadIsSound(u)'
  BY <1>0, <1>2, <1>3, <1>6 DEF Begin
<1>7. ASSUME NEW t \in Thread, Stat(t)
      PROVE  CacheIsSound' /\ \A u \in Thread : ThreadIsSound(u)'
  BY <1>0, <1>2, <1>3, <1>7 DEF Stat
<1>8. ASSUME NEW t \in Thread, Lookup(t)
      PROVE  CacheIsSound' /\ \A u \in Thread : ThreadIsSound(u)'
  BY <1>0, <1>2, <1>3, <1>8 DEF Lookup
<1>9. ASSUME NEW t \in Thread, Read(t)
      PROVE  CacheIsSound' /\ \A u \in Thread : ThreadIsSound(u)'
  BY <1>0, <1>2, <1>3, <1>9 DEF Read
<1>10. ASSUME NEW t \in Thread, FStat(t)
       PROVE  CacheIsSound' /\ \A u \in Thread : ThreadIsSound(u)'
  BY <1>0, <1>2, <1>3, <1>10 DEF FStat
<1>11. ASSUME NEW t \in Thread, Store(t)
       PROVE  CacheIsSound' /\ \A u \in Thread : ThreadIsSound(u)'
  BY <1>0, <1>2, <1>3, <1>11 DEF Store
<1>12. CASE UNCHANGED vars
  BY <1>2, <1>12 DEF vars
<1> QED BY <1>4, <1>5, <1>6, <1>7, <1>8, <1>9, <1>10, <1>11, <1>12 DEF Next

LEMMA CacheInvStep == CacheInv /\ [Next]_vars => CacheInv'
BY TypesStep, SoundStep DEF CacheInv

LEMMA CacheInvHolds == Spec => []CacheInv
BY CacheInvInit, CacheInvStep, PTL DEF Spec

-----------------------------------------------------------------------------
\* Whatever the threads of httpchat.py read, cache and send while the file is
\* edited and removed: an answer is at least as new as its request, unless an
\* edit fell between a read and its fstat or within a tick of the clock.
THEOREM FileCacheFresh == Spec => []AnswersAreFreshUnlessRaced
<1>1. CacheInv => AnswersAreFreshUnlessRaced
  BY DEF CacheInv, AnswersAreFreshUnlessRaced, AnswersAreFresh, ThreadIsSound
<1> QED BY <1>1, CacheInvHolds, PTL

\* What is stored replaces only an older entry.
LEMMA EntriesGrow ==
  CacheInv /\ [Next]_vars =>
    (file_cache # NoEntry =>
       /\ file_cache'.mtime >= file_cache.mtime
       /\ file_cache'.mtime = file_cache.mtime => file_cache' = file_cache)
<1> SUFFICES ASSUME CacheInv, [Next]_vars, file_cache # NoEntry
             PROVE  /\ file_cache'.mtime >= file_cache.mtime
                    /\ file_cache'.mtime = file_cache.mtime => file_cache' = file_cache
  OBVIOUS
<1>1. file_cache.mtime \in Nat /\ mtime \in [Thread -> Nat]
  BY DEF CacheInv, TypeOK
<1>2. ASSUME NEW t \in Thread, Store(t), file_cache' # file_cache
      PROVE  file_cache'.mtime > file_cache.mtime
  BY <1>1, <1>2 DEF Store
<1>3. file_cache' = file_cache \/ \E t \in Thread : Store(t)
  BY DEF Next, Edit, Remove, Begin, Stat, Lookup, Read, FStat, vars
<1>4. file_cache' = file_cache \/ file_cache'.mtime > file_cache.mtime
  BY <1>2, <1>3
<1>5. file_cache'.mtime \in Nat
  BY <1>1, CacheInvStep, <1>4, <1>3 DEF Store
<1> QED BY <1>1, <1>4, <1>5

\* An entry with the file's time holds the file, with the same exceptions, and
\* no thread puts an older entry back or changes the data kept for a time.
THEOREM FileCacheFollows == Spec => CacheFollowsTheFile
<1> DEFINE P == raced \/ (file_cache # NoEntry /\ file_cache.mtime = file_mtime
                         => file_cache.data = version)
           A == file_cache # NoEntry =>
                  /\ file_cache'.mtime >= file_cache.mtime
                  /\ file_cache'.mtime = file_cache.mtime => file_cache' = file_cache
<1>1. CacheInv => P
  BY DEF CacheInv, CacheIsSound, Sound
<1>2. CacheInv /\ [Next]_vars => [A]_vars
  BY EntriesGrow
<1> QED BY <1>1, <1>2, CacheInvHolds, PTL DEF Spec, CacheFollowsTheFile
=============================================================================
