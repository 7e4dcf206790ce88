--------------------------- MODULE HttpFileCache ---------------------------
(***************************************************************************)
(* __send_file of httpchat.py: many server threads answer requests for one *)
(* file through a cache, while somebody edits the file.  The cache is read *)
(* and written under file_cache_lock; stat, read and fstat are steps of    *)
(* their own.  A version of the file is the number of edits before it.     *)
(***************************************************************************)
EXTENDS Integers

CONSTANTS
  Thread,
  Ticks,        \* how far the clock may have gone on between two edits
  MaxEdits,     \* bound on the edits
  MaxRequests   \* bound on the requests that each thread serves
ASSUME TicksAssumption == Ticks \subseteq Nat
ASSUME BoundsAssumption == MaxEdits \in Nat /\ MaxRequests \in Nat

VARIABLES
  exists, version, file_mtime,  \* the file on disk
  file_cache,   \* the entry: mtime and data, or NoEntry
  pc, mtime, data,              \* the locals of __send_file, in each thread
  requests,     \* how many requests each thread has begun
  oldest,       \* history: the version when the thread's request began
  raced         \* history: an edit the modification times cannot tell

diskVars == <<exists, version, file_mtime>>
vars == <<diskVars, file_cache, pc, mtime, data, requests, oldest, raced>>

NoEntry == [mtime |-> -1, data |-> -1]
NotFound == -1

Init ==
  /\ exists = TRUE /\ version = 0 /\ file_mtime = 0
  /\ file_cache = NoEntry
  /\ pc = [t \in Thread |-> "idle"]
  /\ mtime = [t \in Thread |-> 0] /\ data = [t \in Thread |-> NotFound]
  /\ requests = [t \in Thread |-> 0]
  /\ oldest = [t \in Thread |-> 0]
  /\ raced = FALSE

Goto(t, p) == pc' = [pc EXCEPT ![t] = p]
Answers(t, d) == Goto(t, "answered") /\ data' = [data EXCEPT ![t] = d]

-----------------------------------------------------------------------------
\* Somebody writes the file.  Within one tick of the clock the modification
\* time does not change.
Edit(ticks) ==
  /\ exists /\ version < MaxEdits
  /\ version' = version + 1 /\ file_mtime' = file_mtime + ticks
  /\ raced' = (raced \/ ticks = 0 \/ \E t \in Thread : pc[t] = "fstat")
  /\ UNCHANGED <<exists, file_cache, pc, mtime, data, requests, oldest>>

Remove ==
  /\ exists /\ exists' = FALSE
  /\ UNCHANGED <<version, file_mtime, file_cache, pc, mtime, data, requests, oldest, raced>>

-----------------------------------------------------------------------------
Begin(t) ==
  /\ pc[t] \in {"idle", "answered"} /\ requests[t] < MaxRequests
  /\ Goto(t, "stat")
  /\ requests' = [requests EXCEPT ![t] = @ + 1]
  /\ oldest' = [oldest EXCEPT ![t] = version]
  /\ UNCHANGED <<diskVars, file_cache, mtime, data, raced>>

Stat(t) ==
  /\ pc[t] = "stat"
  /\ IF exists
     THEN Goto(t, "lookup") /\ mtime' = [mtime EXCEPT ![t] = file_mtime] /\ UNCHANGED data
     ELSE Answers(t, NotFound) /\ UNCHANGED mtime
  /\ UNCHANGED <<diskVars, file_cache, requests, oldest, raced>>

\* Mutant: any entry is good.
LookupAny(t) ==
  /\ pc[t] = "lookup"
  /\ IF file_cache # NoEntry THEN Answers(t, file_cache.data) ELSE Goto(t, "read") /\ UNCHANGED data
  /\ UNCHANGED <<diskVars, file_cache, mtime, requests, oldest, raced>>

\* The cached data is good when its time is the file's.
Lookup(t) ==
  /\ pc[t] = "lookup"
  /\ IF file_cache # NoEntry /\ file_cache.mtime = mtime[t]
     THEN Answers(t, file_cache.data)
     ELSE Goto(t, "read") /\ UNCHANGED data
  /\ UNCHANGED <<diskVars, file_cache, mtime, requests, oldest, raced>>

Read(t) ==
  /\ pc[t] = "read"
  /\ IF exists THEN Goto(t, "fstat") /\ data' = [data EXCEPT ![t] = version]
               ELSE Answers(t, NotFound)
  /\ UNCHANGED <<diskVars, file_cache, mtime, requests, oldest, raced>>

\* fstat of the open file, which works when the name is gone, too.
FStat(t) ==
  /\ pc[t] = "fstat"
  /\ Goto(t, "store")
  /\ mtime' = [mtime EXCEPT ![t] = file_mtime]
  /\ UNCHANGED <<diskVars, file_cache, data, requests, oldest, raced>>

\* Mutants: the entry of a thread that was faster is overwritten; the entry
\* gets the time that the file has by now.
StoreAlways(t) ==
  /\ pc[t] = "store"
  /\ file_cache' = [mtime |-> mtime[t], data |-> data[t]]
  /\ Goto(t, "answered")
  /\ UNCHANGED <<diskVars, mtime, data, requests, oldest, raced>>

StoreTimeOfNow(t) ==
  /\ pc[t] = "store"
  /\ file_cache' = IF file_cache = NoEntry \/ file_cache.mtime < file_mtime
                   THEN [mtime |-> file_mtime, data |-> data[t]]
                   ELSE file_cache
  /\ Goto(t, "answered")
  /\ UNCHANGED <<diskVars, mtime, data, requests, oldest, raced>>

\* The entry is replaced only by a newer one.
Store(t) ==
  /\ pc[t] = "store"
  /\ file_cache' = IF file_cache = NoEntry \/ file_cache.mtime < mtime[t]
                   THEN [mtime |-> mtime[t], data |-> data[t]]
                   ELSE file_cache
  /\ Goto(t, "answered")
  /\ UNCHANGED <<diskVars, mtime, data, requests, oldest, raced>>

Next ==
  \/ \E ticks \in Ticks : Edit(ticks)
  \/ Remove
  \/ \E t \in Thread :
       Begin(t) \/ Stat(t) \/ Lookup(t) \/ Read(t) \/ FStat(t) \/ Store(t)

Spec == Init /\ [][Next]_vars

-----------------------------------------------------------------------------
TypeOK ==
  /\ exists \in BOOLEAN /\ version \in Nat /\ file_mtime \in Nat
  /\ file_cache \in [mtime : Nat, data : Nat] \cup {NoEntry}
  /\ pc \in [Thread -> {"idle", "stat", "lookup", "read", "fstat", "store", "answered"}]
  /\ mtime \in [Thread -> Nat] /\ data \in [Thread -> Nat \cup {NotFound}]
  /\ requests \in [Thread -> Nat] /\ oldest \in [Thread -> Nat]
  /\ raced \in BOOLEAN

Fresh(t) == pc[t] = "answered" => data[t] = NotFound \/ data[t] >= oldest[t]

\* No answer is older than its request: the cache is used only "if the file
\* has not changed in the meantime" (comment at httpchat.py:123-126).
AnswersAreFresh == \A t \in Thread : Fresh(t)

\* The same, unless an edit fell between a read and its fstat, or within a
\* tick of the clock, ever.
AnswersAreFreshUnlessRaced == raced \/ AnswersAreFresh

\* The same of the cache: an entry with the file's time holds the file.  And a
\* slow thread never puts an older entry back: the cache goes on with the
\* modification times, and keeps the data it has for a time.
CacheFollowsTheFile ==
  /\ [](raced \/ (file_cache # NoEntry /\ file_cache.mtime = file_mtime
                  => file_cache.data = version))
  /\ [][file_cache # NoEntry =>
           /\ file_cache'.mtime >= file_cache.mtime
           /\ file_cache'.mtime = file_cache.mtime => file_cache' = file_cache]_vars
=============================================================================
