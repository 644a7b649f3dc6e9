---------------------------- MODULE RollingCache ----------------------------
(***************************************************************************)
(* The chunk cache shared by every provider runtime (internal/cache/       *)
(* rolling.go): one index of cached chunks, one map of fetches in flight   *)
(* and one byte ledger behind one mutex, used by foreground reads, by each *)
(* handle's read-ahead window and by next-episode prefetch, over a disk    *)
(* directory that survives the process.                                    *)
(*                                                                         *)
(* Every critical section of shared.mu is one action.  The unlocked code   *)
(* between two sections touches only the goroutine's own variables, so it  *)
(* is folded into the section next to it; what other goroutines can see    *)
(* meanwhile (a temporary file, a renamed file, a pinned chunk) is state.  *)
(***************************************************************************)
EXTENDS Integers, FiniteSets

CONSTANTS
  Objects,          \* cache objects: a backing reference plus its validator
  Size,             \* [Objects -> Nat]: logical size of each object in bytes
  ChunkBytes,       \* options.ChunkBytes
  Quotas,           \* the values options.MaxBytes may have when the process starts
  Policy,           \* "rolling" or "persistent": the retention policy of the pool
  ReadAheadChunks,  \* options.ReadAheadChunks
  PrefetchChunks,   \* options.NextEpisodePrefetchChunks
  MaxAttempts,      \* maximumRangeFetchAttempts
  Handles,          \* read handles
  ObjectOf,         \* [Handles -> Objects]: the object a handle is opened on
  Readers,          \* goroutines that may be inside ReadAt
  Reads,            \* the <<offset, length>> pairs that readers may ask for
  MaxGeneration,    \* bound: read-ahead generations of one handle
  CleanupFails      \* whether removing a failed fetch's own file may fail

ASSUME CacheAssumption ==
  /\ IsFiniteSet(Objects)
  /\ Size \in [Objects -> Nat \ {0}]
  /\ ChunkBytes \in Nat \ {0}
  /\ Policy \in {"rolling", "persistent"}
  /\ \A q \in Quotas : q \in Nat /\ q >= ChunkBytes
  /\ ReadAheadChunks \in Nat
  /\ PrefetchChunks \in Nat
  /\ MaxAttempts \in Nat \ {0}
  /\ Handles # {}
  /\ ObjectOf \in [Handles -> Objects]
  /\ IsFiniteSet(Readers)
  /\ Reads \subseteq Nat \X (Nat \ {0})
  /\ MaxGeneration \in Nat
  /\ CleanupFails \in BOOLEAN

VARIABLES
  up,        \* the process is running
  quota,     \* options.MaxBytes of this run of the process
  chunks,    \* keys of the chunks map
  older,     \* <<x, y>>: x.lastAccess < y.lastAccess (the tick itself is abstracted)
  pins,      \* entry.pins
  inflight,  \* the inflight map: one fetchCall per key, NoCall where there is none
  current,   \* published chunk bytes
  reserved,  \* bytes reserved by fetches in flight
  files,     \* keys whose *.chunk file is on disk
  stray,     \* keys with a .fetch-* file on disk that no running fetch owns
  handle,    \* read handles: status and read-ahead window
  pc,        \* where each reader is in ReadAt
  rd,        \* the locals of each reader's ReadAt
  prefetch   \* distance each object's prefetch goroutine has reached, Quiet if none

cacheVars == <<chunks, older, pins, inflight, current, reserved>>
diskVars  == <<files, stray>>
readVars  == <<pc, rd>>
vars == <<up, quota, cacheVars, diskVars, handle, readVars, prefetch>>

-----------------------------------------------------------------------------
(* Chunks and their bytes.                                                 *)

\* Byte offset at which chunk i starts.
Start(i) == i * ChunkBytes

\* chunkLength: what is left of the object from the start of chunk i, at most ChunkBytes.
chunkLength(o, i) ==
  IF Size[o] - Start(i) < ChunkBytes THEN Size[o] - Start(i) ELSE ChunkBytes

\* The chunks that objects have: those that start inside the object.
Keys == UNION {{o} \X {i \in 0 .. Size[o] : Start(i) < Size[o]} : o \in Objects}

Length(k) == chunkLength(k[1], k[2])

\* The bytes of a set of chunks, and how many they are.
BytesOf(S) == {b \in S \X (0 .. ChunkBytes - 1) : b[2] < Length(b[1])}
Bytes(S) == Cardinality(BytesOf(S))

OfObject(S, o) == {k \in S : k[1] = o}

-----------------------------------------------------------------------------
(* Fetches in flight.                                                      *)

Kinds == {"foreground", "readAhead", "nextEpisode"}
Stages == {"none", "open", "temp", "renamed"}

AnyHandle == CHOOSE h \in Handles : TRUE

\* No fetch is in flight for a key.
NoCall == [stage |-> "none", kind |-> "foreground", owner |-> AnyHandle, gen |-> 0, attempt |-> 0]

\* A new fetchCall.  Foreground and next-episode fetches run under the process
\* lifecycle; a read-ahead fetch runs under generation gen of its handle's window.
Call(kind, h, gen) ==
  [stage |-> "open", kind |-> kind, owner |-> h, gen |-> gen, attempt |-> 1]

InFlight == {k \in Keys : inflight[k].stage # "none"}

\* objectUsageLocked: retained plus in-flight bytes of one object.
objectUsage(o) == Bytes(OfObject(chunks, o)) + Bytes(OfObject(InFlight, o))

\* The read-ahead context of generation gen of handle h has been cancelled.
WindowCanceled(h, gen) == handle[h].ctx # gen

Canceled(call) == call.kind = "readAhead" /\ WindowCanceled(call.owner, call.gen)

-----------------------------------------------------------------------------
(* Eviction: the loops that remove the least recently used unpinned chunk  *)
(* until enough bytes are free.  A loop removes chunks oldest first, so    *)
(* what it has removed is always a prefix of the candidates in age order.  *)

\* Mutant: forgets the pins.
AnyChunk == chunks

Unpinned == {k \in chunks : pins[k] = 0}

Prefixes(age, C) == {C} \cup {{y \in C : <<y, x>> \in age} : x \in C}

\* How such a loop over candidates C can end: "ok" with the shortest prefix that frees
\* `excess' bytes, "full" when no candidate is left, "error" when os.Remove fails.
EvictUntil(age, C, excess) ==
  LET Enough(E) == Bytes(E) >= excess
  IN  {[gone |-> E, verdict |-> "ok"] : E \in
         {E \in Prefixes(age, C) :
            Enough(E) /\ \A F \in Prefixes(age, C) : Enough(F) => E \subseteq F}}
      \cup {v \in {[gone |-> C, verdict |-> "full"]} : ~Enough(C)}
      \cup {[gone |-> E, verdict |-> "error"] : E \in
              {E \in Prefixes(age, C) : E # C /\ ~Enough(E)}}

\* Mutant: lets an object be retained completely.
EnsureIncompleteOffByOne(o, expected, protected) ==
  EvictUntil(older, OfObject(Unpinned, o) \ protected, objectUsage(o) + expected - Size[o])

\* ensureIncompleteObjectLocked: keep the object's usage plus `expected' below its size.
ensureIncompleteObject(o, expected, protected) ==
  EvictUntil(older, OfObject(Unpinned, o) \ protected,
             objectUsage(o) + expected - (Size[o] - 1))

\* Mutant: background work may fill the quota.
NoHeadroom(kind) == 0

\* A background reservation leaves one chunk of the quota free for foreground reads.
Headroom(kind) == IF kind = "foreground" THEN 0 ELSE ChunkBytes

\* Mutant: next-episode prefetch evicts like read-ahead.
VictimsOfAnyKind(kind, gone, protected) == Unpinned \ (gone \cup protected)

\* The chunks whose eviction a fetch of this kind may cause outside its own object:
\* next-episode prefetch stops instead of evicting.
GlobalVictims(kind, gone, protected) ==
  IF kind = "nextEpisode" THEN {} ELSE Unpinned \ (gone \cup protected)

\* tryReserveLocked and tryReserveBackgroundLocked: first the object's own limit,
\* then the pool's quota.
tryReserve(k, kind, protected) ==
  IF Policy = "persistent"
  THEN {[gone |-> {}, verdict |-> "ok"]}
  ELSE UNION {
         IF own.verdict # "ok"
         THEN {own}
         ELSE {[gone |-> own.gone \cup v.gone, verdict |-> v.verdict] : v \in
                 EvictUntil(older, GlobalVictims(kind, own.gone, protected),
                            current - Bytes(own.gone) + reserved + Length(k)
                              - (quota - Headroom(kind)))}
         : own \in ensureIncompleteObject(k[1], Length(k), protected)}

\* Mutants: the ledger, or the disk, is not updated.
EvictUncounted(E) ==
  /\ files' = files \ E
  /\ chunks' = chunks \ E
  /\ older' = {p \in older : p[1] \notin E /\ p[2] \notin E}
  /\ UNCHANGED current

EvictKeepingFile(E) ==
  /\ UNCHANGED files
  /\ chunks' = chunks \ E
  /\ older' = {p \in older : p[1] \notin E /\ p[2] \notin E}
  /\ current' = current - Bytes(E)

\* Chunks E are removed from the disk, from the index and from the ledger.
Evict(E) ==
  /\ files' = files \ E
  /\ chunks' = chunks \ E
  /\ older' = {p \in older : p[1] \notin E /\ p[2] \notin E}
  /\ current' = current - Bytes(E)

\* k becomes the most recently used chunk of the set S of cached chunks.
Touch(S, k) == {p \in older : p[1] # k /\ p[2] # k} \cup ((S \ {k}) \X {k})

\* Mutant: the fetch starts without reserving its bytes.
StartUnreserved(k, call) ==
  /\ inflight' = [inflight EXCEPT ![k] = call]
  /\ UNCHANGED reserved

\* reserveLocked and the insertion of the call.
Reserve(k, call) ==
  /\ inflight' = [inflight EXCEPT ![k] = call]
  /\ reserved' = reserved + Length(k)

-----------------------------------------------------------------------------
(* Reading.                                                                *)

PCs == {"idle", "begin", "acquire", "await", "backpressure", "copy", "finish", "ahead"}

\* The locals of a reader that is not inside ReadAt.
NoRead == [h |-> AnyHandle, off |-> 0, want |-> 0, done |-> 0, gen |-> 0, ahead |-> 0]

Object(r) == ObjectOf[rd[r].h]

\* The chunk that the read loop of r is at.
CurrentKey(r) == <<Object(r), (rd[r].off + rd[r].done) \div ChunkBytes>>

\* First chunk after the ones that the read of r covers.
NextIndex(r) == (rd[r].off + rd[r].want - 1) \div ChunkBytes + 1

\* Mutant: copies to the end of the chunk however little was asked for.
CopyToChunkEnd(r) == Length(CurrentKey(r)) - ((rd[r].off + rd[r].done) % ChunkBytes)

\* How much of the current chunk the read loop of r copies.
copyLength(r) ==
  LET pos  == rd[r].off + rd[r].done
      rest == Length(CurrentKey(r)) - (pos % ChunkBytes)
      left == rd[r].want - rd[r].done
  IN  IF rest > left THEN left ELSE rest

\* Mutant: nobody is woken.
NotSignalled(p) == p

\* signalLocked wakes every reader that waits for capacity.
Signalled(p) == [r \in Readers |-> IF p[r] = "backpressure" THEN "acquire" ELSE p[r]]

\* Mutant: the pin is kept.
KeepPin(k) == UNCHANGED pins

\* releaseChunk drops one pin.
releaseChunk(k) == pins' = [pins EXCEPT ![k] = @ - 1]

\* Reader r returns from ReadAt.
Return(r) ==
  /\ pc' = [pc EXCEPT ![r] = "idle"]
  /\ rd' = [rd EXCEPT ![r] = NoRead]

\* ReadAt up to beginRead: the handle is open and the range starts inside the object.
\* Reads at or past the end, and reads of an object no larger than one chunk in rolling
\* mode (readWithoutDiskCache), return without touching the cache.
StartRead(r, h, off, len) ==
  /\ pc[r] = "idle"
  /\ handle[h].status = "open"
  /\ off < Size[ObjectOf[h]]
  /\ Policy = "rolling" => Size[ObjectOf[h]] > ChunkBytes
  /\ pc' = [pc EXCEPT ![r] = "begin"]
  /\ rd' = [rd EXCEPT ![r] =
       [NoRead EXCEPT !.h = h, !.off = off,
          !.want = IF len > Size[ObjectOf[h]] - off THEN Size[ObjectOf[h]] - off ELSE len]]
  /\ UNCHANGED <<up, quota, cacheVars, diskVars, handle, prefetch>>

\* beginRead: a discontinuous read cancels the handle's window and opens the next
\* generation; a handle without a window gets one.
BeginRead(r) ==
  LET h == rd[r].h
      fresh == handle[h].ctx = 0 \/ (handle[h].hasLast /\ rd[r].off # handle[h].end)
      gen == IF fresh THEN handle[h].gen + 1 ELSE handle[h].gen
  IN  /\ pc[r] = "begin"
      /\ gen <= MaxGeneration
      /\ handle' = IF fresh THEN [handle EXCEPT ![h].ctx = gen, ![h].gen = gen] ELSE handle
      /\ rd' = [rd EXCEPT ![r].gen = gen]
      /\ pc' = [pc EXCEPT ![r] = "acquire"]
      /\ UNCHANGED <<up, quota, cacheVars, diskVars, prefetch>>

\* acquireChunk, cache hit: the chunk is pinned and becomes the most recently used.
AcquireHit(r) ==
  LET k == CurrentKey(r)
  IN  /\ pc[r] = "acquire"
      /\ k \in chunks
      /\ pins' = [pins EXCEPT ![k] = @ + 1]
      /\ older' = Touch(chunks, k)
      /\ pc' = [pc EXCEPT ![r] = "copy"]
      /\ UNCHANGED <<up, quota, chunks, inflight, current, reserved, diskVars, handle, rd, prefetch>>

\* acquireChunk, the chunk is already being fetched: wait for that call.
AcquireJoin(r) ==
  /\ pc[r] = "acquire"
  /\ CurrentKey(r) \notin chunks
  /\ CurrentKey(r) \in InFlight
  /\ pc' = [pc EXCEPT ![r] = "await"]
  /\ UNCHANGED <<up, quota, cacheVars, diskVars, handle, rd, prefetch>>

\* acquireChunk, miss: reserve and fetch, wait for capacity, or fail because a victim
\* could not be removed.  What the loops evicted stays evicted in every case.
AcquireMiss(r) ==
  LET k == CurrentKey(r)
  IN  /\ pc[r] = "acquire"
      /\ k \notin chunks
      /\ k \notin InFlight
      /\ \E v \in tryReserve(k, "foreground", {}) :
           /\ Evict(v.gone)
           /\ \/ /\ v.verdict = "ok"
                 /\ Reserve(k, Call("foreground", AnyHandle, 0))
                 /\ pc' = [pc EXCEPT ![r] = "await"]
                 /\ UNCHANGED rd
              \/ /\ v.verdict = "full"
                 /\ pc' = [pc EXCEPT ![r] = "backpressure"]
                 /\ UNCHANGED <<inflight, reserved, rd>>
              \/ /\ v.verdict = "error"
                 /\ Return(r)
                 /\ UNCHANGED <<inflight, reserved>>
      /\ UNCHANGED <<up, quota, pins, stray, handle, prefetch>>

\* readChunk and releaseChunk: the pinned file is copied out, the pin is dropped and
\* every capacity waiter is woken.  A failed copy ends the read.
CopyChunk(r) ==
  LET k == CurrentKey(r)
      done == rd[r].done + copyLength(r)
  IN  /\ pc[r] = "copy"
      /\ releaseChunk(k)
      /\ \/ /\ k \in files
            /\ rd' = [rd EXCEPT ![r].done = done]
            /\ pc' = [Signalled(pc) EXCEPT ![r] =
                        IF done < rd[r].want THEN "acquire" ELSE "finish"]
         \/ /\ rd' = [rd EXCEPT ![r] = NoRead]
            /\ pc' = [Signalled(pc) EXCEPT ![r] = "idle"]
      /\ UNCHANGED <<up, quota, chunks, older, inflight, current, reserved, diskVars, handle, prefetch>>

\* finishRead: unless the window has moved to another generation, record where the
\* read ended and go on to schedule read-ahead.
FinishRead(r) ==
  LET h == rd[r].h
  IN  /\ pc[r] = "finish"
      /\ IF rd[r].gen # handle[h].gen
         THEN Return(r) /\ UNCHANGED handle
         ELSE /\ handle' = [handle EXCEPT ![h].end = rd[r].off + rd[r].done, ![h].hasLast = TRUE]
              /\ pc' = [pc EXCEPT ![r] = "ahead"]
              /\ UNCHANGED rd
      /\ UNCHANGED <<up, quota, cacheVars, diskVars, prefetch>>

\* The read's own context ends while it waits: it returns, the fetch it waited for goes on.
AbandonRead(r) ==
  /\ pc[r] \in {"acquire", "await", "backpressure"}
  /\ Return(r)
  /\ UNCHANGED <<up, quota, cacheVars, diskVars, handle, prefetch>>

-----------------------------------------------------------------------------
(* Background fetching: one iteration of scheduleBackgroundChunks.         *)

\* Mutant: only looks for a fetch in flight.
PresentInFlight(k) == k \in InFlight

\* The chunk is cached or being fetched already: go on to the next distance.
Present(k) == k \in chunks \/ k \in InFlight

\* scheduleReadAhead for reader r, protecting the chunk it has just read.
ReadAhead(r) ==
  LET k == <<Object(r), NextIndex(r) + rd[r].ahead>>
      h == rd[r].h
  IN  /\ pc[r] = "ahead"
      /\ \/ /\ \/ rd[r].ahead = ReadAheadChunks
               \/ WindowCanceled(h, rd[r].gen)
               \/ k \notin Keys
            /\ Return(r)
            /\ UNCHANGED <<cacheVars, files>>
         \/ /\ rd[r].ahead < ReadAheadChunks
            /\ ~WindowCanceled(h, rd[r].gen)
            /\ k \in Keys
            /\ Present(k)
            /\ rd' = [rd EXCEPT ![r].ahead = @ + 1]
            /\ UNCHANGED <<cacheVars, files, pc>>
         \/ /\ rd[r].ahead < ReadAheadChunks
            /\ ~WindowCanceled(h, rd[r].gen)
            /\ k \in Keys
            /\ ~Present(k)
            /\ \E v \in tryReserve(k, "readAhead", {<<Object(r), NextIndex(r) - 1>>}) :
                 /\ Evict(v.gone)
                 /\ IF v.verdict = "ok"
                    THEN /\ Reserve(k, Call("readAhead", h, rd[r].gen))
                         /\ rd' = [rd EXCEPT ![r].ahead = @ + 1]
                         /\ UNCHANGED pc
                    ELSE Return(r) /\ UNCHANGED <<inflight, reserved>>
            /\ UNCHANGED pins
      /\ UNCHANGED <<up, quota, stray, handle, prefetch>>

Quiet == -1

\* Prefetch: the catalog asks for the next episode's prefix; the goroutine has opened
\* the provider source and is about to schedule.  (When that open fails or the size has
\* changed it ends without touching the cache.)
StartPrefetch(o) ==
  /\ up
  /\ PrefetchChunks > 0
  /\ prefetch[o] = Quiet
  /\ prefetch' = [prefetch EXCEPT ![o] = 0]
  /\ UNCHANGED <<up, quota, cacheVars, diskVars, handle, readVars>>

\* prefetchMediaPrefix, one iteration of its scheduling loop; nothing is protected.
PrefetchNext(o) ==
  LET k == <<o, prefetch[o]>>
  IN  /\ prefetch[o] # Quiet
      /\ \/ /\ prefetch[o] = PrefetchChunks \/ k \notin Keys
            /\ prefetch' = [prefetch EXCEPT ![o] = Quiet]
            /\ UNCHANGED <<cacheVars, files>>
         \/ /\ prefetch[o] < PrefetchChunks
            /\ k \in Keys
            /\ Present(k)
            /\ prefetch' = [prefetch EXCEPT ![o] = @ + 1]
            /\ UNCHANGED <<cacheVars, files>>
         \/ /\ prefetch[o] < PrefetchChunks
            /\ k \in Keys
            /\ ~Present(k)
            /\ \E v \in tryReserve(k, "nextEpisode", {}) :
                 /\ Evict(v.gone)
                 /\ IF v.verdict = "ok"
                    THEN /\ Reserve(k, Call("nextEpisode", AnyHandle, 0))
                         /\ prefetch' = [prefetch EXCEPT ![o] = @ + 1]
                    ELSE /\ prefetch' = [prefetch EXCEPT ![o] = Quiet]
                         /\ UNCHANGED <<inflight, reserved>>
            /\ UNCHANGED pins
      /\ UNCHANGED <<up, quota, stray, handle, readVars>>

-----------------------------------------------------------------------------
(* runFetch and what it calls.                                             *)

\* The last section of runFetch: release the reservation, publish the entry if there is
\* one, remove the call and wake both its waiters and the capacity waiters.  A waiter
\* tries again when the call succeeded, and when it was background work that has been
\* cancelled; otherwise it returns the call's error.
FetchDone(k, published, verdict) ==
  LET retry == verdict = "ok" \/ (inflight[k].kind # "foreground" /\ verdict = "canceled")
      waiting == {r \in Readers : pc[r] = "await" /\ CurrentKey(r) = k}
  IN  /\ reserved' = reserved - Length(k)
      /\ inflight' = [inflight EXCEPT ![k] = NoCall]
      /\ IF published
         THEN /\ chunks' = chunks \cup {k}
              /\ current' = current + Length(k)
              /\ older' = Touch(chunks, k)
              /\ pins' = [pins EXCEPT ![k] = 0]
         ELSE UNCHANGED <<chunks, current, older, pins>>
      /\ pc' = [r \in Readers |->
                  IF r \in waiting THEN (IF retry THEN "acquire" ELSE "idle")
                  ELSE Signalled(pc)[r]]
      /\ rd' = [r \in Readers |-> IF r \in waiting /\ ~retry THEN NoRead ELSE rd[r]]

\* Mutant: the attempts are not counted.
AttemptUncounted(k, takesContext) ==
  \/ /\ ~Canceled(inflight[k])
     /\ inflight' = [inflight EXCEPT ![k].stage = "open"]
     /\ UNCHANGED <<chunks, older, pins, current, reserved, readVars>>
  \/ FetchDone(k, FALSE, "error")

\* An attempt failed and left nothing to remove.  fetchChunkWithRetry tries again unless
\* the attempts are used up or the context has ended (it was cancelled, or the timeout
\* shared by all attempts has passed, which may be any time).  Only calls that take the
\* context can fail because it was cancelled.
AttemptFailed(k, takesContext) ==
  \/ /\ inflight[k].attempt < MaxAttempts
     /\ ~Canceled(inflight[k])
     /\ inflight' = [inflight EXCEPT ![k].stage = "open", ![k].attempt = @ + 1]
     /\ UNCHANGED <<chunks, older, pins, current, reserved, readVars>>
  \/ FetchDone(k, FALSE, "error")
  \/ takesContext /\ Canceled(inflight[k]) /\ FetchDone(k, FALSE, "canceled")

\* Open the provider source and create the temporary file.  A changed size or validator
\* fails the whole fetch at once.
FetchOpen(k) ==
  /\ inflight[k].stage = "open"
  /\ \/ /\ inflight' = [inflight EXCEPT ![k].stage = "temp"]
        /\ UNCHANGED <<chunks, older, pins, current, reserved, readVars>>
     \/ FetchDone(k, FALSE, "error")
     \/ AttemptFailed(k, TRUE)
  /\ UNCHANGED <<up, quota, diskVars, handle, prefetch>>

\* Read the range into the temporary file, synchronise it and rename it; on failure the
\* temporary file is removed.
FetchBody(k) ==
  /\ inflight[k].stage = "temp"
  /\ \/ /\ inflight' = [inflight EXCEPT ![k].stage = "renamed"]
        /\ files' = files \cup {k}
        /\ UNCHANGED <<chunks, older, pins, current, reserved, readVars, stray>>
     \/ /\ AttemptFailed(k, TRUE)
        /\ stray' \in {stray} \cup (IF CleanupFails THEN {stray \cup {k}} ELSE {})
        /\ UNCHANGED files
  /\ UNCHANGED <<up, quota, handle, prefetch>>

\* Set the mode of the renamed file and synchronise its directory.  The chunk is then
\* published even if closing the provider source fails, in which case the call reports
\* an error; if synchronising fails the renamed file is removed.
FetchPublish(k) ==
  /\ inflight[k].stage = "renamed"
  /\ \/ \E verdict \in {"ok", "error"} : FetchDone(k, TRUE, verdict) /\ UNCHANGED files
     \/ /\ AttemptFailed(k, FALSE)
        /\ files' \in {files \ {k}} \cup (IF CleanupFails THEN {files} ELSE {})
  /\ UNCHANGED <<up, quota, stray, handle, prefetch>>

-----------------------------------------------------------------------------
(* Handles and the process.                                                *)

NewHandle == [status |-> "new", ctx |-> 0, gen |-> 0, end |-> 0, hasLast |-> FALSE]

\* Open: in rolling mode the object is trimmed below its full size first; the handle is
\* refused when that fails.
Open(h) ==
  /\ up
  /\ handle[h].status = "new"
  /\ \E v \in IF Policy = "rolling"
               THEN ensureIncompleteObject(ObjectOf[h], 0, {})
               ELSE {[gone |-> {}, verdict |-> "ok"]} :
       /\ Evict(v.gone)
       /\ handle' = IF v.verdict = "ok" THEN [handle EXCEPT ![h].status = "open"] ELSE handle
  /\ UNCHANGED <<up, quota, pins, inflight, reserved, stray, readVars, prefetch>>

\* Close, and cancelReadAhead: later reads are refused and the window is cancelled.
Close(h) ==
  /\ handle[h].status = "open"
  /\ handle' = [handle EXCEPT ![h].status = "closed", ![h].ctx = 0]
  /\ UNCHANGED <<up, quota, cacheVars, diskVars, readVars, prefetch>>

\* What the maps of a process that has just been created, or is not running, hold.
NoPins == [k \in Keys |-> 0]
NoCalls == [k \in Keys |-> NoCall]
NoHandles == [h \in Handles |-> NewHandle]
AllIdle == [r \in Readers |-> "idle"]
NoReads == [r \in Readers |-> NoRead]
NoPrefetch == [o \in Objects |-> Quiet]

\* The process dies.  The disk keeps what was there; a rename whose directory has not
\* been synchronised may be lost.
Crash ==
  /\ up
  /\ up' = FALSE /\ quota' = 0
  /\ chunks' = {} /\ older' = {} /\ pins' = NoPins /\ inflight' = NoCalls
  /\ current' = 0 /\ reserved' = 0
  /\ handle' = NoHandles /\ pc' = AllIdle /\ rd' = NoReads /\ prefetch' = NoPrefetch
  /\ \E lost \in SUBSET {k \in Keys : inflight[k].stage = "renamed"} : files' = files \ lost
  /\ stray' = stray \cup {k \in Keys : inflight[k].stage = "temp"}

\* Every age order of a set of files: recovery sorts by modification time.
AgeOrders(S) ==
  {{p \in S \X S : f[p[1]] < f[p[2]]} :
     f \in {g \in [S -> 1 .. Cardinality(S)] : \A x, y \in S : x # y => g[x] # g[y]}}

\* Mutant: recovery trims whatever the policy is.
TrimAlways(q) == Bytes(files) - q

\* How many bytes recovery has to trim: only rolling mode has a quota.
RecoveryExcess(q) == IF Policy = "rolling" THEN Bytes(files) - q ELSE 0

\* newRangePool and recoverChunks, with options.MaxBytes = q: abandoned temporary files
\* are removed, every chunk file is taken into the index and in rolling mode the oldest
\* are trimmed to the quota.  When a trim fails the process does not start.
StartProcess(q) ==
  /\ ~up
  /\ stray' = {}
  /\ \E age \in AgeOrders(files) :
     \E v \in EvictUntil(age, files, RecoveryExcess(q)) :
       /\ files' = files \ v.gone
       /\ IF v.verdict = "ok"
          THEN /\ up' = TRUE
               /\ quota' = q
               /\ chunks' = files \ v.gone
               /\ older' = {p \in age : p[1] \notin v.gone /\ p[2] \notin v.gone}
               /\ current' = Bytes(files) - Bytes(v.gone)
          ELSE UNCHANGED <<up, quota, chunks, older, current>>
  /\ UNCHANGED <<pins, inflight, reserved, handle, readVars, prefetch>>

\* Before the first start the disk may hold any chunks that an earlier version left.
Init ==
  /\ up = FALSE /\ quota = 0
  /\ chunks = {} /\ older = {} /\ pins = NoPins /\ inflight = NoCalls
  /\ current = 0 /\ reserved = 0
  /\ handle = NoHandles /\ pc = AllIdle /\ rd = NoReads /\ prefetch = NoPrefetch
  /\ files \in SUBSET Keys
  /\ stray = {}

ReaderStep(r) ==
  \/ BeginRead(r) \/ AcquireHit(r) \/ AcquireJoin(r) \/ AcquireMiss(r)
  \/ CopyChunk(r) \/ FinishRead(r) \/ ReadAhead(r)

FetchStep(k) == FetchOpen(k) \/ FetchBody(k) \/ FetchPublish(k)

Next ==
  \/ \E r \in Readers : ReaderStep(r) \/ AbandonRead(r)
  \/ \E r \in Readers, h \in Handles, rg \in Reads : StartRead(r, h, rg[1], rg[2])
  \/ \E k \in Keys : FetchStep(k)
  \/ \E o \in Objects : StartPrefetch(o) \/ PrefetchNext(o)
  \/ \E h \in Handles : Open(h) \/ Close(h)
  \/ Crash
  \/ \E q \in Quotas : StartProcess(q)

Spec == Init /\ [][Next]_vars

\* Goroutines that can run do run, and every fetch ends: its attempts are bounded and
\* they share one timeout.  Nothing obliges a client to read, to close or to give up,
\* the catalog to prefetch, or the process to start or stop.
Fairness ==
  /\ \A r \in Readers : WF_vars(ReaderStep(r))
  /\ \A k \in Keys : WF_vars(FetchStep(k))
  /\ \A o \in Objects : WF_vars(PrefetchNext(o))

FairSpec == Spec /\ Fairness

-----------------------------------------------------------------------------
(* Properties.                                                             *)

Calls == [stage : Stages, kind : Kinds, owner : Handles, gen : 0 .. MaxGeneration,
          attempt : 0 .. MaxAttempts]
HandleStates == [status : {"new", "open", "closed"}, ctx : 0 .. MaxGeneration,
                 gen : 0 .. MaxGeneration, end : Nat, hasLast : BOOLEAN]
ReadStates == [h : Handles, off : Nat, want : Nat, done : Nat, gen : 0 .. MaxGeneration,
               ahead : 0 .. ReadAheadChunks]

\* A read stays within its request and its object, and is only inside the loop of ReadAt
\* while there is something left to copy.
ReadInBounds(r) ==
  /\ rd[r].done <= rd[r].want
  /\ rd[r].off + rd[r].want <= Size[Object(r)]
  /\ pc[r] # "idle" => rd[r].want > 0
  /\ pc[r] \in {"begin", "acquire", "await", "backpressure", "copy"} => rd[r].done < rd[r].want

\* Types of the variables, and every read within its bounds (the loop of ReadAt).
TypeOK ==
  /\ up \in BOOLEAN
  /\ quota \in Nat
  /\ chunks \in SUBSET Keys
  /\ older \in SUBSET (Keys \X Keys)
  /\ pins \in [Keys -> Nat]
  /\ inflight \in [Keys -> Calls]
  /\ current \in Int
  /\ reserved \in Int
  /\ files \in SUBSET Keys
  /\ stray \in SUBSET Keys
  /\ handle \in [Handles -> HandleStates]
  /\ pc \in [Readers -> PCs]
  /\ rd \in [Readers -> ReadStates]
  /\ prefetch \in [Objects -> {Quiet} \cup 0 .. PrefetchChunks]
  /\ \A r \in Readers : ReadInBounds(r)

\* The two counters of the ledger are exactly the bytes of the cached chunks and of the
\* fetches in flight, whatever was evicted, failed or was recovered on the way.
LedgerExact ==
  /\ current = Bytes(chunks)
  /\ reserved = Bytes(InFlight)

\* Rolling mode: published chunk bytes plus reserved fetch bytes never exceed the quota.
QuotaRespected ==
  up /\ Policy = "rolling" => Bytes(chunks) + Bytes(InFlight) <= quota

\* Rolling mode: the bytes really on disk (chunk files, abandoned temporary files and the
\* temporary files of running fetches) stay within the quota as long as failed fetches
\* can remove their own files.
DiskWithinQuota ==
  up /\ Policy = "rolling" /\ ~CleanupFails
    => Bytes(files) + Bytes(stray) + Bytes({k \in Keys : inflight[k].stage = "temp"}) <= quota

\* Rolling mode: retained plus in-flight bytes of an object that has been opened stay
\* strictly below its logical size (Open trims, every reservation preserves it).
IncompleteObject ==
  Policy = "rolling" =>
    \A h \in Handles : handle[h].status # "new" => objectUsage(ObjectOf[h]) < Size[ObjectOf[h]]

CopyingAt(k) == {r \in Readers : pc[r] = "copy" /\ CurrentKey(r) = k}

\* A chunk that a reader is copying out is in the index and its file is on disk: no
\* eviction, by whichever goroutine, removes it under the reader (acquireChunk's pin).
PinnedChunkReadable ==
  \A r \in Readers : pc[r] = "copy" => CurrentKey(r) \in chunks \cap files

\* Pins are neither leaked nor dropped twice: they count the readers copying the chunk.
PinsMatchReaders == \A k \in Keys : pins[k] = Cardinality(CopyingAt(k))

\* A chunk is never fetched while it is cached (coalescing in acquireChunk and
\* scheduleBackgroundChunks), and every cached chunk has its file.
SingleFlight ==
  /\ chunks \cap InFlight = {}
  /\ chunks \subseteq files

\* Nobody waits in vain: a reader waiting for a call waits for one that is in flight, and
\* a reader waiting for capacity has a pin or a fetch in the pool whose end wakes it
\* (the notify channel is captured under the lock and closed by every release and finish).
NoLostWakeup ==
  \A r \in Readers :
    /\ pc[r] = "await" => CurrentKey(r) \in InFlight
    /\ pc[r] = "backpressure" => InFlight # {} \/ \E k \in Keys : pins[k] > 0

Started(k) == inflight[k].stage = "none" /\ inflight'[k].stage # "none"

\* Rolling mode: when a background fetch is reserved one chunk of the quota stays free,
\* so that it never takes the space a foreground miss needs (tryReserveBackgroundLocked).
BackgroundKeepsHeadroom ==
  [][\A k \in Keys :
       Started(k) /\ inflight'[k].kind # "foreground" /\ Policy = "rolling"
         => current' + reserved' <= quota - ChunkBytes]_vars

\* The prefetch goroutine of one object never evicts a chunk of another object.
PrefetchSparesOthers ==
  [][\A o \in Objects : up' /\ prefetch'[o] # prefetch[o]
        => \A k \in chunks : k[1] # o => k \in chunks']_vars

\* A read that completes late never moves the playback position of its handle backward:
\* within one generation of the window the position only advances.
PositionNeverMovesBack ==
  [][\A h \in Handles : up' /\ handle'[h].gen = handle[h].gen
        => handle'[h].end >= handle[h].end]_vars

\* Persistent mode: a chunk file that no running fetch is writing survives everything,
\* crashes and restarts with a smaller quota included.
PersistentRetains ==
  [][Policy = "persistent" => files \ InFlight \subseteq files']_vars

\* A reader that waits for capacity does not wait for ever.
BackpressureEnds ==
  \A r \in Readers : pc[r] = "backpressure" ~> pc[r] # "backpressure"

\* Every fetch ends, so every reader that joined it learns its outcome.
FetchesEnd == \A k \in Keys : k \in InFlight ~> k \notin InFlight
=============================================================================
