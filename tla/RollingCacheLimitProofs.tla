----------------------- MODULE RollingCacheLimitProofs ----------------------
(***************************************************************************)
(* Further proofs about RollingCache, on top of its inductive invariant:   *)
(* no object is cached completely, the disk stays within the quota, nobody *)
(* waits in vain, and what the steps of background work, recovery and      *)
(* eviction never do.                                                      *)
(***************************************************************************)
EXTENDS RollingCacheProofs, WellFoundedInduction

-----------------------------------------------------------------------------
(* An opened object stays incomplete.                                      *)

\* The usage of an object as its parts.
Usage(C, F, o) == Bytes(OfObject(C, o)) + Bytes(OfObject(F, o))

\* Fewer bytes of chunks, less usage.
LEMMA UsageEvict ==
  ASSUME NEW C \in SUBSET Keys, NEW F \in SUBSET Keys, NEW E \in SUBSET C, NEW o
  PROVE  /\ Usage(C \ E, F, o) = Usage(C, F, o) - Bytes(OfObject(E, o))
         /\ Bytes(OfObject(E, o)) \in Nat
         /\ Usage(C, F, o) \in Nat
<1>1. /\ OfObject(C, o) \in SUBSET Keys /\ OfObject(F, o) \in SUBSET Keys
      /\ OfObject(E, o) \in SUBSET OfObject(C, o) /\ OfObject(E, o) \in SUBSET Keys
  BY DEF OfObject
<1>2. OfObject(C \ E, o) = OfObject(C, o) \ OfObject(E, o)
  BY DEF OfObject
<1>3. Bytes(OfObject(C, o) \ OfObject(E, o)) = Bytes(OfObject(C, o)) - Bytes(OfObject(E, o))
  BY <1>1, BytesMinus
<1>4. Bytes(OfObject(C, o)) \in Nat /\ Bytes(OfObject(F, o)) \in Nat /\ Bytes(OfObject(E, o)) \in Nat
  BY <1>1, BytesFinite
<1>5. QED BY <1>2, <1>3, <1>4 DEF Usage

\* A chunk that is added to S adds its length to the bytes of its own object.
LEMMA BytesAdd ==
  ASSUME NEW S \in SUBSET Keys, NEW k \in Keys, k \notin S, NEW o
  PROVE  Bytes(OfObject(S \cup {k}, o))
           = Bytes(OfObject(S, o)) + (IF k[1] = o THEN Length(k) ELSE 0)
<1>1. /\ OfObject(S, o) \in SUBSET Keys /\ Bytes(OfObject(S, o)) \in Nat
  BY BytesFinite DEF OfObject
<1>2. CASE k[1] = o
  <2>1. OfObject(S \cup {k}, o) = OfObject(S, o) \cup {k} /\ OfObject(S, o) \cap {k} = {}
    BY <1>2 DEF OfObject
  <2>2. Bytes(OfObject(S, o) \cup {k}) = Bytes(OfObject(S, o)) + Bytes({k})
    BY <1>1, <2>1, BytesUnion
  <2>3. QED BY <1>2, <2>1, <2>2, BytesOne
<1>3. CASE k[1] # o
  <2>1. OfObject(S \cup {k}, o) = OfObject(S, o)
    BY <1>3 DEF OfObject
  <2>2. QED BY <1>1, <1>3, <2>1
<1>4. QED BY <1>2, <1>3

\* A step of a running process either does not raise an object's usage or leaves it below
\* the object's size.
LEMMA UsageStep ==
  ASSUME CacheInv, CacheInv', Effect, Policy = "rolling", NEW o \in Objects
  PROVE  /\ objectUsage(o) \in Nat /\ objectUsage(o)' \in Nat
         /\ objectUsage(o)' <= objectUsage(o) \/ objectUsage(o)' < Size[o]
<1>1. /\ TypeOK /\ TypeOK' /\ SingleFlight /\ Size[o] \in Nat
  BY CacheAssumption DEF CacheInv
<1>2. /\ chunks \in SUBSET Keys /\ InFlight \in SUBSET Keys
      /\ chunks' \in SUBSET Keys /\ InFlight' \in SUBSET Keys
  BY <1>1 DEF TypeOK, InFlight
<1>3. /\ objectUsage(o) = Usage(chunks, InFlight, o)
      /\ objectUsage(o)' = Usage(chunks', InFlight', o)
  BY DEF objectUsage, Usage, OfObject, InFlight, Bytes, BytesOf, Length, chunkLength, Start
<1>4. objectUsage(o) \in Nat /\ objectUsage(o)' \in Nat
  <2>1. \A C \in SUBSET Keys, F \in SUBSET Keys : Usage(C, F, o) \in Nat
    BY UsageEvict
  <2>2. QED BY <1>2, <1>3, <2>1
<1>5. CASE UNCHANGED <<chunks, inflight>>
  <2>1. InFlight' = InFlight
    BY <1>5 DEF InFlight
  <2>2. QED BY <1>3, <1>4, <1>5, <2>1
<1>6. CASE EvictsOnly
  <2>1. PICK E \in SUBSET Unpinned : Evict(E)
    BY <1>6 DEF EvictsOnly
  <2>2. E \in SUBSET chunks /\ chunks' = chunks \ E /\ InFlight' = InFlight
    BY <1>6, <2>1 DEF Unpinned, Evict, EvictsOnly, InFlight
  <2>3. objectUsage(o)' = objectUsage(o) - Bytes(OfObject(E, o)) /\ Bytes(OfObject(E, o)) \in Nat
    BY <1>2, <1>3, <2>2, UsageEvict
  <2>4. QED BY <1>4, <2>3
<1>7. ASSUME NEW k \in Keys, Reserves(k)
      PROVE  objectUsage(o)' <= objectUsage(o) \/ objectUsage(o)' < Size[o]
  <2>1. PICK E \in SUBSET Unpinned : Evict(E) /\ MakesRoom(E, k)
    BY <1>7 DEF Reserves
  <2>2. E \in SUBSET chunks /\ chunks' = chunks \ E
    BY <2>1 DEF Unpinned, Evict
  <2>3. InFlight' = InFlight \cup {k} /\ k \notin InFlight
    BY <1>1, <1>7, InFlightSteps DEF Reserves, Reserve, Present
  <2>4. /\ Usage(chunks \ E, InFlight, o) = objectUsage(o) - Bytes(OfObject(E, o))
        /\ Bytes(OfObject(E, o)) \in Nat
    BY <1>2, <1>3, <2>2, UsageEvict
  <2>5. /\ Bytes(OfObject(InFlight \cup {k}, o))
             = Bytes(OfObject(InFlight, o)) + (IF k[1] = o THEN Length(k) ELSE 0)
    BY <1>2, <2>3, BytesAdd
  <2>6. /\ OfObject(chunks \ E, o) \in SUBSET Keys /\ OfObject(InFlight, o) \in SUBSET Keys
    BY <1>2 DEF OfObject
  <2>7. /\ Bytes(OfObject(chunks \ E, o)) \in Nat /\ Bytes(OfObject(InFlight, o)) \in Nat
        /\ Length(k) \in Nat
    <3>1. Length(k) \in Nat
      BY LengthType, CacheAssumption
    <3>2. QED BY <2>6, <3>1, BytesFinite
  <2>8. objectUsage(o)' = objectUsage(o) - Bytes(OfObject(E, o)) + (IF k[1] = o THEN Length(k) ELSE 0)
    BY <1>3, <1>4, <2>2, <2>3, <2>4, <2>5, <2>7 DEF Usage
  <2>9. CASE k[1] = o
    <3>1. Bytes(OfObject(E, o)) >= objectUsage(o) + Length(k) - (Size[o] - 1)
      BY <2>1, <2>9 DEF MakesRoom
    <3>2. QED BY <1>1, <1>4, <2>4, <2>7, <2>8, <2>9, <3>1
  <2>10. CASE k[1] # o
    BY <1>4, <2>4, <2>8, <2>10
  <2>11. QED BY <2>9, <2>10
<1>8. ASSUME NEW k \in Keys, Advances(k) PROVE objectUsage(o)' <= objectUsage(o)
  <2>1. PICK call \in Calls : call.stage # "none" /\ inflight' = [inflight EXCEPT ![k] = call]
    BY <1>8 DEF Advances
  <2>a. InFlight' = InFlight \cup {k} /\ k \in InFlight /\ chunks' = chunks
    BY <1>1, <1>8, <2>1, InFlightSteps DEF Advances
  <2>b. InFlight' = InFlight
    BY <2>a
  <2>2. QED BY <1>3, <1>4, <2>a, <2>b
<1>9. ASSUME NEW k \in Keys, Finishes(k) PROVE objectUsage(o)' <= objectUsage(o)
  <2>1. InFlight' = InFlight \ {k} /\ k \in InFlight /\ k \notin chunks
    BY <1>1, <1>9, InFlightSteps DEF Finishes, FetchDone, SingleFlight
  <2>2. chunks' = chunks \/ chunks' = chunks \cup {k}
    BY <1>9 DEF Finishes, FetchDone
  <2>3. InFlight = InFlight' \cup {k} /\ k \notin InFlight'
    BY <2>1
  <2>4. Bytes(OfObject(InFlight, o))
          = Bytes(OfObject(InFlight', o)) + (IF k[1] = o THEN Length(k) ELSE 0)
    BY <1>2, <2>3, BytesAdd
  <2>5. \/ Bytes(OfObject(chunks', o)) = Bytes(OfObject(chunks, o))
        \/ Bytes(OfObject(chunks', o))
             = Bytes(OfObject(chunks, o)) + (IF k[1] = o THEN Length(k) ELSE 0)
    BY <1>2, <2>1, <2>2, BytesAdd
  <2>6. OfObject(InFlight', o) \in SUBSET Keys /\ OfObject(chunks, o) \in SUBSET Keys
    BY <1>2 DEF OfObject
  <2>7. Bytes(OfObject(InFlight', o)) \in Nat /\ Bytes(OfObject(chunks, o)) \in Nat /\ Length(k) \in Nat
    BY <2>6, BytesFinite, LengthType, CacheAssumption
  <2>8. QED BY <1>3, <2>4, <2>5, <2>7 DEF Usage
<1>10. CASE \E r \in Readers : AcquireHit(r) \/ CopyChunk(r)
  BY <1>5, <1>10 DEF AcquireHit, CopyChunk
<1>11. CASE Still
  BY <1>5, <1>11 DEF Still
<1>12. QED BY <1>4, <1>6, <1>7, <1>8, <1>9, <1>10, <1>11 DEF Effect

\* Only Open makes a new handle anything else.
LEMMA StatusStep ==
  ASSUME TypeOK, Next, up, ~Crash, NEW h \in Handles, handle[h].status = "new", ~Open(h)
  PROVE  handle'[h].status = "new"
<1>1. handle \in [Handles -> HandleStates] /\ rd \in [Readers -> ReadStates]
  BY DEF TypeOK
<1>2. ASSUME NEW r \in Readers, ReaderStep(r) \/ AbandonRead(r) PROVE handle'[h].status = "new"
  <2>1. CASE BeginRead(r)
    BY <1>1, <2>1 DEF BeginRead, HandleStates
  <2>2. CASE FinishRead(r)
    BY <1>1, <2>2 DEF FinishRead, HandleStates
  <2>3. QED BY <1>2, <2>1, <2>2 DEF ReaderStep, AbandonRead, AcquireHit, AcquireJoin, AcquireMiss,
                                   CopyChunk, ReadAhead
<1>3. ASSUME NEW g \in Handles, Open(g) \/ Close(g) PROVE handle'[h].status = "new"
  <2>1. CASE g = h
    BY <1>3, <2>1 DEF Close
  <2>2. CASE g # h
    BY <1>1, <1>3, <2>2 DEF Open, Close
  <2>3. QED BY <2>1, <2>2
<1>4. \A q \in Quotas : ~StartProcess(q)
  BY DEF StartProcess
<1>5. QED BY <1>2, <1>3, <1>4 DEF Next, StartRead, FetchStep, FetchOpen, FetchBody, FetchPublish,
                                   StartPrefetch, PrefetchNext

\* Opening a handle trims its object.
LEMMA OpenTrims ==
  ASSUME TypeOK, TypeOK', Policy = "rolling", NEW h \in Handles, handle[h].status = "new",
         Open(h), handle'[h].status # "new"
  PROVE  objectUsage(ObjectOf[h])' < Size[ObjectOf[h]]
<1> DEFINE o == ObjectOf[h]
<1>1. o \in Objects /\ Size[o] \in Nat
  BY CacheAssumption
<1>2. PICK v \in ensureIncompleteObject(o, 0, {}) :
        /\ Evict(v.gone)
        /\ handle' = IF v.verdict = "ok" THEN [handle EXCEPT ![h].status = "open"] ELSE handle
  BY DEF Open
<1>3. v.verdict = "ok"
  BY <1>2
<1>4. /\ v.gone \in SUBSET OfObject(Unpinned, o)
      /\ Bytes(v.gone) >= objectUsage(o) + 0 - (Size[o] - 1)
  BY <1>2, <1>3, EvictUntilSound DEF ensureIncompleteObject
<1>5. /\ v.gone \in SUBSET chunks /\ OfObject(v.gone, o) = v.gone
      /\ chunks \in SUBSET Keys /\ InFlight \in SUBSET Keys
  BY <1>4 DEF OfObject, Unpinned, TypeOK, InFlight
<1>6. chunks' = chunks \ v.gone /\ InFlight' = InFlight
  BY <1>2 DEF Evict, Open, InFlight
<1>7. /\ objectUsage(o) = Usage(chunks, InFlight, o)
      /\ objectUsage(o)' = Usage(chunks', InFlight', o)
  BY DEF objectUsage, Usage, OfObject, InFlight, Bytes, BytesOf, Length, chunkLength, Start
<1>8. /\ objectUsage(o)' = objectUsage(o) - Bytes(v.gone)
      /\ Bytes(v.gone) \in Nat /\ objectUsage(o) \in Nat
  <2>1. /\ Usage(chunks \ v.gone, InFlight, o)
             = Usage(chunks, InFlight, o) - Bytes(OfObject(v.gone, o))
        /\ Bytes(OfObject(v.gone, o)) \in Nat /\ Usage(chunks, InFlight, o) \in Nat
    BY <1>5, UsageEvict
  <2>2. QED BY <1>5, <1>6, <1>7, <2>1
<1>9. QED BY <1>1, <1>4, <1>8

\* Every step keeps opened objects incomplete.
LEMMA IncompleteStep ==
  ASSUME CacheInv, CacheInv', IncompleteObject, [Next]_vars
  PROVE  IncompleteObject'
<1> SUFFICES ASSUME Policy = "rolling", NEW h \in Handles, handle'[h].status # "new"
             PROVE  objectUsage(ObjectOf[h])' < Size[ObjectOf[h]]
  BY DEF IncompleteObject
<1> DEFINE o == ObjectOf[h]
<1>1. o \in Objects /\ Size[o] \in Nat /\ TypeOK /\ TypeOK'
  BY CacheAssumption DEF CacheInv
<1>2. CASE UNCHANGED vars
  <2>1. objectUsage(o)' = objectUsage(o) /\ handle' = handle
    BY <1>2 DEF vars, cacheVars, objectUsage, OfObject, InFlight, Bytes, BytesOf, Length,
                chunkLength, Start
  <2>2. QED BY <2>1 DEF IncompleteObject
<1>3. CASE ~up /\ Next
  <2>1. Down
    BY <1>3 DEF CacheInv
  <2>2. PICK q \in Quotas : StartProcess(q)
    BY <1>3, <2>1, DownOnlyStarts
  <2>3. QED BY <2>1, <2>2 DEF StartProcess, Down, NoHandles, NewHandle
<1>4. CASE Crash
  BY <1>4 DEF Crash, NoHandles, NewHandle
<1>5. CASE Next /\ up /\ ~Crash
  <2>1. Effect
    BY <1>5, RunningEffect
  <2>2. /\ objectUsage(o) \in Nat /\ objectUsage(o)' \in Nat
        /\ objectUsage(o)' <= objectUsage(o) \/ objectUsage(o)' < Size[o]
    BY <1>1, <2>1, UsageStep
  <2>3. CASE handle[h].status # "new"
    <3>1. objectUsage(o) < Size[o]
      BY <2>3 DEF IncompleteObject
    <3>2. QED BY <1>1, <2>2, <3>1
  <2>4. CASE handle[h].status = "new"
    BY <1>1, <1>5, <2>4, StatusStep, OpenTrims
  <2>5. QED BY <2>3, <2>4
<1>6. QED BY <1>2, <1>3, <1>4, <1>5

\* Rolling mode never caches an opened object completely: Open trims it, and every
\* reservation of any goroutine keeps retained plus in-flight bytes below its size.
THEOREM ObjectsStayIncomplete == Spec => []IncompleteObject
<1>1. Init => IncompleteObject
  BY DEF Init, NoHandles, NewHandle, IncompleteObject
<1>2. CacheInv /\ CacheInv' /\ IncompleteObject /\ [Next]_vars => IncompleteObject'
  BY IncompleteStep
<1>3. QED BY <1>1, <1>2, CacheInvariant, PTL DEF Spec

-----------------------------------------------------------------------------
(* What is on disk.                                                        *)

Renamed == {k \in Keys : inflight[k].stage = "renamed"}
Temporary == {k \in Keys : inflight[k].stage = "temp"}

\* As long as failed fetches remove their own files, a running process knows every file on
\* its disk: it is a cached chunk or the renamed file of a fetch.
DiskKnown ==
  up /\ ~CleanupFails => stray = {} /\ files \subseteq chunks \cup Renamed

\* The files on disk are within the quota when the process knows them all.
LEMMA KnownWithinQuota ==
  ASSUME CacheInv, DiskKnown
  PROVE  DiskWithinQuota
<1> SUFFICES ASSUME up, Policy = "rolling", ~CleanupFails
             PROVE  Bytes(files) + Bytes(stray) + Bytes(Temporary) <= quota
  BY DEF DiskWithinQuota, Temporary
<1>1. /\ files \in SUBSET Keys /\ chunks \in SUBSET Keys /\ quota \in Nat
      /\ Renamed \in SUBSET Keys /\ Temporary \in SUBSET Keys /\ InFlight \in SUBSET Keys
  BY DEF CacheInv, TypeOK, Renamed, Temporary, InFlight
<1>2. /\ Renamed \cup Temporary \in SUBSET InFlight /\ Renamed \cap Temporary = {}
      /\ chunks \cap Renamed = {}
  BY DEF CacheInv, SingleFlight, InFlight, Renamed, Temporary
<1>3. stray = {} /\ files \in SUBSET (chunks \cup Renamed)
  BY DEF DiskKnown
<1>4. Bytes(files) <= Bytes(chunks \cup Renamed)
  BY <1>1, <1>3, BytesMinus
<1>5. Bytes(chunks \cup Renamed) = Bytes(chunks) + Bytes(Renamed)
  BY <1>1, <1>2, BytesUnion
<1>6. Bytes(Renamed \cup Temporary) = Bytes(Renamed) + Bytes(Temporary)
  BY <1>1, <1>2, BytesUnion
<1>7. Bytes(Renamed \cup Temporary) <= Bytes(InFlight)
  BY <1>1, <1>2, BytesMinus
<1>8. Bytes(chunks) + Bytes(InFlight) <= quota
  BY DEF CacheInv, LedgerExact, QuotaLedger
<1>9. /\ Bytes(files) \in Nat /\ Bytes(chunks) \in Nat /\ Bytes(Renamed) \in Nat
      /\ Bytes(Temporary) \in Nat /\ Bytes(InFlight) \in Nat
  BY <1>1, BytesFinite
<1>10. QED BY <1>1, <1>3, <1>4, <1>5, <1>6, <1>7, <1>8, <1>9, BytesOne

\* Eviction, and a reservation, leave no file behind.
LEMMA EvictKnown ==
  ASSUME TypeOK, files \subseteq chunks \cup Renamed, NEW E, Evict(E),
         \/ UNCHANGED inflight
         \/ \E k \in Keys, call \in Calls :
              k \notin InFlight /\ call.stage = "open" /\ Reserve(k, call)
  PROVE  files' \subseteq chunks' \cup Renamed'
<1>1. Renamed \subseteq Renamed'
  BY DEF Renamed, Reserve, InFlight, TypeOK
<1>2. QED BY <1>1 DEF Evict

\* The end of a fetch leaves no file behind, unless it is published or was never renamed.
LEMMA FetchDoneKnown ==
  ASSUME TypeOK, files \subseteq chunks \cup Renamed, NEW k \in Keys,
         NEW published \in BOOLEAN, NEW verdict, FetchDone(k, published, verdict),
         files' \subseteq files, published \/ k \notin Renamed \/ k \notin files'
  PROVE  files' \subseteq chunks' \cup Renamed'
<1>1. Renamed \ {k} \subseteq Renamed'
  BY DEF Renamed, FetchDone, TypeOK
<1>2. chunks \subseteq chunks' /\ (published => k \in chunks')
  BY DEF FetchDone
<1>3. QED BY <1>1, <1>2

\* So does an attempt that failed.
LEMMA AttemptKnown ==
  ASSUME TypeOK, files \subseteq chunks \cup Renamed, NEW k \in Keys,
         NEW takesContext, AttemptFailed(k, takesContext),
         files' \subseteq files, k \notin Renamed \/ k \notin files'
  PROVE  files' \subseteq chunks' \cup Renamed'
<1>1. CASE /\ inflight' = [inflight EXCEPT ![k].stage = "open", ![k].attempt = @ + 1]
           /\ UNCHANGED chunks
  <2>1. Renamed \ {k} \subseteq Renamed'
    BY <1>1 DEF Renamed, TypeOK
  <2>2. QED BY <1>1, <2>1
<1>2. CASE \E verdict : FetchDone(k, FALSE, verdict)
  BY <1>2, FetchDoneKnown
<1>3. QED BY <1>1, <1>2 DEF AttemptFailed

\* Every step keeps the disk known.
LEMMA DiskKnownStep ==
  ASSUME CacheInv, DiskKnown, [Next]_vars
  PROVE  DiskKnown'
<1> SUFFICES ASSUME up', ~CleanupFails
             PROVE  stray' = {} /\ files' \subseteq chunks' \cup Renamed'
  BY DEF DiskKnown
<1>1. TypeOK /\ inflight \in [Keys -> Calls]
  BY DEF CacheInv, TypeOK
<1>2. CASE UNCHANGED vars
  BY <1>2 DEF vars, cacheVars, diskVars, DiskKnown, Renamed
<1>3. CASE ~up /\ Next
  <2>1. Down
    BY <1>3 DEF CacheInv
  <2>2. PICK q \in Quotas : StartProcess(q)
    BY <1>3, <2>1, DownOnlyStarts
  <2>3. QED BY <1>1, <1>3, <2>1, <2>2, StartEffect DEF StartProcess
<1>4. CASE Crash
  BY <1>4 DEF Crash
<1>5. CASE Next /\ up /\ ~Crash
  <2>1. stray = {} /\ files \subseteq chunks \cup Renamed
    BY <1>5 DEF DiskKnown
  <2>2. ASSUME NEW r \in Readers, ReaderStep(r) \/ AbandonRead(r)
        PROVE  stray' = {} /\ files' \subseteq chunks' \cup Renamed'
    <3>1. CASE AcquireMiss(r)
      <4>1. CurrentKey(r) \in Keys /\ CurrentKey(r) \notin InFlight
        BY <1>1, <3>1, ReadPosition DEF AcquireMiss, ReadInBounds, TypeOK
      <4>2. \E v : /\ Evict(v.gone)
                   /\ \/ UNCHANGED inflight
                      \/ Reserve(CurrentKey(r), Call("foreground", AnyHandle, 0))
        BY <3>1 DEF AcquireMiss
      <4>3. /\ Call("foreground", AnyHandle, 0) \in Calls
            /\ Call("foreground", AnyHandle, 0).stage = "open"
        BY ConstantTypes, CacheAssumption DEF Call, Calls, Stages, Kinds
      <4>4. QED BY <1>1, <2>1, <3>1, <4>1, <4>2, <4>3, EvictKnown DEF AcquireMiss
    <3>2. CASE ReadAhead(r)
      <4> DEFINE k == <<Object(r), NextIndex(r) + rd[r].ahead>>
                 call == Call("readAhead", rd[r].h, rd[r].gen)
      <4>1. call \in Calls /\ call.stage = "open"
        BY <1>1, CacheAssumption DEF Call, Calls, Stages, Kinds, ReadStates, TypeOK
      <4>2. \/ UNCHANGED <<cacheVars, files>>
            \/ /\ k \in Keys /\ k \notin InFlight
               /\ \E v : Evict(v.gone) /\ (UNCHANGED inflight \/ Reserve(k, call))
        BY <3>2 DEF ReadAhead, Present
      <4>3. stray' = {}
        BY <2>1, <3>2 DEF ReadAhead
      <4>4. CASE UNCHANGED <<cacheVars, files>>
        BY <2>1, <4>3, <4>4 DEF cacheVars, Renamed
      <4> HIDE DEF call, k
      <4>5. QED BY <1>1, <2>1, <4>1, <4>2, <4>3, <4>4, EvictKnown
    <3>3. CASE \/ BeginRead(r) \/ AcquireHit(r) \/ AcquireJoin(r) \/ CopyChunk(r)
               \/ FinishRead(r) \/ AbandonRead(r)
      BY <2>1, <3>3 DEF BeginRead, AcquireHit, AcquireJoin, CopyChunk, FinishRead, AbandonRead,
                        cacheVars, diskVars, Renamed
    <3>4. QED BY <2>2, <3>1, <3>2, <3>3 DEF ReaderStep
  <2>3. ASSUME NEW k \in Keys, FetchStep(k)
        PROVE  stray' = {} /\ files' \subseteq chunks' \cup Renamed'
    <3>1. CASE FetchOpen(k)
      <4>1. k \notin Renamed /\ files' = files /\ stray' = {}
        BY <2>1, <3>1 DEF FetchOpen, Renamed, diskVars
      <4>2. CASE inflight' = [inflight EXCEPT ![k].stage = "temp"] /\ UNCHANGED chunks
        <5>1. Renamed \subseteq Renamed'
          BY <1>1, <4>1, <4>2 DEF Renamed
        <5>2. QED BY <2>1, <4>1, <4>2, <5>1
      <4>3. CASE FetchDone(k, FALSE, "error")
        BY <1>1, <2>1, <4>1, <4>3, FetchDoneKnown
      <4>4. CASE AttemptFailed(k, TRUE)
        BY <1>1, <2>1, <4>1, <4>4, AttemptKnown
      <4>5. QED BY <3>1, <4>2, <4>3, <4>4 DEF FetchOpen
    <3>2. CASE FetchBody(k)
      <4>1. k \notin Renamed /\ stray' = {}
        BY <2>1, <3>2 DEF FetchBody, Renamed
      <4>2. CASE /\ inflight' = [inflight EXCEPT ![k].stage = "renamed"]
                 /\ files' = files \cup {k} /\ UNCHANGED chunks
        <5>1. Renamed \cup {k} \subseteq Renamed'
          BY <1>1, <4>2 DEF Renamed, Calls
        <5>2. QED BY <2>1, <4>1, <4>2, <5>1
      <4>3. CASE AttemptFailed(k, TRUE) /\ UNCHANGED files
        BY <1>1, <2>1, <4>1, <4>3, AttemptKnown
      <4>4. QED BY <3>2, <4>2, <4>3 DEF FetchBody
    <3>3. CASE FetchPublish(k)
      <4>1. stray' = {}
        BY <2>1, <3>3 DEF FetchPublish
      <4>2. CASE \E verdict \in {"ok", "error"} : FetchDone(k, TRUE, verdict) /\ UNCHANGED files
        BY <1>1, <2>1, <4>1, <4>2, FetchDoneKnown
      <4>3. CASE AttemptFailed(k, FALSE) /\ files' = files \ {k}
        BY <1>1, <2>1, <4>1, <4>3, AttemptKnown
      <4>4. QED BY <3>3, <4>2, <4>3 DEF FetchPublish
    <3>4. QED BY <2>3, <3>1, <3>2, <3>3 DEF FetchStep
  <2>4. ASSUME NEW o \in Objects, StartPrefetch(o) \/ PrefetchNext(o)
        PROVE  stray' = {} /\ files' \subseteq chunks' \cup Renamed'
    <3> DEFINE k == <<o, prefetch[o]>>
               call == Call("nextEpisode", AnyHandle, 0)
    <3>1. call \in Calls /\ call.stage = "open"
      BY ConstantTypes, CacheAssumption DEF Call, Calls, Stages, Kinds
    <3>2. \/ UNCHANGED <<cacheVars, files>>
          \/ /\ k \in Keys /\ k \notin InFlight
             /\ \E v : Evict(v.gone) /\ (UNCHANGED inflight \/ Reserve(k, call))
      BY <2>4 DEF StartPrefetch, PrefetchNext, Present, diskVars
    <3>3. stray' = {}
      BY <2>1, <2>4 DEF StartPrefetch, PrefetchNext, diskVars
    <3>4. CASE UNCHANGED <<cacheVars, files>>
      BY <2>1, <3>3, <3>4 DEF cacheVars, Renamed
    <3> HIDE DEF call, k
    <3>5. QED BY <1>1, <2>1, <3>1, <3>2, <3>3, <3>4, EvictKnown
  <2>5. ASSUME NEW h \in Handles, Open(h) \/ Close(h)
        PROVE  stray' = {} /\ files' \subseteq chunks' \cup Renamed'
    <3>1. CASE Open(h)
      <4>1. \E E : Evict(E) /\ UNCHANGED inflight
        BY <3>1 DEF Open
      <4>2. QED BY <1>1, <2>1, <3>1, <4>1, EvictKnown DEF Open
    <3>2. CASE Close(h)
      BY <2>1, <3>2 DEF Close, cacheVars, diskVars, Renamed
    <3>3. QED BY <2>5, <3>1, <3>2
  <2>6. ASSUME NEW r \in Readers, NEW h \in Handles, NEW rg \in Reads, StartRead(r, h, rg[1], rg[2])
        PROVE  stray' = {} /\ files' \subseteq chunks' \cup Renamed'
    BY <2>1, <2>6 DEF StartRead, cacheVars, diskVars, Renamed
  <2>7. \A q \in Quotas : ~StartProcess(q)
    BY <1>5 DEF StartProcess
  <2>8. QED BY <1>5, <2>2, <2>3, <2>4, <2>5, <2>6, <2>7 DEF Next
<1>6. QED BY <1>2, <1>3, <1>4, <1>5

\* Rolling mode: what is really on disk stays within options.MaxBytes as long as failed
\* fetches can remove their own files, whatever was on the disk before the first start.
THEOREM DiskStaysWithinQuota == Spec => []DiskWithinQuota
<1>1. Init => DiskKnown
  BY DEF Init, DiskKnown
<1>2. CacheInv /\ DiskKnown /\ [Next]_vars => DiskKnown'
  BY DiskKnownStep
<1>3. CacheInv /\ DiskKnown => DiskWithinQuota
  BY KnownWithinQuota
<1>4. QED BY <1>1, <1>2, <1>3, CacheInvariant, PTL DEF Spec

-----------------------------------------------------------------------------
(* Waiting readers.                                                        *)

\* The quota is one that options.MaxBytes may have.
QuotaChosen == up => quota \in Quotas

\* Rolling mode: only objects of more than one chunk are read through the cache.
BigReads ==
  \A r \in Readers : Policy = "rolling" /\ pc[r] # "idle" => Size[Object(r)] > ChunkBytes

\* One reader does not wait in vain.
Waits(r) ==
  /\ pc[r] = "await" => CurrentKey(r) \in InFlight
  /\ pc[r] = "backpressure" => InFlight # {} \/ \E k \in Keys : pins[k] > 0

\* A foreground miss is refused only while something is pinned or in flight: an idle pool
\* has room for one chunk, in the quota and in the object.
LEMMA FullMeansBusy ==
  ASSUME CacheInv, up, quota \in Quotas, NEW k \in Keys,
         Policy = "rolling" => Size[k[1]] > ChunkBytes,
         NEW v \in tryReserve(k, "foreground", {}), v.verdict = "full"
  PROVE  InFlight # {} \/ \E j \in Keys : pins[j] > 0
<1> SUFFICES ASSUME InFlight = {}, \A j \in Keys : ~(pins[j] > 0)
             PROVE  FALSE
  OBVIOUS
<1> DEFINE o == k[1]
<1>1. Policy # "persistent"
  BY DEF tryReserve
<1>2. /\ o \in Objects /\ Size[o] \in Nat /\ Length(k) \in Nat /\ Length(k) <= ChunkBytes
      /\ ChunkBytes \in Nat /\ quota \in Nat /\ quota >= ChunkBytes /\ Size[o] > ChunkBytes
  <2>1. o \in Objects
    BY DEF Keys
  <2>2. Policy = "rolling"
    BY <1>1, CacheAssumption
  <2>3. QED BY <2>1, <2>2, LengthType, CacheAssumption
<1>3. chunks \in SUBSET Keys /\ Unpinned = chunks
  <2>1. chunks \in SUBSET Keys /\ pins \in [Keys -> Nat]
    BY DEF CacheInv, TypeOK
  <2>2. QED BY <2>1 DEF Unpinned
<1>4. current = Bytes(chunks) /\ reserved = 0
  BY BytesOne DEF CacheInv, LedgerExact
<1>5. objectUsage(o) = Bytes(OfObject(chunks, o)) /\ Bytes(OfObject(chunks, o)) \in Nat
  <2>1. OfObject(chunks, o) \in SUBSET Keys /\ OfObject(InFlight, o) = {}
    BY <1>3 DEF OfObject
  <2>2. Bytes(OfObject(chunks, o)) \in Nat
    BY <2>1, BytesFinite
  <2>3. QED BY <2>1, <2>2, BytesOne DEF objectUsage
<1>6. ASSUME NEW own \in ensureIncompleteObject(o, Length(k), {}) PROVE own.verdict # "full"
  <2>1. own.verdict = "full" =>
          ~(Bytes(OfObject(Unpinned, o) \ {}) >= objectUsage(o) + Length(k) - (Size[o] - 1))
    BY EvictUntilSound DEF ensureIncompleteObject
  <2>2. OfObject(Unpinned, o) \ {} = OfObject(chunks, o)
    BY <1>3
  <2>3. QED BY <1>2, <1>5, <2>1, <2>2
<1>7. PICK own \in ensureIncompleteObject(o, Length(k), {}) :
        \/ own.verdict # "ok" /\ v = own
        \/ \E g \in EvictUntil(older, GlobalVictims("foreground", own.gone, {}),
                      current - Bytes(own.gone) + reserved + Length(k)
                        - (quota - Headroom("foreground"))) :
             v = [gone |-> own.gone \cup g.gone, verdict |-> g.verdict]
  <2>1. PICK own \in ensureIncompleteObject(o, Length(k), {}) :
          v \in IF own.verdict # "ok" THEN {own}
                ELSE {[gone |-> own.gone \cup g.gone, verdict |-> g.verdict] : g \in
                        EvictUntil(older, GlobalVictims("foreground", own.gone, {}),
                          current - Bytes(own.gone) + reserved + Length(k)
                            - (quota - Headroom("foreground")))}
    BY <1>1 DEF tryReserve
  <2>2. QED BY <2>1
<1>8. CASE own.verdict # "ok" /\ v = own
  BY <1>6, <1>8
<1>9. ASSUME NEW g \in EvictUntil(older, GlobalVictims("foreground", own.gone, {}),
                      current - Bytes(own.gone) + reserved + Length(k)
                        - (quota - Headroom("foreground"))),
             v = [gone |-> own.gone \cup g.gone, verdict |-> g.verdict]
      PROVE  FALSE
  <2>1. g.verdict = "full"
    BY <1>9
  <2>2. ~(Bytes(GlobalVictims("foreground", own.gone, {}))
            >= current - Bytes(own.gone) + reserved + Length(k) - (quota - Headroom("foreground")))
    BY <2>1, EvictUntilSound
  <2>3. own.gone \in SUBSET chunks
    BY <1>3, EvictUntilSound DEF ensureIncompleteObject, OfObject
  <2>4. GlobalVictims("foreground", own.gone, {}) = chunks \ own.gone /\ Headroom("foreground") = 0
    BY <1>3 DEF GlobalVictims, Headroom
  <2>5. Bytes(chunks \ own.gone) = Bytes(chunks) - Bytes(own.gone)
    BY <1>3, <2>3, BytesMinus
  <2>6. Bytes(chunks) \in Nat /\ Bytes(own.gone) \in Nat
    BY <1>3, <2>3, BytesFinite
  <2>7. ~(Bytes(chunks) - Bytes(own.gone)
            >= Bytes(chunks) - Bytes(own.gone) + 0 + Length(k) - (quota - 0))
    BY <1>4, <2>2, <2>4, <2>5, Zenon
  <2>8. QED BY <1>2, <2>6, <2>7
<1>10. QED BY <1>7, <1>8, <1>9

\* A reader that goes on waiting while nothing ends does not wait in vain.
LEMMA WaitKept ==
  ASSUME NEW q \in Readers, Waits(q), InFlight \subseteq InFlight',
         \A k \in Keys : pins[k] > 0 => pins'[k] > 0,
         pc'[q] \in {"await", "backpressure"} => pc'[q] = pc[q] /\ rd'[q] = rd[q]
  PROVE  Waits(q)'
BY DEF Waits, CurrentKey, Object

\* The end of a fetch wakes whoever waits for it and whoever waits for capacity.
LEMMA FetchDoneWakes ==
  ASSUME TypeOK, NEW k \in Keys, NEW published, NEW verdict, FetchDone(k, published, verdict),
         NEW q \in Readers, Waits(q)
  PROVE  Waits(q)'
<1>1. pc'[q] = "await" => pc[q] = "await" /\ CurrentKey(q) # k /\ rd'[q] = rd[q]
  BY DEF FetchDone, Signalled
<1>2. pc'[q] # "backpressure"
  BY DEF FetchDone, Signalled
<1>3. InFlight' = InFlight \ {k}
  BY InFlightSteps DEF FetchDone
<1>4. QED BY <1>1, <1>2, <1>3 DEF Waits, CurrentKey, Object

\* No step of a reader leaves anyone waiting in vain.
LEMMA ReaderWaits ==
  ASSUME CacheInv, up, QuotaChosen, BigReads, NEW r \in Readers, ReaderStep(r) \/ AbandonRead(r),
         NEW q \in Readers, Waits(q)
  PROVE  Waits(q)'
<1>1. /\ TypeOK /\ pc \in [Readers -> PCs] /\ rd \in [Readers -> ReadStates]
      /\ inflight \in [Keys -> Calls] /\ pins \in [Keys -> Nat]
  BY DEF CacheInv, TypeOK
<1>2. CASE BeginRead(r) \/ FinishRead(r) \/ AbandonRead(r)
  <2>1. InFlight' = InFlight /\ pins' = pins
    BY <1>2 DEF BeginRead, FinishRead, AbandonRead, cacheVars, InFlight
  <2>2. pc'[q] \in {"await", "backpressure"} => pc'[q] = pc[q] /\ rd'[q] = rd[q]
    BY <1>1, <1>2 DEF BeginRead, FinishRead, AbandonRead, Return
  <2>3. QED BY <2>1, <2>2, WaitKept
<1>3. CASE AcquireHit(r)
  <2>1. CurrentKey(r) \in Keys
    BY <1>1, <1>3 DEF AcquireHit, TypeOK
  <2>2. InFlight' = InFlight /\ \A k \in Keys : pins[k] > 0 => pins'[k] > 0
    BY <1>1, <1>3, <2>1 DEF AcquireHit, InFlight
  <2>3. pc'[q] \in {"await", "backpressure"} => pc'[q] = pc[q] /\ rd'[q] = rd[q]
    BY <1>1, <1>3 DEF AcquireHit
  <2>4. QED BY <2>2, <2>3, WaitKept
<1>4. CASE AcquireJoin(r)
  <2>1. InFlight' = InFlight /\ pins' = pins /\ rd' = rd
    BY <1>4 DEF AcquireJoin, cacheVars, InFlight
  <2>2. CASE q = r
    BY <1>1, <1>4, <2>1, <2>2 DEF AcquireJoin, Waits, CurrentKey, Object
  <2>3. CASE q # r
    BY <1>1, <1>4, <2>1, <2>3, WaitKept DEF AcquireJoin
  <2>4. QED BY <2>2, <2>3
<1>5. CASE AcquireMiss(r)
  <2> DEFINE k == CurrentKey(r)
             call == Call("foreground", AnyHandle, 0)
  <2>1. k \in Keys /\ k[1] = Object(r)
    <3>1. k[1] = Object(r)
      BY DEF CurrentKey
    <3>2. QED BY <1>1, <1>5, <3>1, ReadPosition DEF AcquireMiss, ReadInBounds, TypeOK
  <2>2. call \in Calls /\ call.stage = "open"
    BY ConstantTypes, CacheAssumption DEF Call, Calls, Stages, Kinds
  <2>3. PICK v \in tryReserve(k, "foreground", {}) :
          \/ /\ v.verdict = "ok" /\ Reserve(k, call)
             /\ pc' = [pc EXCEPT ![r] = "await"] /\ rd' = rd
          \/ /\ v.verdict = "full" /\ inflight' = inflight
             /\ pc' = [pc EXCEPT ![r] = "backpressure"] /\ rd' = rd
          \/ /\ v.verdict = "error" /\ inflight' = inflight
             /\ Return(r)
    BY <1>5 DEF AcquireMiss
  <2> HIDE DEF call, k
  <2>4. pins' = pins
    BY <1>5 DEF AcquireMiss
  <2>5. CASE /\ v.verdict = "ok" /\ Reserve(k, call)
             /\ pc' = [pc EXCEPT ![r] = "await"] /\ rd' = rd
    <3>1. InFlight' = InFlight \cup {k}
      BY <1>1, <2>1, <2>2, <2>5, InFlightSteps DEF Reserve
    <3>2. CASE q = r
      BY <1>1, <2>5, <3>1, <3>2 DEF Waits, CurrentKey, Object, k
    <3>3. CASE q # r
      BY <1>1, <2>4, <2>5, <3>1, <3>3, WaitKept
    <3>4. QED BY <3>2, <3>3
  <2>6. CASE /\ v.verdict = "full" /\ inflight' = inflight
             /\ pc' = [pc EXCEPT ![r] = "backpressure"] /\ rd' = rd
    <3>1. InFlight' = InFlight
      BY <2>6 DEF InFlight
    <3>2. InFlight # {} \/ \E j \in Keys : pins[j] > 0
      <4>1. Policy = "rolling" => Size[k[1]] > ChunkBytes
        BY <1>5, <2>1 DEF BigReads, AcquireMiss
      <4>2. quota \in Quotas
        BY DEF QuotaChosen
      <4>3. QED BY <2>1, <2>6, <4>1, <4>2, FullMeansBusy
    <3>3. CASE q = r
      BY <1>1, <2>4, <2>6, <3>1, <3>2, <3>3 DEF Waits
    <3>4. CASE q # r
      BY <1>1, <2>4, <2>6, <3>1, <3>4, WaitKept
    <3>5. QED BY <3>3, <3>4
  <2>7. CASE v.verdict = "error" /\ inflight' = inflight /\ Return(r)
    <3>1. InFlight' = InFlight
      BY <2>7 DEF InFlight
    <3>2. pc'[q] \in {"await", "backpressure"} => pc'[q] = pc[q] /\ rd'[q] = rd[q]
      BY <1>1, <2>7 DEF Return
    <3>3. QED BY <2>4, <3>1, <3>2, WaitKept
  <2>8. QED BY <2>3, <2>5, <2>6, <2>7
<1>6. CASE CopyChunk(r)
  <2>1. InFlight' = InFlight
    BY <1>6 DEF CopyChunk, InFlight
  <2>2. pc'[q] # "backpressure" /\ (pc'[q] = "await" => pc[q] = "await" /\ rd'[q] = rd[q])
    BY <1>1, <1>6 DEF CopyChunk, Signalled
  <2>3. QED BY <2>1, <2>2 DEF Waits, CurrentKey, Object
<1>7. CASE ReadAhead(r)
  <2> DEFINE k == <<Object(r), NextIndex(r) + rd[r].ahead>>
             call == Call("readAhead", rd[r].h, rd[r].gen)
  <2>1. call \in Calls /\ call.stage # "none"
    BY <1>1, CacheAssumption DEF Call, Calls, Stages, Kinds, ReadStates
  <2>2. pins' = pins /\ (inflight' = inflight \/ (k \in Keys /\ Reserve(k, call)))
    BY <1>7 DEF ReadAhead, cacheVars
  <2>3. pc'[q] \in {"await", "backpressure"} => pc'[q] = pc[q] /\ rd'[q] = rd[q]
    BY <1>1, <1>7 DEF ReadAhead, Return
  <2> HIDE DEF call, k
  <2>4. InFlight \subseteq InFlight'
    <3>1. CASE inflight' = inflight
      BY <3>1 DEF InFlight
    <3>2. CASE k \in Keys /\ Reserve(k, call)
      BY <1>1, <2>1, <3>2, InFlightSteps DEF Reserve
    <3>3. QED BY <2>2, <3>1, <3>2
  <2>5. QED BY <2>2, <2>3, <2>4, WaitKept
<1>8. QED BY <1>2, <1>3, <1>4, <1>5, <1>6, <1>7 DEF ReaderStep

\* No step leaves anyone waiting in vain.
LEMMA WaitStep ==
  ASSUME CacheInv, QuotaChosen, BigReads, NoLostWakeup, [Next]_vars
  PROVE  NoLostWakeup'
<1> SUFFICES ASSUME NEW q \in Readers PROVE Waits(q)'
  BY DEF NoLostWakeup, Waits
<1>1. /\ TypeOK /\ Waits(q) /\ pc \in [Readers -> PCs] /\ rd \in [Readers -> ReadStates]
      /\ inflight \in [Keys -> Calls]
  BY DEF CacheInv, TypeOK, NoLostWakeup, Waits
<1>2. ASSUME UNCHANGED <<inflight, pins, pc, rd>> PROVE Waits(q)'
  BY <1>1, <1>2 DEF Waits, InFlight, CurrentKey, Object
<1>3. CASE UNCHANGED vars
  BY <1>2, <1>3 DEF vars, cacheVars, readVars
<1>4. CASE Next /\ ~up
  <2>1. \E p \in Quotas : StartProcess(p)
    BY <1>4, DownOnlyStarts DEF CacheInv
  <2>2. QED BY <1>2, <2>1 DEF StartProcess, readVars
<1>5. CASE Crash
  BY <1>5 DEF Crash, AllIdle, Waits
<1>6. CASE Next /\ up /\ ~Crash
  <2>1. ASSUME NEW r \in Readers, ReaderStep(r) \/ AbandonRead(r) PROVE Waits(q)'
    BY <1>1, <1>6, <2>1, ReaderWaits
  <2>2. ASSUME NEW k \in Keys, FetchStep(k) PROVE Waits(q)'
    <3>1. Advances(k) \/ Finishes(k)
      BY <1>1, <2>2, FetchEffect DEF CacheInv
    <3>2. ASSUME NEW published, NEW verdict, FetchDone(k, published, verdict) PROVE Waits(q)'
      BY <1>1, <3>2, FetchDoneWakes
    <3>3. CASE UNCHANGED <<pins, readVars>> /\ InFlight' = InFlight
      BY <1>1, <3>3, WaitKept DEF readVars
    <3>4. CASE Finishes(k)
      BY <3>2, <3>4 DEF Finishes
    <3>5. CASE Advances(k) /\ UNCHANGED readVars
      <4>1. PICK call \in Calls : call.stage # "none" /\ inflight' = [inflight EXCEPT ![k] = call]
        BY <3>5 DEF Advances
      <4>2. InFlight' = InFlight \cup {k} /\ k \in InFlight /\ pins' = pins
        BY <1>1, <3>5, <4>1, InFlightSteps DEF Advances
      <4>3. QED BY <3>3, <3>5, <4>2
    <3>6. UNCHANGED readVars \/ \E published \in BOOLEAN : \E verdict : FetchDone(k, published, verdict)
      BY <2>2 DEF FetchStep, FetchOpen, FetchBody, FetchPublish, AttemptFailed
    <3>7. QED BY <3>1, <3>2, <3>4, <3>5, <3>6
  <2>3. ASSUME NEW o \in Objects, StartPrefetch(o) \/ PrefetchNext(o) PROVE Waits(q)'
    <3> DEFINE k == <<o, prefetch[o]>>
               call == Call("nextEpisode", AnyHandle, 0)
    <3>1. call \in Calls /\ call.stage # "none"
      BY ConstantTypes, CacheAssumption DEF Call, Calls, Stages, Kinds
    <3>2. /\ UNCHANGED <<pins, pc, rd>>
          /\ inflight' = inflight \/ (k \in Keys /\ Reserve(k, call))
      BY <2>3 DEF StartPrefetch, PrefetchNext, cacheVars, readVars
    <3> HIDE DEF call, k
    <3>3. CASE inflight' = inflight
      BY <1>2, <3>2, <3>3
    <3>4. CASE k \in Keys /\ Reserve(k, call)
      <4>1. InFlight \subseteq InFlight'
        BY <1>1, <3>1, <3>4, InFlightSteps DEF Reserve
      <4>2. QED BY <1>1, <3>2, <4>1, WaitKept
    <3>5. QED BY <3>2, <3>3, <3>4
  <2>4. ASSUME NEW h \in Handles, Open(h) \/ Close(h) PROVE Waits(q)'
    BY <1>2, <2>4 DEF Open, Close, cacheVars, readVars
  <2>5. ASSUME NEW r \in Readers, NEW h \in Handles, NEW rg \in Reads, StartRead(r, h, rg[1], rg[2])
        PROVE  Waits(q)'
    <3>1. InFlight' = InFlight /\ pins' = pins
      BY <2>5 DEF StartRead, cacheVars, InFlight
    <3>2. pc'[q] \in {"await", "backpressure"} => pc'[q] = pc[q] /\ rd'[q] = rd[q]
      BY <1>1, <2>5 DEF StartRead
    <3>3. QED BY <1>1, <3>1, <3>2, WaitKept
  <2>6. \A p \in Quotas : ~StartProcess(p)
    BY <1>6 DEF StartProcess
  <2>7. QED BY <1>6, <2>1, <2>2, <2>3, <2>4, <2>5, <2>6 DEF Next
<1>7. QED BY <1>3, <1>4, <1>5, <1>6

\* A reader's object changes only when it starts a read.
LEMMA ReaderObject ==
  ASSUME TypeOK, NEW q \in Readers, Next, up, ~Crash, pc'[q] # "idle",
         ~\E h \in Handles, rg \in Reads : StartRead(q, h, rg[1], rg[2])
  PROVE  pc[q] # "idle" /\ rd'[q].h = rd[q].h
<1>1. /\ pc \in [Readers -> PCs] /\ rd \in [Readers -> ReadStates]
  BY DEF TypeOK
<1>2. ASSUME NEW r \in Readers, ReaderStep(r) \/ AbandonRead(r)
      PROVE  pc[q] # "idle" /\ rd'[q].h = rd[q].h
  <2>1. CASE BeginRead(r)
    <3>1. pc[r] = "begin" /\ \E gen : rd' = [rd EXCEPT ![r].gen = gen] /\ pc' = [pc EXCEPT ![r] = "acquire"]
      BY <2>1 DEF BeginRead
    <3>2. QED BY <1>1, <3>1 DEF ReadStates
  <2>2. CASE AcquireHit(r) \/ AcquireJoin(r) \/ FinishRead(r) \/ AbandonRead(r)
    BY <1>1, <2>2 DEF AcquireHit, AcquireJoin, FinishRead, AbandonRead, Return
  <2>3. CASE AcquireMiss(r)
    BY <1>1, <2>3 DEF AcquireMiss, Return, ReadStates
  <2>4. CASE CopyChunk(r)
    <3>1. /\ pc[r] = "copy"
          /\ \/ \E done : rd' = [rd EXCEPT ![r].done = done]
             \/ rd' = [rd EXCEPT ![r] = NoRead] /\ pc' = [Signalled(pc) EXCEPT ![r] = "idle"]
          /\ \E next : pc' = [Signalled(pc) EXCEPT ![r] = next]
      BY <2>4 DEF CopyChunk
    <3>2. QED BY <1>1, <3>1 DEF Signalled, ReadStates
  <2>5. CASE ReadAhead(r)
    BY <1>1, <2>5 DEF ReadAhead, Return, ReadStates
  <2>6. QED BY <1>2, <2>2, <2>3, <2>4, <2>5, <2>1 DEF ReaderStep
<1>3. ASSUME NEW k \in Keys, FetchStep(k) PROVE pc[q] # "idle" /\ rd'[q].h = rd[q].h
  <2>1. UNCHANGED readVars \/ \E published \in BOOLEAN : \E verdict : FetchDone(k, published, verdict)
    BY <1>3 DEF FetchStep, FetchOpen, FetchBody, FetchPublish, AttemptFailed
  <2>2. CASE UNCHANGED readVars
    BY <2>2 DEF readVars
  <2>3. CASE \E published \in BOOLEAN : \E verdict : FetchDone(k, published, verdict)
    BY <2>3 DEF FetchDone, Signalled
  <2>4. QED BY <2>1, <2>2, <2>3
<1>4. ASSUME NEW r \in Readers, NEW h \in Handles, NEW rg \in Reads, StartRead(r, h, rg[1], rg[2])
      PROVE  pc[q] # "idle" /\ rd'[q].h = rd[q].h
  <2>1. r # q
    BY <1>4
  <2>2. QED BY <1>1, <1>4, <2>1 DEF StartRead
<1>5. CASE \/ \E o \in Objects : StartPrefetch(o) \/ PrefetchNext(o)
           \/ \E h \in Handles : Open(h) \/ Close(h)
  BY <1>5 DEF StartPrefetch, PrefetchNext, Open, Close, readVars
<1>6. \A p \in Quotas : ~StartProcess(p)
  BY DEF StartProcess
<1>7. QED BY <1>2, <1>3, <1>4, <1>5, <1>6 DEF Next

\* Every step keeps what the readers read and the quota.
LEMMA ReadsStep ==
  ASSUME CacheInv, QuotaChosen, BigReads, [Next]_vars
  PROVE  QuotaChosen' /\ BigReads'
<1>1. /\ TypeOK /\ pc \in [Readers -> PCs] /\ rd \in [Readers -> ReadStates]
  BY DEF CacheInv, TypeOK
<1>2. CASE UNCHANGED vars
  BY <1>2 DEF vars, readVars, QuotaChosen, BigReads, Object
<1>3. CASE Next /\ ~up
  <2>1. Down
    BY <1>3 DEF CacheInv
  <2>2. PICK p \in Quotas : StartProcess(p)
    BY <1>3, <2>1, DownOnlyStarts
  <2>3. QuotaChosen'
    BY <1>1, <1>3, <2>1, <2>2, StartEffect DEF QuotaChosen
  <2>4. QED BY <2>2, <2>3 DEF BigReads, StartProcess, readVars, Object
<1>4. CASE Crash
  BY <1>4 DEF Crash, AllIdle, QuotaChosen, BigReads
<1>5. CASE Next /\ up /\ ~Crash
  <2>1. QuotaChosen'
    BY <1>5, RunningEffect DEF QuotaChosen
  <2>2. ASSUME NEW q \in Readers, Policy = "rolling", pc'[q] # "idle"
        PROVE  Size[Object(q)'] > ChunkBytes
    <3>1. CASE \E h \in Handles, rg \in Reads : StartRead(q, h, rg[1], rg[2])
      BY <1>1, <2>2, <3>1 DEF StartRead, Object, NoRead
    <3>2. CASE ~\E h \in Handles, rg \in Reads : StartRead(q, h, rg[1], rg[2])
      <4>1. pc[q] # "idle" /\ rd'[q].h = rd[q].h
        BY <1>1, <1>5, <2>2, <3>2, ReaderObject
      <4>2. QED BY <2>2, <4>1 DEF BigReads, Object
    <3>3. QED BY <3>1, <3>2
  <2>3. QED BY <2>1, <2>2 DEF BigReads
<1>6. QED BY <1>2, <1>3, <1>4, <1>5

\* Nobody waits in vain: whoever waits for a call waits for one in flight, and whoever
\* waits for capacity has a pin or a fetch whose end wakes it.
THEOREM NobodyWaitsInVain == Spec => []NoLostWakeup
<1>1. Init => QuotaChosen /\ BigReads /\ NoLostWakeup
  BY DEF Init, QuotaChosen, BigReads, NoLostWakeup, AllIdle
<1>2. CacheInv /\ QuotaChosen /\ BigReads /\ NoLostWakeup /\ [Next]_vars
        => QuotaChosen' /\ BigReads' /\ NoLostWakeup'
  BY WaitStep, ReadsStep
<1>3. QED BY <1>1, <1>2, CacheInvariant, PTL DEF Spec

-----------------------------------------------------------------------------
(* What steps never do.                                                    *)

\* How a chunk comes to be in flight: a foreground call, or background work that leaves
\* headroom.
LEMMA StartedCalls ==
  ASSUME CacheInv, Next, NEW k \in Keys, Started(k), inflight'[k].kind # "foreground",
         Policy = "rolling"
  PROVE  current' + reserved' <= quota - ChunkBytes
<1>1. /\ TypeOK /\ inflight \in [Keys -> Calls] /\ rd \in [Readers -> ReadStates]
      /\ current \in Int /\ reserved \in Int /\ quota \in Nat /\ ChunkBytes \in Nat
  BY CacheAssumption DEF CacheInv, TypeOK
<1>2. ASSUME UNCHANGED inflight PROVE FALSE
  BY <1>2 DEF Started
<1>3. ASSUME NEW j \in Keys, NEW kind \in Kinds \ {"foreground"}, NEW protected,
             NEW v \in tryReserve(j, kind, protected), v.verdict = "ok", Evict(v.gone),
             NEW call, Reserve(j, call)
      PROVE  current' + reserved' <= quota - ChunkBytes
  <2>1. current - Bytes(v.gone) + reserved + Length(j) <= quota - Headroom(kind)
    BY <1>1, <1>3, TryReserveSound
  <2>2. Headroom(kind) = ChunkBytes
    BY DEF Headroom
  <2>3. v.gone \in SUBSET Keys
    BY <1>1, TryReserveSound DEF Unpinned, TypeOK
  <2>4. Bytes(v.gone) \in Nat /\ Length(j) \in Nat
    BY <2>3, BytesFinite, LengthType, CacheAssumption
  <2>5. current' = current - Bytes(v.gone) /\ reserved' = reserved + Length(j)
    BY <1>3 DEF Evict, Reserve
  <2>6. QED BY <1>1, <2>1, <2>2, <2>4, <2>5
<1>4. ASSUME NEW r \in Readers, ReaderStep(r) \/ AbandonRead(r)
      PROVE  current' + reserved' <= quota - ChunkBytes
  <2>1. CASE AcquireMiss(r)
    <3>1. \/ UNCHANGED inflight
          \/ Reserve(CurrentKey(r), Call("foreground", AnyHandle, 0))
      BY <2>1 DEF AcquireMiss
    <3>2. CurrentKey(r) \in Keys
      BY <1>1, <2>1, ReadPosition DEF AcquireMiss, ReadInBounds, TypeOK
    <3>3. QED BY <1>1, <1>2, <3>1, <3>2 DEF Reserve, Call, Started
  <2>2. CASE ReadAhead(r)
    <3> DEFINE j == <<Object(r), NextIndex(r) + rd[r].ahead>>
               protected == {<<Object(r), NextIndex(r) - 1>>}
               call == Call("readAhead", rd[r].h, rd[r].gen)
    <3>1. \/ UNCHANGED inflight
          \/ /\ j \in Keys
             /\ \E v \in tryReserve(j, "readAhead", protected) :
                  v.verdict = "ok" /\ Evict(v.gone) /\ Reserve(j, call)
      BY <2>2 DEF ReadAhead, cacheVars
    <3>2. "readAhead" \in Kinds \ {"foreground"}
      BY DEF Kinds
    <3> HIDE DEF j, protected, call
    <3>3. QED BY <1>2, <1>3, <3>1, <3>2
  <2>3. CASE \/ BeginRead(r) \/ AcquireHit(r) \/ AcquireJoin(r) \/ CopyChunk(r)
             \/ FinishRead(r) \/ AbandonRead(r)
    BY <1>2, <2>3 DEF BeginRead, AcquireHit, AcquireJoin, CopyChunk, FinishRead, AbandonRead, cacheVars
  <2>4. QED BY <1>4, <2>1, <2>2, <2>3 DEF ReaderStep
<1>5. ASSUME NEW j \in Keys, FetchStep(j) PROVE FALSE
  <2>1. Advances(j) \/ Finishes(j)
    BY <1>1, <1>5, FetchEffect DEF CacheInv
  <2>2. CASE Advances(j)
    BY <1>1, <2>2 DEF Advances, Started, InFlight
  <2>3. CASE Finishes(j)
    BY <1>1, <2>3 DEF Finishes, FetchDone, Started, NoCall
  <2>4. QED BY <2>1, <2>2, <2>3
<1>6. ASSUME NEW o \in Objects, StartPrefetch(o) \/ PrefetchNext(o)
      PROVE  current' + reserved' <= quota - ChunkBytes
  <2> DEFINE j == <<o, prefetch[o]>>
             call == Call("nextEpisode", AnyHandle, 0)
  <2>1. \/ UNCHANGED inflight
        \/ /\ j \in Keys
           /\ \E v \in tryReserve(j, "nextEpisode", {}) :
                v.verdict = "ok" /\ Evict(v.gone) /\ Reserve(j, call)
    BY <1>6 DEF StartPrefetch, PrefetchNext, cacheVars
  <2>2. "nextEpisode" \in Kinds \ {"foreground"}
    BY DEF Kinds
  <2> HIDE DEF j, call
  <2>3. QED BY <1>2, <1>3, <2>1, <2>2
<1>7. CASE Crash
  BY <1>7 DEF Crash, Started, NoCalls, NoCall
<1>8. CASE \/ \E h \in Handles : Open(h) \/ Close(h)
           \/ \E r \in Readers, h \in Handles, rg \in Reads : StartRead(r, h, rg[1], rg[2])
           \/ \E q \in Quotas : StartProcess(q)
  BY <1>2, <1>8 DEF Open, Close, StartRead, StartProcess, cacheVars
<1>9. QED BY <1>4, <1>5, <1>6, <1>7, <1>8 DEF Next

\* Rolling mode: read-ahead and next-episode prefetch never take the last chunk of the
\* quota, which a foreground miss needs (tryReserveBackgroundLocked).
THEOREM HeadroomKept == Spec => BackgroundKeepsHeadroom
<1>1. CacheInv /\ [Next]_vars =>
        [\A k \in Keys : Started(k) /\ inflight'[k].kind # "foreground" /\ Policy = "rolling"
           => current' + reserved' <= quota - ChunkBytes]_vars
  BY StartedCalls
<1>2. QED BY <1>1, CacheInvariant, PTL DEF Spec, BackgroundKeepsHeadroom

\* The step of one prefetch goroutine spares the chunks of other objects.
LEMMA PrefetchSpares ==
  ASSUME CacheInv, Next, NEW o \in Objects, up', prefetch'[o] # prefetch[o],
         NEW k \in chunks, k[1] # o
  PROVE  k \in chunks'
<1>1. TypeOK /\ prefetch \in [Objects -> {Quiet} \cup 0 .. PrefetchChunks]
  BY DEF CacheInv, TypeOK
<1>2. PICK p \in Objects : StartPrefetch(p) \/ PrefetchNext(p)
  BY DEF Next, ReaderStep, BeginRead, AcquireHit, AcquireJoin, AcquireMiss, CopyChunk, FinishRead,
         ReadAhead, AbandonRead, StartRead, FetchStep, FetchOpen, FetchBody, FetchPublish, Open,
         Close, Crash, StartProcess
<1>3. p = o
  BY <1>1, <1>2 DEF StartPrefetch, PrefetchNext
<1>4. CASE UNCHANGED chunks
  BY <1>4
<1>5. CASE /\ <<o, prefetch[o]>> \in Keys
           /\ \E v \in tryReserve(<<o, prefetch[o]>>, "nextEpisode", {}) : Evict(v.gone)
  <2>1. PICK v \in tryReserve(<<o, prefetch[o]>>, "nextEpisode", {}) : Evict(v.gone)
    BY <1>5
  <2>2. v.gone \in SUBSET OfObject(chunks, o)
    <3>1. <<o, prefetch[o]>>[1] = o
      OBVIOUS
    <3>2. QED BY <1>1, <1>5, <3>1, TryReserveSound DEF Kinds
  <2>3. QED BY <2>1, <2>2 DEF Evict, OfObject
<1>6. QED BY <1>2, <1>3, <1>4, <1>5 DEF StartPrefetch, PrefetchNext, cacheVars

\* Next-episode prefetch of one object never evicts a chunk of another.
THEOREM OthersSpared == Spec => PrefetchSparesOthers
<1>1. CacheInv /\ [Next]_vars =>
        [\A o \in Objects : up' /\ prefetch'[o] # prefetch[o]
           => \A k \in chunks : k[1] # o => k \in chunks']_vars
  BY PrefetchSpares
<1>2. QED BY <1>1, CacheInvariant, PTL DEF Spec, PrefetchSparesOthers

\* A set of naturals that is not empty has a least member.
LEMMA LeastNatural ==
  ASSUME NEW T \in SUBSET Nat, T # {}
  PROVE  \E m \in T : \A n \in T : m <= n
<1> DEFINE Less == {p \in Nat \X Nat : p[1] < p[2]}
<1>1. Less = OpToRel(<, Nat)
  BY DEF OpToRel
<1>2. IsWellFoundedOn(Less, Nat)
  BY <1>1, NatLessThanWellFounded
<1>3. PICK m \in T : \A n \in T : <<n, m>> \notin Less
  BY <1>2, WFMin
<1>4. \A n \in T : ~ (n < m)
  BY <1>3
<1>5. QED BY <1>4

\* A recovery that has nothing to trim removes nothing.
LEMMA NothingTrimmed ==
  ASSUME NEW S \in SUBSET Keys, NEW age \in AgeOrders(S), NEW v \in EvictUntil(age, S, 0)
  PROVE  v.gone = {} /\ v.verdict = "ok"
<1>1. \A E \in Prefixes(age, S) : E \in SUBSET Keys
  BY DEF Prefixes
<1>2. \A E \in Prefixes(age, S) : Bytes(E) >= 0
  BY <1>1, BytesFinite
<1>3. S \in Prefixes(age, S)
  BY DEF Prefixes
<1>4. {} \in Prefixes(age, S)
  <2>1. CASE S = {}
    BY <1>3, <2>1
  <2>2. CASE S # {}
    <3>1. PICK f \in [S -> 1 .. Cardinality(S)] : age = {p \in S \X S : f[p[1]] < f[p[2]]}
      BY DEF AgeOrders
    <3> DEFINE T == {f[x] : x \in S}
    <3>2. T \in SUBSET Nat /\ T # {}
      BY <2>2, <3>1
    <3>3. PICK m \in T : \A n \in T : m <= n
      BY <3>2, LeastNatural
    <3>4. PICK x \in S : f[x] = m
      OBVIOUS
    <3>5. \A y \in S : ~(f[y] < f[x])
      BY <3>2, <3>3, <3>4
    <3>6. {y \in S : <<y, x>> \in age} = {}
      BY <3>1, <3>5
    <3>7. QED BY <3>4, <3>6 DEF Prefixes
  <2>3. QED BY <2>1, <2>2
<1>5. CASE \E E \in Prefixes(age, S) :
             /\ \A F \in Prefixes(age, S) : Bytes(F) >= 0 => E \subseteq F
             /\ v = [gone |-> E, verdict |-> "ok"]
  BY <1>2, <1>4, <1>5
<1>6. CASE ~(Bytes(S) >= 0)
  BY <1>2, <1>3, <1>6
<1>7. CASE \E E \in Prefixes(age, S) : ~(Bytes(E) >= 0)
  BY <1>2, <1>7
<1>8. QED BY <1>5, <1>6, <1>7 DEF EvictUntil

\* In persistent mode no step removes the file of a chunk that is not being fetched.
LEMMA PersistentStep ==
  ASSUME CacheInv, Next, Policy = "persistent"
  PROVE  files \ InFlight \subseteq files'
<1>1. TypeOK /\ files \in SUBSET Keys
  BY DEF CacheInv, TypeOK
<1>2. \A k, kind, protected : \A v \in tryReserve(k, kind, protected) : v.gone = {}
  BY DEF tryReserve
<1>3. ASSUME NEW r \in Readers, ReaderStep(r) \/ AbandonRead(r) PROVE files \subseteq files'
  <2>1. CASE AcquireMiss(r)
    <3>1. \E v \in tryReserve(CurrentKey(r), "foreground", {}) : Evict(v.gone)
      BY <2>1 DEF AcquireMiss
    <3>2. QED BY <1>2, <3>1 DEF Evict
  <2>2. CASE ReadAhead(r)
    <3>1. \/ UNCHANGED files
          \/ \E k, protected : \E v \in tryReserve(k, "readAhead", protected) : Evict(v.gone)
      BY <2>2 DEF ReadAhead
    <3>2. QED BY <1>2, <3>1 DEF Evict
  <2>3. CASE \/ BeginRead(r) \/ AcquireHit(r) \/ AcquireJoin(r) \/ CopyChunk(r)
             \/ FinishRead(r) \/ AbandonRead(r)
    BY <2>3 DEF BeginRead, AcquireHit, AcquireJoin, CopyChunk, FinishRead, AbandonRead, diskVars
  <2>4. QED BY <1>3, <2>1, <2>2, <2>3 DEF ReaderStep
<1>4. ASSUME NEW k \in Keys, FetchStep(k) PROVE files \ InFlight \subseteq files'
  BY <1>1, <1>4, FetchEffect DEF CacheInv, Advances, Finishes
<1>5. ASSUME NEW o \in Objects, StartPrefetch(o) \/ PrefetchNext(o) PROVE files \subseteq files'
  <2>1. \/ UNCHANGED files
        \/ \E v \in tryReserve(<<o, prefetch[o]>>, "nextEpisode", {}) : Evict(v.gone)
    BY <1>5 DEF StartPrefetch, PrefetchNext, diskVars
  <2>2. QED BY <1>2, <2>1 DEF Evict
<1>6. ASSUME NEW h \in Handles, Open(h) \/ Close(h) PROVE files \subseteq files'
  BY <1>6 DEF Open, Close, Evict, diskVars
<1>7. ASSUME Crash PROVE files \ InFlight \subseteq files'
  BY <1>7 DEF Crash, InFlight
<1>8. ASSUME NEW q \in Quotas, StartProcess(q) PROVE files \subseteq files'
  <2>1. PICK age \in AgeOrders(files) : \E v \in EvictUntil(age, files, 0) : files' = files \ v.gone
    BY <1>8 DEF StartProcess, RecoveryExcess
  <2>2. QED BY <1>1, <2>1, NothingTrimmed
<1>9. ASSUME NEW r \in Readers, NEW h \in Handles, NEW rg \in Reads, StartRead(r, h, rg[1], rg[2])
      PROVE  files \subseteq files'
  BY <1>9 DEF StartRead, diskVars
<1>10. QED BY <1>3, <1>4, <1>5, <1>6, <1>7, <1>8, <1>9 DEF Next

\* Persistent mode keeps every chunk file that is not being written, through crashes and
\* restarts with any quota.
THEOREM PersistentKeeps == Spec => PersistentRetains
<1>1. CacheInv /\ [Next]_vars => [Policy = "persistent" => files \ InFlight \subseteq files']_vars
  BY PersistentStep
<1>2. QED BY <1>1, CacheInvariant, PTL DEF Spec, PersistentRetains
=============================================================================
