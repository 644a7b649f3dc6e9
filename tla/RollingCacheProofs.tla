------------------------- MODULE RollingCacheProofs -------------------------
(***************************************************************************)
(* Proofs about RollingCache for every value of its constants: types, the  *)
(* byte ledger and the quota, pins, and the absence of lost wake-ups.      *)
(***************************************************************************)
EXTENDS RollingCache, FiniteSetTheorems, TLAPS

-----------------------------------------------------------------------------
(* Arithmetic and the bytes of a set of chunks.                            *)

\* Division by a positive number: quotient, remainder and their bounds.
LEMMA DivMod ==
  ASSUME NEW a \in Nat, NEW b \in Nat \ {0}
  PROVE  /\ a \div b \in Nat
         /\ a % b \in 0 .. (b - 1)
         /\ a = (a \div b) * b + (a % b)
         /\ a \div b <= a
<1>1. a \div b \in Int /\ a % b \in 0 .. (b - 1) /\ a = b * (a \div b) + (a % b)
  OBVIOUS
<1>2. a \div b >= 0
  <2>1. SUFFICES ASSUME a \div b <= -1 PROVE FALSE
    BY <1>1
  <2>2. b * (a \div b) <= b * (-1)
    BY <1>1, <2>1
  <2>3. QED BY <1>1, <2>2
<1>3. a \div b <= a
  <2>1. a \div b <= b * (a \div b)
    BY <1>1, <1>2
  <2>2. QED BY <1>1, <2>1
<1>4. QED BY <1>1, <1>2, <1>3

\* Every chunk has at least one byte and at most ChunkBytes.
LEMMA LengthType ==
  ASSUME NEW k \in Keys
  PROVE  Length(k) \in 1 .. ChunkBytes
<1>1. PICK o \in Objects : k \in {o} \X {i \in 0 .. Size[o] : Start(i) < Size[o]}
  BY DEF Keys
<1>2. k[1] = o /\ k[2] \in Nat /\ Start(k[2]) < Size[o] /\ Size[o] \in Nat
  BY <1>1, CacheAssumption
<1>3. Start(k[2]) \in Nat
  BY <1>2, CacheAssumption DEF Start
<1>4. QED BY <1>2, <1>3, CacheAssumption DEF Length, chunkLength

\* There are finitely many chunks.
LEMMA KeysFinite == IsFiniteSet(Keys)
<1> DEFINE Of(o) == {o} \X {i \in 0 .. Size[o] : Start(i) < Size[o]}
           f == [o \in Objects |-> Of(o)]
           T == {Of(o) : o \in Objects}
<1>1. f \in Surjection(Objects, T)
  BY DEF Surjection
<1>2. IsFiniteSet(T)
  BY <1>1, FS_Surjection, CacheAssumption
<1>3. ASSUME NEW o \in Objects PROVE IsFiniteSet(Of(o))
  <2>1. Size[o] \in Nat
    BY CacheAssumption
  <2>2. IsFiniteSet(0 .. Size[o])
    BY <2>1, FS_Interval
  <2>3. IsFiniteSet({i \in 0 .. Size[o] : Start(i) < Size[o]})
    BY <2>2, FS_Subset
  <2>4. QED BY <2>3, FS_Singleton, FS_Product
<1>4. IsFiniteSet(UNION T)
  BY <1>2, <1>3, FS_UNION
<1>5. QED BY <1>4 DEF Keys

\* The bytes of a set of chunks are finitely many.
LEMMA BytesFinite ==
  ASSUME NEW S \in SUBSET Keys
  PROVE  /\ IsFiniteSet(BytesOf(S))
         /\ Bytes(S) \in Nat
<1>1. IsFiniteSet(S)
  BY KeysFinite, FS_Subset
<1>2. IsFiniteSet(0 .. ChunkBytes - 1)
  BY CacheAssumption, FS_Interval
<1>3. IsFiniteSet(S \X (0 .. ChunkBytes - 1))
  BY <1>1, <1>2, FS_Product
<1>4. IsFiniteSet(BytesOf(S))
  BY <1>3, FS_Subset DEF BytesOf
<1>5. QED BY <1>4, FS_CardinalityType DEF Bytes

\* Bytes is additive over disjoint sets of chunks.
LEMMA BytesUnion ==
  ASSUME NEW S \in SUBSET Keys, NEW T \in SUBSET Keys, S \cap T = {}
  PROVE  Bytes(S \cup T) = Bytes(S) + Bytes(T)
<1>1. BytesOf(S \cup T) = BytesOf(S) \cup BytesOf(T)
  BY DEF BytesOf
<1>2. BytesOf(S) \cap BytesOf(T) = {}
  BY DEF BytesOf
<1>3. IsFiniteSet(BytesOf(S)) /\ IsFiniteSet(BytesOf(T)) /\ Bytes(S) \in Nat /\ Bytes(T) \in Nat
  BY BytesFinite
<1>4. Cardinality(BytesOf(S) \cup BytesOf(T))
        = Cardinality(BytesOf(S)) + Cardinality(BytesOf(T)) - Cardinality(BytesOf(S) \cap BytesOf(T))
  BY <1>3, FS_Union
<1>5. Cardinality(BytesOf(S) \cap BytesOf(T)) = 0
  BY <1>2, FS_EmptySet
<1>6. /\ Bytes(S \cup T) = Cardinality(BytesOf(S) \cup BytesOf(T))
      /\ Bytes(S) = Cardinality(BytesOf(S))
      /\ Bytes(T) = Cardinality(BytesOf(T))
  BY <1>1, Zenon DEF Bytes
<1>7. QED BY <1>3, <1>4, <1>5, <1>6

\* Removing a subset subtracts its bytes.
LEMMA BytesMinus ==
  ASSUME NEW S \in SUBSET Keys, NEW T \in SUBSET S
  PROVE  /\ Bytes(S \ T) = Bytes(S) - Bytes(T)
         /\ Bytes(T) <= Bytes(S)
<1>1. (S \ T) \cup T = S /\ (S \ T) \cap T = {} /\ S \ T \in SUBSET Keys /\ T \in SUBSET Keys
  OBVIOUS
<1>2. Bytes(S) = Bytes(S \ T) + Bytes(T)
  BY <1>1, BytesUnion
<1>3. Bytes(S) \in Nat /\ Bytes(T) \in Nat /\ Bytes(S \ T) \in Nat
  BY <1>1, BytesFinite
<1>4. QED BY <1>2, <1>3

\* One chunk has as many bytes as its length; no chunk, none.
LEMMA BytesOne ==
  /\ Bytes({}) = 0
  /\ \A k \in Keys : Bytes({k}) = Length(k)
<1>1. BytesOf({}) = {}
  BY DEF BytesOf
<1>2. Bytes({}) = 0
  BY <1>1, FS_EmptySet DEF Bytes
<1>3. ASSUME NEW k \in Keys PROVE Bytes({k}) = Length(k)
  <2>1. Length(k) \in 1 .. ChunkBytes
    BY LengthType
  <2>2. BytesOf({k}) = {k} \X (0 .. Length(k) - 1)
    BY <2>1, CacheAssumption DEF BytesOf
  <2>3. IsFiniteSet(0 .. Length(k) - 1) /\ Cardinality(0 .. Length(k) - 1) = Length(k)
    <3> DEFINE n == Length(k) - 1
    <3>1. n \in Int /\ ~(0 > n) /\ n - 0 + 1 = Length(k)
      BY <2>1, CacheAssumption
    <3> HIDE DEF n
    <3>2. IsFiniteSet(0 .. n) /\ Cardinality(0 .. n) = n - 0 + 1
      BY <3>1, FS_Interval
    <3>3. QED BY <3>1, <3>2 DEF n
  <2>4. IsFiniteSet({k}) /\ Cardinality({k}) = 1
    BY FS_Singleton
  <2>5. Cardinality({k} \X (0 .. Length(k) - 1)) = Cardinality({k}) * Cardinality(0 .. Length(k) - 1)
    BY <2>3, <2>4, FS_Product, Zenon
  <2>6. Bytes({k}) = Cardinality({k} \X (0 .. Length(k) - 1))
    BY <2>2, Zenon DEF Bytes
  <2>7. Bytes({k}) = 1 * Length(k)
    BY <2>3, <2>4, <2>5, <2>6, Zenon
  <2>8. QED BY <2>1, <2>7, CacheAssumption
<1>4. QED BY <1>2, <1>3

-----------------------------------------------------------------------------
(* Eviction.                                                               *)

\* What an eviction loop can end with.
LEMMA EvictUntilSound ==
  ASSUME NEW age, NEW C, NEW x, NEW v \in EvictUntil(age, C, x)
  PROVE  /\ v.gone \in SUBSET C
         /\ v.verdict \in {"ok", "full", "error"}
         /\ v.verdict = "ok" => Bytes(v.gone) >= x
         /\ v.verdict = "full" => v.gone = C /\ ~(Bytes(C) >= x)
<1>1. \A E \in Prefixes(age, C) : E \in SUBSET C
  BY DEF Prefixes
<1>2. CASE \E E \in Prefixes(age, C) : Bytes(E) >= x /\ v = [gone |-> E, verdict |-> "ok"]
  BY <1>1, <1>2
<1>3. CASE v = [gone |-> C, verdict |-> "full"] /\ ~(Bytes(C) >= x)
  BY <1>3
<1>4. CASE \E E \in Prefixes(age, C) : v = [gone |-> E, verdict |-> "error"]
  BY <1>1, <1>4
<1>5. QED BY <1>2, <1>3, <1>4 DEF EvictUntil

\* Usage of an object is a number.
LEMMA UsageType ==
  ASSUME TypeOK, NEW o \in Objects
  PROVE  objectUsage(o) \in Nat
<1>1. OfObject(chunks, o) \in SUBSET Keys /\ OfObject(InFlight, o) \in SUBSET Keys
  BY DEF TypeOK, OfObject, InFlight
<1>2. QED BY <1>1, BytesFinite DEF objectUsage

\* A reservation evicts only unpinned chunks; a successful one leaves room for the chunk
\* in the pool and in its object; next-episode prefetch evicts only its own object.
LEMMA TryReserveSound ==
  ASSUME TypeOK, NEW k \in Keys, NEW kind \in Kinds, NEW protected,
         NEW v \in tryReserve(k, kind, protected)
  PROVE  /\ v.gone \in SUBSET Unpinned
         /\ v.verdict \in {"ok", "full", "error"}
         /\ Policy = "persistent" => v.gone = {}
         /\ v.verdict = "ok" /\ Policy = "rolling" =>
              /\ current - Bytes(v.gone) + reserved + Length(k) <= quota - Headroom(kind)
              /\ Bytes(OfObject(v.gone, k[1])) >= objectUsage(k[1]) + Length(k) - (Size[k[1]] - 1)
         /\ kind = "nextEpisode" => v.gone \in SUBSET OfObject(chunks, k[1])
<1>1. CASE Policy = "persistent"
  BY <1>1 DEF tryReserve
<1>2. CASE Policy # "persistent"
  <2> DEFINE o == k[1]
             Global(own) == EvictUntil(older, GlobalVictims(kind, own.gone, protected),
                              current - Bytes(own.gone) + reserved + Length(k) - (quota - Headroom(kind)))
  <2>1. o \in Objects /\ Size[o] \in Nat /\ Length(k) \in Nat /\ objectUsage(o) \in Nat
    <3>1. o \in Objects
      BY DEF Keys
    <3>2. QED BY <3>1, LengthType, UsageType, CacheAssumption
  <2>2. PICK own \in ensureIncompleteObject(o, Length(k), protected) :
          IF own.verdict # "ok" THEN v = own
          ELSE \E g \in Global(own) : v = [gone |-> own.gone \cup g.gone, verdict |-> g.verdict]
    <3>1. PICK own \in ensureIncompleteObject(o, Length(k), protected) :
            v \in IF own.verdict # "ok" THEN {own}
                  ELSE {[gone |-> own.gone \cup g.gone, verdict |-> g.verdict] : g \in Global(own)}
      BY <1>2 DEF tryReserve
    <3>2. CASE own.verdict # "ok"
      BY <3>1, <3>2
    <3>3. CASE own.verdict = "ok"
      BY <3>1, <3>3
    <3>4. QED BY <3>2, <3>3
  <2>3. /\ own.gone \in SUBSET OfObject(Unpinned, o)
        /\ own.verdict \in {"ok", "full", "error"}
        /\ own.verdict = "ok" => Bytes(own.gone) >= objectUsage(o) + Length(k) - (Size[o] - 1)
    BY EvictUntilSound DEF ensureIncompleteObject
  <2>4. own.gone \in SUBSET Unpinned /\ own.gone \in SUBSET OfObject(chunks, o) /\ own.gone \in SUBSET Keys
    BY <2>3 DEF OfObject, Unpinned, TypeOK
  <2>5. CASE own.verdict # "ok"
    BY <1>2, <2>2, <2>3, <2>4, <2>5
  <2>6. CASE own.verdict = "ok"
    <3>1. PICK g \in Global(own) : v = [gone |-> own.gone \cup g.gone, verdict |-> g.verdict]
      BY <2>2, <2>6
    <3>2. /\ g.gone \in SUBSET GlobalVictims(kind, own.gone, protected)
          /\ g.verdict \in {"ok", "full", "error"}
          /\ g.verdict = "ok" => Bytes(g.gone) >= current - Bytes(own.gone) + reserved + Length(k)
                                                    - (quota - Headroom(kind))
      BY EvictUntilSound
    <3>3. /\ g.gone \in SUBSET Unpinned
          /\ g.gone \cap own.gone = {}
          /\ kind = "nextEpisode" => g.gone = {}
      BY <3>2 DEF GlobalVictims
    <3>4. g.gone \in SUBSET Keys
      BY <3>3 DEF Unpinned, TypeOK
    <3>5. Bytes(own.gone \cup g.gone) = Bytes(own.gone) + Bytes(g.gone)
      BY <2>4, <3>3, <3>4, BytesUnion
    <3>6. Bytes(own.gone) \in Nat /\ Bytes(g.gone) \in Nat
      BY <2>4, <3>4, BytesFinite
    <3>7. current \in Int /\ reserved \in Int /\ quota \in Nat /\ Headroom(kind) \in Nat
      BY CacheAssumption DEF TypeOK, Headroom
    <3>8. v.gone = own.gone \cup g.gone /\ v.verdict = g.verdict
      BY <3>1
    <3>9. own.gone \in SUBSET OfObject(v.gone, o) /\ OfObject(v.gone, o) \in SUBSET Keys
      BY <2>3, <2>4, <3>4, <3>8 DEF OfObject
    <3>10. Bytes(own.gone) <= Bytes(OfObject(v.gone, o)) /\ Bytes(OfObject(v.gone, o)) \in Nat
      BY <3>9, BytesMinus, BytesFinite
    <3>11. v.verdict = "ok" => current - Bytes(v.gone) + reserved + Length(k) <= quota - Headroom(kind)
      BY <2>1, <3>2, <3>5, <3>6, <3>7, <3>8
    <3>12. Bytes(OfObject(v.gone, o)) >= objectUsage(o) + Length(k) - (Size[o] - 1)
      BY <2>1, <2>3, <2>6, <3>6, <3>10
    <3>13. QED BY <2>4, <3>2, <3>3, <3>8, <3>11, <3>12, <1>2
  <2>7. QED BY <2>5, <2>6
<1>3. QED BY <1>1, <1>2

-----------------------------------------------------------------------------
(* Positions in an object.                                                 *)

\* A byte position inside an object lies in a chunk of the object, before its end.
LEMMA PositionInChunk ==
  ASSUME NEW o \in Objects, NEW p \in Nat, p < Size[o]
  PROVE  /\ <<o, p \div ChunkBytes>> \in Keys
         /\ p % ChunkBytes \in Nat
         /\ p % ChunkBytes < Length(<<o, p \div ChunkBytes>>)
<1> DEFINE i == p \div ChunkBytes
           m == p % ChunkBytes
           s == i * ChunkBytes
<1>1. ChunkBytes \in Nat \ {0} /\ Size[o] \in Nat
  BY CacheAssumption
<1>2. i \in Nat /\ m \in 0 .. (ChunkBytes - 1) /\ p = s + m /\ i <= p
  BY <1>1, DivMod
<1>3. s \in Nat
  BY <1>1, <1>2
<1> HIDE DEF i, m, s
<1>4. Start(i) = s
  BY DEF Start, s
<1>5. i \in 0 .. Size[o] /\ Start(i) < Size[o]
  BY <1>1, <1>2, <1>3, <1>4
<1>6. <<o, i>> \in Keys
  BY <1>5 DEF Keys
<1>7. Length(<<o, i>>) = IF Size[o] - s < ChunkBytes THEN Size[o] - s ELSE ChunkBytes
  BY <1>4 DEF Length, chunkLength
<1>8. m < Length(<<o, i>>)
  BY <1>1, <1>2, <1>3, <1>7
<1>9. QED BY <1>1, <1>2, <1>6, <1>8 DEF i, m

\* The chunk that a read is at exists, and the read copies at least one byte of it and
\* no more than it still wants.
LEMMA ReadPosition ==
  ASSUME TypeOK, NEW r \in Readers, rd[r].done < rd[r].want
  PROVE  /\ Object(r) \in Objects
         /\ CurrentKey(r) \in Keys
         /\ copyLength(r) \in 1 .. (rd[r].want - rd[r].done)
<1> DEFINE p == rd[r].off + rd[r].done
<1>1. rd[r].h \in Handles /\ rd[r].off \in Nat /\ rd[r].want \in Nat /\ rd[r].done \in Nat
  BY DEF TypeOK, ReadStates
<1>2. Object(r) \in Objects /\ Size[Object(r)] \in Nat
  BY <1>1, CacheAssumption DEF Object
<1>3. p \in Nat /\ p < Size[Object(r)]
  BY <1>1, <1>2 DEF TypeOK, ReadInBounds
<1>4. CurrentKey(r) = <<Object(r), p \div ChunkBytes>>
  BY DEF CurrentKey
<1>5. /\ CurrentKey(r) \in Keys /\ p % ChunkBytes \in Nat /\ p % ChunkBytes < Length(CurrentKey(r))
  BY <1>2, <1>3, <1>4, PositionInChunk
<1>6. Length(CurrentKey(r)) \in Nat
  BY <1>5, LengthType, CacheAssumption
<1> DEFINE rest == Length(CurrentKey(r)) - (p % ChunkBytes)
           left == rd[r].want - rd[r].done
<1>7. rest \in Nat /\ rest > 0 /\ left \in Nat /\ left > 0
  BY <1>1, <1>5, <1>6
<1>8. copyLength(r) = IF rest > left THEN left ELSE rest
  BY DEF copyLength
<1>9. QED BY <1>2, <1>5, <1>7, <1>8

-----------------------------------------------------------------------------
(* Types.                                                                  *)

\* The fixed values have their types.
LEMMA ConstantTypes ==
  /\ AnyHandle \in Handles
  /\ NoCall \in Calls
  /\ NewHandle \in HandleStates
  /\ NoRead \in ReadStates
  /\ ObjectOf[AnyHandle] \in Objects
  /\ Size[ObjectOf[AnyHandle]] \in Nat
<1>1. AnyHandle \in Handles
  BY CacheAssumption DEF AnyHandle
<1>2. NoCall \in Calls
  BY <1>1, CacheAssumption DEF NoCall, Calls, Stages, Kinds
<1>3. NewHandle \in HandleStates
  BY CacheAssumption DEF NewHandle, HandleStates
<1>4. NoRead \in ReadStates
  BY <1>1, CacheAssumption DEF NoRead, ReadStates
<1>5. QED BY <1>1, <1>2, <1>3, <1>4, CacheAssumption

\* Nothing is running.
Down ==
  /\ chunks = {} /\ older = {} /\ pins = NoPins /\ inflight = NoCalls
  /\ current = 0 /\ reserved = 0 /\ quota = 0
  /\ handle = NoHandles /\ pc = AllIdle /\ rd = NoReads /\ prefetch = NoPrefetch

\* A process that is not running has the types.
LEMMA DownType ==
  ASSUME Down, up \in BOOLEAN, files \in SUBSET Keys, stray \in SUBSET Keys
  PROVE  TypeOK
<1>1. /\ pins \in [Keys -> Nat] /\ inflight \in [Keys -> Calls]
      /\ handle \in [Handles -> HandleStates] /\ pc \in [Readers -> PCs]
      /\ rd \in [Readers -> ReadStates] /\ prefetch \in [Objects -> {Quiet} \cup 0 .. PrefetchChunks]
  BY ConstantTypes DEF Down, NoPins, NoCalls, NoHandles, AllIdle, NoReads, NoPrefetch, PCs
<1>2. ASSUME NEW r \in Readers PROVE ReadInBounds(r)
  BY ConstantTypes DEF Down, ReadInBounds, AllIdle, NoReads, NoRead, Object
<1>3. QED BY <1>1, <1>2 DEF TypeOK, Down

\* Every reader that copies a chunk holds a pin on it.
PinsHeld == \A r \in Readers : pc[r] = "copy" => pins[CurrentKey(r)] > 0

\* The types of the variables that eviction changes.
IndexType ==
  /\ chunks \in SUBSET Keys
  /\ older \in SUBSET (Keys \X Keys)
  /\ current \in Int
  /\ files \in SUBSET Keys

\* The types of the variables that belong to readers.
ReaderType ==
  /\ pc \in [Readers -> PCs]
  /\ rd \in [Readers -> ReadStates]
  /\ \A r \in Readers : ReadInBounds(r)

\* The types of the remaining variables.
OtherType ==
  /\ up \in BOOLEAN
  /\ quota \in Nat
  /\ pins \in [Keys -> Nat]
  /\ inflight \in [Keys -> Calls]
  /\ reserved \in Int
  /\ stray \in SUBSET Keys
  /\ handle \in [Handles -> HandleStates]
  /\ prefetch \in [Objects -> {Quiet} \cup 0 .. PrefetchChunks]

\* The three parts make up TypeOK, before a step and after it.
LEMMA TypeParts ==
  /\ TypeOK <=> IndexType /\ ReaderType /\ OtherType
  /\ TypeOK' <=> IndexType' /\ ReaderType' /\ OtherType'
BY DEF TypeOK, IndexType, ReaderType, OtherType

\* Eviction preserves the types.
LEMMA EvictType ==
  ASSUME IndexType, NEW E \in SUBSET Keys, Evict(E)
  PROVE  IndexType'
<1>1. Bytes(E) \in Nat
  BY BytesFinite
<1>2. QED BY <1>1 DEF IndexType, Evict

\* Reserving a chunk preserves the types.
LEMMA ReserveType ==
  ASSUME OtherType, NEW k \in Keys, NEW kind \in Kinds, NEW h \in Handles,
         NEW g \in 0 .. MaxGeneration, Reserve(k, Call(kind, h, g))
  PROVE  inflight' \in [Keys -> Calls] /\ reserved' \in Int
<1>1. Call(kind, h, g) \in Calls
  BY CacheAssumption DEF Call, Calls, Stages
<1>2. Length(k) \in Int
  BY LengthType, CacheAssumption
<1>3. QED BY <1>1, <1>2 DEF OtherType, Reserve

\* A reader that returns from ReadAt keeps the types.
LEMMA ReturnType ==
  ASSUME ReaderType, NEW r \in Readers, Return(r)
  PROVE  ReaderType'
<1>1. pc' \in [Readers -> PCs] /\ rd' \in [Readers -> ReadStates]
  BY ConstantTypes DEF ReaderType, Return, PCs
<1>2. ASSUME NEW q \in Readers PROVE ReadInBounds(q)'
  <2>1. CASE q = r
    BY <2>1, ConstantTypes DEF Return, ReaderType, ReadInBounds, Object, NoRead
  <2>2. CASE q # r
    BY <2>2 DEF Return, ReaderType, ReadInBounds, Object
  <2>3. QED BY <2>1, <2>2
<1>3. QED BY <1>1, <1>2 DEF ReaderType

\* Ending a fetch preserves the types.
LEMMA FetchDoneType ==
  ASSUME TypeOK, NEW k \in Keys, NEW published \in BOOLEAN, NEW verdict,
         FetchDone(k, published, verdict)
  PROVE  /\ chunks' \in SUBSET Keys /\ older' \in SUBSET (Keys \X Keys)
         /\ current' \in Int /\ reserved' \in Int
         /\ pins' \in [Keys -> Nat] /\ inflight' \in [Keys -> Calls]
         /\ ReaderType'
<1>1. Length(k) \in Int
  BY LengthType, CacheAssumption
<1>2. reserved' \in Int /\ inflight' \in [Keys -> Calls]
  BY <1>1, ConstantTypes DEF TypeOK, FetchDone
<1>3. /\ chunks' \in SUBSET Keys /\ older' \in SUBSET (Keys \X Keys)
      /\ current' \in Int /\ pins' \in [Keys -> Nat]
  <2>1. CASE published
    BY <1>1, <2>1 DEF TypeOK, FetchDone, Touch
  <2>2. CASE ~published
    BY <2>2 DEF TypeOK, FetchDone
  <2>3. QED BY <2>1, <2>2
<1>4. ASSUME NEW q \in Readers
      PROVE  /\ pc'[q] \in PCs /\ rd'[q] \in ReadStates
             /\ ReadInBounds(q)'
  <2>1. pc[q] \in PCs /\ rd[q] \in ReadStates /\ ReadInBounds(q)
    BY DEF TypeOK
  <2>2. CASE pc'[q] = pc[q] /\ rd'[q] = rd[q]
    BY <2>1, <2>2 DEF ReadInBounds, Object
  <2>3. CASE pc'[q] = "acquire" /\ pc[q] \in {"await", "backpressure"} /\ rd'[q] = rd[q]
    BY <2>1, <2>3 DEF ReadInBounds, Object, PCs
  <2>4. CASE pc'[q] = "idle" /\ rd'[q] = NoRead
    BY <2>4, ConstantTypes DEF ReadInBounds, Object, PCs, NoRead
  <2>5. QED BY <2>2, <2>3, <2>4 DEF FetchDone, Signalled
<1>5. ReaderType'
  <2>1. pc' = [r \in Readers |-> pc'[r]] /\ rd' = [r \in Readers |-> rd'[r]]
    BY DEF FetchDone
  <2>2. QED BY <1>4, <2>1 DEF ReaderType
<1>6. QED BY <1>2, <1>3, <1>5

\* The reservation of a chunk for kind of work preserves the types of the index.
LEMMA ReserveEvictsKeys ==
  ASSUME TypeOK, NEW k \in Keys, NEW kind \in Kinds, NEW protected,
         NEW v \in tryReserve(k, kind, protected), Evict(v.gone)
  PROVE  IndexType'
<1>1. v.gone \in SUBSET Keys
  BY TryReserveSound DEF Unpinned, TypeOK
<1>2. QED BY <1>1, EvictType, TypeParts

\* Every step of a reader preserves the types.
LEMMA ReaderStepType ==
  ASSUME TypeOK, PinsHeld, NEW r \in Readers, ReaderStep(r) \/ AbandonRead(r)
  PROVE  TypeOK'
<1> USE TypeParts
<1>a. /\ pc[r] \in PCs /\ rd[r] \in ReadStates /\ ReadInBounds(r)
      /\ rd[r].h \in Handles /\ handle[rd[r].h] \in HandleStates
  BY DEF TypeOK, ReadStates
<1>1. CASE BeginRead(r)
  <2> DEFINE h == rd[r].h
             fresh == handle[h].ctx = 0 \/ (handle[h].hasLast /\ rd[r].off # handle[h].end)
             gen == IF fresh THEN handle[h].gen + 1 ELSE handle[h].gen
  <2>1. gen \in 0 .. MaxGeneration
    BY <1>1, <1>a, CacheAssumption DEF BeginRead, HandleStates
  <2>2. handle' \in [Handles -> HandleStates]
    BY <1>1, <1>a, <2>1 DEF BeginRead, HandleStates, TypeOK
  <2>3. OtherType'
    BY <1>1, <2>2 DEF BeginRead, OtherType, cacheVars, diskVars
  <2>4. pc' \in [Readers -> PCs] /\ rd' \in [Readers -> ReadStates]
    <3> HIDE DEF gen
    <3>1. rd' = [rd EXCEPT ![r].gen = gen] /\ pc' = [pc EXCEPT ![r] = "acquire"]
      BY <1>1 DEF BeginRead, gen
    <3>2. QED BY <2>1, <3>1 DEF TypeOK, ReadStates, PCs
  <2>5. ASSUME NEW q \in Readers PROVE ReadInBounds(q)'
    <3>1. /\ rd'[q].h = rd[q].h /\ rd'[q].off = rd[q].off
          /\ rd'[q].want = rd[q].want /\ rd'[q].done = rd[q].done
      BY <1>1 DEF BeginRead, TypeOK, ReadStates
    <3>2. pc'[q] = pc[q] \/ (pc[q] = "begin" /\ pc'[q] = "acquire")
      BY <1>1 DEF BeginRead, TypeOK
    <3>3. QED BY <3>1, <3>2 DEF TypeOK, ReadInBounds, Object
  <2>6. QED BY <1>1, <2>3, <2>4, <2>5 DEF BeginRead, ReaderType, IndexType, cacheVars, diskVars
<1>2. CASE AcquireHit(r)
  <2>1. CurrentKey(r) \in Keys
    BY <1>2, <1>a, ReadPosition DEF AcquireHit, ReadInBounds
  <2>2. OtherType' /\ IndexType'
    BY <1>2, <2>1 DEF AcquireHit, OtherType, IndexType, diskVars, Touch
  <2>3. ReaderType'
    BY <1>2, <1>a DEF AcquireHit, ReaderType, ReadInBounds, Object, PCs
  <2>4. QED BY <2>2, <2>3
<1>3. CASE AcquireJoin(r)
  <2>1. OtherType' /\ IndexType'
    BY <1>3 DEF AcquireJoin, OtherType, IndexType, diskVars, cacheVars
  <2>2. ReaderType'
    BY <1>3, <1>a DEF AcquireJoin, ReaderType, ReadInBounds, Object, PCs
  <2>3. QED BY <2>1, <2>2
<1>4. CASE AcquireMiss(r)
  <2> DEFINE k == CurrentKey(r)
  <2>1. k \in Keys
    BY <1>4, <1>a, ReadPosition DEF AcquireMiss, ReadInBounds
  <2>2. PICK v \in tryReserve(k, "foreground", {}) :
          /\ Evict(v.gone)
          /\ \/ /\ v.verdict = "ok"
                /\ Reserve(k, Call("foreground", AnyHandle, 0))
                /\ pc' = [pc EXCEPT ![r] = "await"]
                /\ UNCHANGED rd
             \/ /\ v.verdict = "full"
                /\ pc' = [pc EXCEPT ![r] = "backpressure"]
                /\ UNCHANGED <<inflight, reserved, rd>>
             \/ /\ v.verdict = "error"
                /\ Return(r)
                /\ UNCHANGED <<inflight, reserved>>
    BY <1>4 DEF AcquireMiss
  <2>3. IndexType'
    BY <2>1, <2>2, ReserveEvictsKeys DEF Kinds
  <2>4. inflight' \in [Keys -> Calls] /\ reserved' \in Int
    <3>1. CASE Reserve(k, Call("foreground", AnyHandle, 0))
      BY <2>1, <3>1, ReserveType, ConstantTypes, CacheAssumption DEF Kinds
    <3>2. CASE UNCHANGED <<inflight, reserved>>
      BY <3>2 DEF TypeOK
    <3>3. QED BY <2>2, <3>1, <3>2
  <2>5. ReaderType'
    <3>1. CASE Return(r)
      BY <3>1, ReturnType
    <3>2. CASE pc' \in {[pc EXCEPT ![r] = "await"], [pc EXCEPT ![r] = "backpressure"]} /\ rd' = rd
      BY <1>4, <1>a, <3>2 DEF AcquireMiss, ReaderType, ReadInBounds, Object, PCs
    <3>3. QED BY <2>2, <3>1, <3>2
  <2>6. QED BY <1>4, <2>3, <2>4, <2>5 DEF AcquireMiss, OtherType
<1>5. CASE CopyChunk(r)
  <2> DEFINE k == CurrentKey(r)
             done == rd[r].done + copyLength(r)
  <2>1. /\ k \in Keys /\ copyLength(r) \in 1 .. (rd[r].want - rd[r].done)
        /\ rd[r].done \in Nat /\ rd[r].want \in Nat
    BY <1>5, <1>a, ReadPosition DEF CopyChunk, ReadInBounds, ReadStates
  <2>2. pins[k] > 0 /\ pins[k] \in Nat
    BY <1>5, <2>1 DEF CopyChunk, PinsHeld, TypeOK
  <2>3. pins' \in [Keys -> Nat]
    <3>1. pins' = [pins EXCEPT ![k] = pins[k] - 1]
      BY <1>5 DEF CopyChunk, releaseChunk
    <3>2. pins[k] - 1 \in Nat /\ pins \in [Keys -> Nat]
      BY <2>2 DEF TypeOK
    <3>3. QED BY <3>1, <3>2
  <2>4. done \in Nat /\ done <= rd[r].want
    BY <2>1
  <2> HIDE DEF done
  <2>5. ASSUME NEW q \in Readers
        PROVE  /\ pc'[q] \in PCs /\ rd'[q] \in ReadStates /\ ReadInBounds(q)'
    <3>1. pc[q] \in PCs /\ rd[q] \in ReadStates /\ ReadInBounds(q)
      BY DEF TypeOK
    <3>2. CASE q # r
      <4>1. rd'[q] = rd[q] /\ pc'[q] = Signalled(pc)[q]
        BY <1>5, <3>2 DEF CopyChunk, TypeOK, Signalled
      <4>2. QED BY <3>1, <4>1 DEF Signalled, ReadInBounds, Object, PCs
    <3>3. CASE q = r /\ rd' = [rd EXCEPT ![r] = NoRead] /\ pc' = [Signalled(pc) EXCEPT ![r] = "idle"]
      BY <3>3, ConstantTypes DEF ReadInBounds, Object, PCs, NoRead, TypeOK, Signalled
    <3>4. CASE /\ q = r /\ rd' = [rd EXCEPT ![r].done = done]
               /\ pc' = [Signalled(pc) EXCEPT ![r] = IF done < rd[r].want THEN "acquire" ELSE "finish"]
      <4>1. rd'[r] = [rd[r] EXCEPT !.done = done]
        BY <3>4 DEF TypeOK
      <4>2. pc'[r] = IF done < rd[r].want THEN "acquire" ELSE "finish"
        BY <3>4 DEF Signalled
      <4>3. pc[r] = "copy"
        BY <1>5 DEF CopyChunk
      <4>4. QED BY <2>1, <2>4, <3>1, <3>4, <4>1, <4>2, <4>3 DEF ReadInBounds, Object, PCs, ReadStates
    <3>5. QED BY <1>5, <3>2, <3>3, <3>4 DEF CopyChunk, done
  <2>6. ReaderType'
    <3>1. pc' = [q \in Readers |-> pc'[q]] /\ rd' = [q \in Readers |-> rd'[q]]
      BY <1>5 DEF CopyChunk, Signalled, TypeOK
    <3>2. QED BY <2>5, <3>1 DEF ReaderType
  <2>7. QED BY <1>5, <2>3, <2>6 DEF CopyChunk, OtherType, IndexType, diskVars
<1>6. CASE FinishRead(r)
  <2>1. ReaderType'
    <3>1. CASE Return(r)
      BY <3>1, ReturnType
    <3>2. CASE pc' = [pc EXCEPT ![r] = "ahead"] /\ rd' = rd
      BY <1>6, <1>a, <3>2 DEF FinishRead, ReaderType, ReadInBounds, Object, PCs
    <3>3. QED BY <1>6, <3>1, <3>2 DEF FinishRead
  <2>2. rd[r].off + rd[r].done \in Nat
    BY <1>a DEF ReadStates
  <2>3. handle' \in [Handles -> HandleStates]
    BY <1>6, <1>a, <2>2 DEF FinishRead, TypeOK, HandleStates
  <2>4. QED BY <1>6, <2>1, <2>3 DEF FinishRead, OtherType, IndexType, cacheVars, diskVars
<1>7. CASE ReadAhead(r)
  <2> DEFINE k == <<Object(r), NextIndex(r) + rd[r].ahead>>
             h == rd[r].h
  <2>1. CASE Return(r) /\ UNCHANGED <<cacheVars, files>>
    BY <1>7, <2>1, ReturnType DEF ReadAhead, OtherType, IndexType, cacheVars
  <2>2. CASE /\ rd[r].ahead < ReadAheadChunks
             /\ rd' = [rd EXCEPT ![r].ahead = @ + 1]
             /\ UNCHANGED <<cacheVars, files, pc>>
    <3>1. ReaderType'
      BY <2>2, CacheAssumption DEF ReaderType, ReadStates, ReadInBounds, Object
    <3>2. QED BY <1>7, <2>2, <3>1 DEF ReadAhead, OtherType, IndexType, cacheVars
  <2>3. CASE /\ rd[r].ahead < ReadAheadChunks
             /\ k \in Keys
             /\ \E v \in tryReserve(k, "readAhead", {<<Object(r), NextIndex(r) - 1>>}) :
                  /\ Evict(v.gone)
                  /\ IF v.verdict = "ok"
                     THEN /\ Reserve(k, Call("readAhead", h, rd[r].gen))
                          /\ rd' = [rd EXCEPT ![r].ahead = @ + 1]
                          /\ UNCHANGED pc
                     ELSE Return(r) /\ UNCHANGED <<inflight, reserved>>
             /\ UNCHANGED pins
    <3>1. IndexType'
      BY <2>3, ReserveEvictsKeys DEF Kinds
    <3>2. inflight' \in [Keys -> Calls] /\ reserved' \in Int
      <4>1. rd[r].gen \in 0 .. MaxGeneration
        BY <1>a DEF ReadStates
      <4>2. CASE Reserve(k, Call("readAhead", h, rd[r].gen))
        BY <1>a, <2>3, <4>1, <4>2, ReserveType DEF Kinds
      <4>3. CASE UNCHANGED <<inflight, reserved>>
        BY <4>3 DEF TypeOK
      <4>4. QED BY <2>3, <4>2, <4>3
    <3>3. ReaderType'
      <4>1. CASE Return(r)
        BY <4>1, ReturnType
      <4>2. CASE rd' = [rd EXCEPT ![r].ahead = @ + 1] /\ UNCHANGED pc
        BY <2>3, <4>2, CacheAssumption DEF ReaderType, ReadStates, ReadInBounds, Object
      <4>3. QED BY <2>3, <4>1, <4>2
    <3>4. QED BY <1>7, <2>3, <3>1, <3>2, <3>3 DEF ReadAhead, OtherType
  <2>4. QED BY <1>7, <2>1, <2>2, <2>3 DEF ReadAhead
<1>8. CASE AbandonRead(r)
  BY <1>8, ReturnType DEF AbandonRead, OtherType, IndexType, cacheVars, diskVars
<1>9. QED BY <1>1, <1>2, <1>3, <1>4, <1>5, <1>6, <1>7, <1>8 DEF ReaderStep

\* Starting a read preserves the types.
LEMMA StartReadType ==
  ASSUME TypeOK, NEW r \in Readers, NEW h \in Handles, NEW rg \in Reads,
         StartRead(r, h, rg[1], rg[2])
  PROVE  TypeOK'
<1> DEFINE off == rg[1]
           len == rg[2]
           size == Size[ObjectOf[h]]
           want == IF len > size - off THEN size - off ELSE len
<1>1. off \in Nat /\ len \in Nat \ {0} /\ size \in Nat
  BY CacheAssumption
<1>2. off < size
  BY DEF StartRead
<1>3. want \in Nat /\ want > 0 /\ off + want <= size
  BY <1>1, <1>2
<1> HIDE DEF want
<1>4. /\ rd' = [rd EXCEPT ![r] = [NoRead EXCEPT !.h = h, !.off = off, !.want = want]]
      /\ pc' = [pc EXCEPT ![r] = "begin"]
  BY DEF StartRead, want
<1>5. [NoRead EXCEPT !.h = h, !.off = off, !.want = want] \in ReadStates
  BY <1>1, <1>3, ConstantTypes DEF ReadStates, NoRead
<1>6. ASSUME NEW q \in Readers PROVE ReadInBounds(q)'
  <2>1. CASE q = r
    BY <1>1, <1>3, <1>4, <2>1 DEF TypeOK, ReadInBounds, Object, NoRead
  <2>2. CASE q # r
    BY <1>4, <2>2 DEF TypeOK, ReadInBounds, Object
  <2>3. QED BY <2>1, <2>2
<1>7. ReaderType'
  BY <1>4, <1>5, <1>6 DEF ReaderType, TypeOK, PCs
<1>8. IndexType' /\ OtherType'
  BY DEF StartRead, IndexType, OtherType, TypeOK, cacheVars, diskVars
<1>9. QED BY <1>7, <1>8, TypeParts

\* A failed attempt preserves the types.
LEMMA AttemptFailedType ==
  ASSUME TypeOK, NEW k \in Keys, NEW takesContext, AttemptFailed(k, takesContext)
  PROVE  /\ chunks' \in SUBSET Keys /\ older' \in SUBSET (Keys \X Keys)
         /\ current' \in Int /\ reserved' \in Int
         /\ pins' \in [Keys -> Nat] /\ inflight' \in [Keys -> Calls]
         /\ ReaderType'
<1>1. CASE /\ inflight[k].attempt < MaxAttempts
           /\ inflight' = [inflight EXCEPT ![k].stage = "open", ![k].attempt = @ + 1]
           /\ UNCHANGED <<chunks, older, pins, current, reserved, readVars>>
  <2>1. inflight[k] \in Calls
    BY DEF TypeOK
  <2>2. inflight' \in [Keys -> Calls]
    BY <1>1, <2>1, CacheAssumption DEF TypeOK, Calls, Stages
  <2>3. ReaderType'
    BY <1>1 DEF TypeOK, ReaderType, readVars, ReadInBounds, Object
  <2>4. QED BY <1>1, <2>2, <2>3 DEF TypeOK
<1>2. CASE \E verdict \in {"error", "canceled"} : FetchDone(k, FALSE, verdict)
  BY <1>2, FetchDoneType
<1>3. QED BY <1>1, <1>2 DEF AttemptFailed

\* Every step of a fetch preserves the types.
LEMMA FetchStepType ==
  ASSUME TypeOK, NEW k \in Keys, FetchStep(k)
  PROVE  TypeOK'
<1> DEFINE Part == /\ chunks' \in SUBSET Keys /\ older' \in SUBSET (Keys \X Keys)
                   /\ current' \in Int /\ reserved' \in Int
                   /\ pins' \in [Keys -> Nat] /\ inflight' \in [Keys -> Calls]
                   /\ ReaderType'
<1>1. ASSUME NEW stage \in Stages, inflight' = [inflight EXCEPT ![k].stage = stage],
             UNCHANGED <<chunks, older, pins, current, reserved, readVars>>
      PROVE  Part
  <2>1. inflight' \in [Keys -> Calls]
    BY <1>1 DEF TypeOK, Calls
  <2>2. ReaderType'
    BY <1>1 DEF TypeOK, ReaderType, readVars, ReadInBounds, Object
  <2>3. QED BY <1>1, <2>1, <2>2 DEF TypeOK
<1>2. CASE FetchOpen(k)
  <2>1. Part
    BY <1>1, <1>2, FetchDoneType, AttemptFailedType DEF FetchOpen, Stages
  <2>2. QED BY <1>2, <2>1, TypeParts DEF FetchOpen, IndexType, OtherType, diskVars
<1>3. CASE FetchBody(k)
  <2>1. Part
    BY <1>1, <1>3, AttemptFailedType DEF FetchBody, Stages
  <2>2. files' \in SUBSET Keys /\ stray' \in SUBSET Keys
    BY <1>3 DEF FetchBody, TypeOK
  <2>3. QED BY <1>3, <2>1, <2>2, TypeParts DEF FetchBody, IndexType, OtherType
<1>4. CASE FetchPublish(k)
  <2>1. Part
    BY <1>4, FetchDoneType, AttemptFailedType DEF FetchPublish
  <2>2. files' \in SUBSET Keys
    BY <1>4 DEF FetchPublish, TypeOK
  <2>3. QED BY <1>4, <2>1, <2>2, TypeParts DEF FetchPublish, IndexType, OtherType
<1>5. QED BY <1>2, <1>3, <1>4 DEF FetchStep

\* Every step of a prefetch goroutine preserves the types.
LEMMA PrefetchType ==
  ASSUME TypeOK, NEW o \in Objects, StartPrefetch(o) \/ PrefetchNext(o)
  PROVE  TypeOK'
<1>a. prefetch[o] \in {Quiet} \cup 0 .. PrefetchChunks
  BY DEF TypeOK
<1>b. prefetch' \in [Objects -> {Quiet} \cup 0 .. PrefetchChunks]
  <2>1. CASE \E n \in {Quiet} \cup 0 .. PrefetchChunks : prefetch' = [prefetch EXCEPT ![o] = n]
    BY <2>1 DEF TypeOK
  <2>2. CASE /\ prefetch[o] # Quiet /\ prefetch[o] < PrefetchChunks
             /\ prefetch' = [prefetch EXCEPT ![o] = @ + 1]
    <3>1. prefetch[o] + 1 \in 0 .. PrefetchChunks
      BY <1>a, <2>2, CacheAssumption DEF Quiet
    <3>2. QED BY <2>2, <3>1 DEF TypeOK
  <2>3. 0 \in 0 .. PrefetchChunks
    BY CacheAssumption
  <2>4. QED BY <2>1, <2>2, <2>3 DEF StartPrefetch, PrefetchNext
<1>c. ReaderType'
  BY DEF StartPrefetch, PrefetchNext, readVars, ReaderType, TypeOK, ReadInBounds, Object
<1>1. CASE UNCHANGED <<cacheVars, files>>
  BY <1>1, <1>b, <1>c, TypeParts DEF StartPrefetch, PrefetchNext, cacheVars, diskVars, IndexType, OtherType
<1>2. CASE /\ PrefetchNext(o)
           /\ <<o, prefetch[o]>> \in Keys
           /\ \E v \in tryReserve(<<o, prefetch[o]>>, "nextEpisode", {}) :
                /\ Evict(v.gone)
                /\ \/ Reserve(<<o, prefetch[o]>>, Call("nextEpisode", AnyHandle, 0))
                   \/ UNCHANGED <<inflight, reserved>>
           /\ UNCHANGED pins
  <2>1. IndexType'
    BY <1>2, ReserveEvictsKeys DEF Kinds
  <2>2. inflight' \in [Keys -> Calls] /\ reserved' \in Int
    <3>1. CASE Reserve(<<o, prefetch[o]>>, Call("nextEpisode", AnyHandle, 0))
      BY <1>2, <3>1, ReserveType, ConstantTypes, CacheAssumption, TypeParts DEF Kinds
    <3>2. CASE UNCHANGED <<inflight, reserved>>
      BY <3>2 DEF TypeOK
    <3>3. QED BY <1>2, <3>1, <3>2
  <2>3. QED BY <1>2, <1>b, <1>c, <2>1, <2>2, TypeParts DEF PrefetchNext, OtherType
<1>3. QED BY <1>1, <1>2 DEF StartPrefetch, PrefetchNext, diskVars

\* Opening and closing a handle preserve the types.
LEMMA HandleType ==
  ASSUME TypeOK, NEW h \in Handles, Open(h) \/ Close(h)
  PROVE  TypeOK'
<1>1. ReaderType'
  BY DEF Open, Close, readVars, ReaderType, TypeOK, ReadInBounds, Object
<1>2. handle' \in [Handles -> HandleStates]
  BY CacheAssumption DEF Open, Close, TypeOK, HandleStates
<1>3. IndexType'
  <2>1. CASE Open(h)
    <3>1. ObjectOf[h] \in Objects
      BY CacheAssumption
    <3>2. PICK v : /\ v \in ensureIncompleteObject(ObjectOf[h], 0, {}) \/ v.gone = {}
                   /\ Evict(v.gone)
      BY <2>1 DEF Open
    <3>3. v.gone \in SUBSET Keys
      BY <3>2, EvictUntilSound DEF ensureIncompleteObject, OfObject, Unpinned, TypeOK
    <3>4. QED BY <3>2, <3>3, EvictType, TypeParts
  <2>2. CASE Close(h)
    BY <2>2 DEF Close, cacheVars, diskVars, IndexType, TypeOK
  <2>3. QED BY <2>1, <2>2
<1>4. QED BY <1>1, <1>2, <1>3, TypeParts DEF Open, Close, OtherType, cacheVars, diskVars

-----------------------------------------------------------------------------
(* What a step can do to the index.  Every step of a running process has   *)
(* one of seven effects, and the invariants are proved effect by effect.   *)

\* No reader starts or stops copying a chunk.
CopyKept ==
  \A q \in Readers : /\ pc'[q] = "copy" <=> pc[q] = "copy"
                     /\ pc[q] = "copy" => rd'[q] = rd[q]

Still == CopyKept /\ UNCHANGED <<chunks, pins, inflight, current, reserved, files>>

EvictsOnly ==
  /\ CopyKept
  /\ \E E \in SUBSET Unpinned : Evict(E)
  /\ UNCHANGED <<pins, inflight, reserved>>

\* E makes room for chunk k in the pool and in its object.
MakesRoom(E, k) ==
  Policy = "rolling" =>
    /\ current - Bytes(E) + reserved + Length(k) <= quota
    /\ Bytes(OfObject(E, k[1])) >= objectUsage(k[1]) + Length(k) - (Size[k[1]] - 1)

Reserves(k) ==
  /\ CopyKept
  /\ ~Present(k)
  /\ \E E \in SUBSET Unpinned : Evict(E) /\ MakesRoom(E, k)
  /\ \E call \in Calls : call.stage = "open" /\ Reserve(k, call)
  /\ UNCHANGED pins

\* The fetch of k goes on; only its own file may appear or disappear.
Advances(k) ==
  /\ CopyKept
  /\ k \in InFlight
  /\ \E call \in Calls :
       /\ call.stage # "none" /\ (call.stage = "renamed" => k \in files')
       /\ inflight' = [inflight EXCEPT ![k] = call]
  /\ files \ {k} \subseteq files'
  /\ UNCHANGED <<chunks, pins, current, reserved>>

Finishes(k) ==
  /\ CopyKept
  /\ k \in InFlight
  /\ \E published \in BOOLEAN, verdict \in {"ok", "error", "canceled"} :
       FetchDone(k, published, verdict) /\ (published => k \in files /\ files' = files)
  /\ files \ {k} \subseteq files'

Effect ==
  \/ Still
  \/ EvictsOnly
  \/ \E k \in Keys : Reserves(k) \/ Advances(k) \/ Finishes(k)
  \/ \E r \in Readers : AcquireHit(r) \/ CopyChunk(r)

\* A renamed chunk is on disk.
RenamedOnDisk == \A k \in Keys : inflight[k].stage = "renamed" => k \in files

\* A reservation for any kind of work evicts unpinned chunks and makes room.
LEMMA ReserveMakesRoom ==
  ASSUME TypeOK, NEW k \in Keys, NEW kind \in Kinds, NEW protected,
         NEW v \in tryReserve(k, kind, protected)
  PROVE  /\ v.gone \in SUBSET Unpinned
         /\ v.verdict = "ok" => MakesRoom(v.gone, k)
<1>1. /\ v.gone \in SUBSET Unpinned
      /\ v.verdict = "ok" /\ Policy = "rolling" =>
              /\ current - Bytes(v.gone) + reserved + Length(k) <= quota - Headroom(kind)
              /\ Bytes(OfObject(v.gone, k[1])) >= objectUsage(k[1]) + Length(k) - (Size[k[1]] - 1)
  BY TryReserveSound
<1>2. v.gone \in SUBSET Keys
  BY <1>1 DEF Unpinned, TypeOK
<1>3. Bytes(v.gone) \in Nat /\ Length(k) \in Nat
  BY <1>2, BytesFinite, LengthType, CacheAssumption
<1>4. current \in Int /\ reserved \in Int /\ quota \in Nat /\ Headroom(kind) \in Nat
  BY CacheAssumption DEF TypeOK, Headroom
<1>5. QED BY <1>1, <1>3, <1>4 DEF MakesRoom

\* Reader steps have one of the effects.
LEMMA ReaderEffect ==
  ASSUME TypeOK, NEW r \in Readers, ReaderStep(r) \/ AbandonRead(r)
  PROVE  Effect
<1>1. /\ pc \in [Readers -> PCs] /\ rd \in [Readers -> ReadStates]
  BY DEF TypeOK
<1>2. CASE BeginRead(r) \/ AcquireJoin(r) \/ FinishRead(r) \/ AbandonRead(r)
  <2>1. CopyKept
    BY <1>1, <1>2 DEF CopyKept, BeginRead, AcquireJoin, FinishRead, AbandonRead, Return
  <2>2. QED BY <1>2, <2>1
          DEF Effect, Still, BeginRead, AcquireJoin, FinishRead, AbandonRead, cacheVars, diskVars
<1>3. CASE AcquireHit(r) \/ CopyChunk(r)
  BY <1>3 DEF Effect
<1>4. CASE AcquireMiss(r)
  <2> DEFINE k == CurrentKey(r)
  <2>1. k \in Keys
    BY <1>4, ReadPosition DEF AcquireMiss, ReadInBounds, TypeOK
  <2>2. PICK v \in tryReserve(k, "foreground", {}) :
          /\ Evict(v.gone)
          /\ \/ v.verdict = "ok" /\ Reserve(k, Call("foreground", AnyHandle, 0))
             \/ UNCHANGED <<inflight, reserved>>
    BY <1>4 DEF AcquireMiss
  <2>3. v.gone \in SUBSET Unpinned /\ (v.verdict = "ok" => MakesRoom(v.gone, k))
    BY <2>1, ReserveMakesRoom DEF Kinds
  <2>4. CopyKept
    BY <1>1, <1>4 DEF CopyKept, AcquireMiss, Return
  <2>5. CASE v.verdict = "ok" /\ Reserve(k, Call("foreground", AnyHandle, 0))
    <3>1. /\ Call("foreground", AnyHandle, 0) \in Calls
          /\ Call("foreground", AnyHandle, 0).stage = "open"
      BY ConstantTypes, CacheAssumption DEF Call, Calls, Stages, Kinds
    <3>2. Reserves(k)
      BY <1>4, <2>2, <2>3, <2>4, <2>5, <3>1 DEF Reserves, AcquireMiss, Present
    <3>3. QED BY <2>1, <3>2 DEF Effect
  <2>6. CASE UNCHANGED <<inflight, reserved>>
    BY <1>4, <2>2, <2>3, <2>4, <2>6 DEF Effect, EvictsOnly, AcquireMiss
  <2>7. QED BY <2>2, <2>5, <2>6
<1>5. CASE ReadAhead(r)
  <2> DEFINE k == <<Object(r), NextIndex(r) + rd[r].ahead>>
             call == Call("readAhead", rd[r].h, rd[r].gen)
  <2>1. CopyKept
    BY <1>1, <1>5 DEF CopyKept, ReadAhead, Return
  <2>2. CASE UNCHANGED <<cacheVars, files>>
    BY <2>1, <2>2 DEF Effect, Still, cacheVars
  <2>3. CASE /\ k \in Keys /\ ~Present(k) /\ UNCHANGED pins
             /\ \E v \in tryReserve(k, "readAhead", {<<Object(r), NextIndex(r) - 1>>}) :
                  /\ Evict(v.gone)
                  /\ \/ v.verdict = "ok" /\ Reserve(k, call)
                     \/ UNCHANGED <<inflight, reserved>>
    <3>1. PICK v \in tryReserve(k, "readAhead", {<<Object(r), NextIndex(r) - 1>>}) :
                  /\ Evict(v.gone)
                  /\ \/ v.verdict = "ok" /\ Reserve(k, call)
                     \/ UNCHANGED <<inflight, reserved>>
      BY <2>3
    <3>2. v.gone \in SUBSET Unpinned /\ (v.verdict = "ok" => MakesRoom(v.gone, k))
      BY <2>3, ReserveMakesRoom DEF Kinds
    <3>3. CASE v.verdict = "ok" /\ Reserve(k, call)
      <4>1. call \in Calls /\ call.stage = "open"
        BY <1>1, CacheAssumption DEF Call, Calls, Stages, Kinds, ReadStates
      <4>2. Reserves(k)
        BY <2>1, <2>3, <3>1, <3>2, <3>3, <4>1 DEF Reserves
      <4>3. QED BY <2>3, <4>2 DEF Effect
    <3>4. CASE UNCHANGED <<inflight, reserved>>
      BY <2>1, <2>3, <3>1, <3>2, <3>4 DEF Effect, EvictsOnly
    <3>5. QED BY <3>1, <3>3, <3>4
  <2>4. QED BY <1>5, <2>2, <2>3 DEF ReadAhead
<1>6. QED BY <1>2, <1>3, <1>4, <1>5 DEF ReaderStep

\* Ending a fetch that is in flight is the effect Finishes.
LEMMA FetchDoneKeepsCopies ==
  ASSUME TypeOK, NEW k \in Keys, NEW published, NEW verdict, FetchDone(k, published, verdict)
  PROVE  CopyKept
BY DEF CopyKept, FetchDone, Signalled, TypeOK

\* Fetch steps have one of the effects.
LEMMA FetchEffect ==
  ASSUME TypeOK, RenamedOnDisk, NEW k \in Keys, FetchStep(k)
  PROVE  Advances(k) \/ Finishes(k)
<1>1. inflight \in [Keys -> Calls] /\ inflight[k] \in Calls
  BY DEF TypeOK
<1>2. k \in InFlight
  BY DEF FetchStep, FetchOpen, FetchBody, FetchPublish, InFlight
<1>3. ASSUME NEW stage \in Stages \ {"none"}, stage = "renamed" => k \in files',
             inflight' = [inflight EXCEPT ![k].stage = stage], files \ {k} \subseteq files',
             UNCHANGED <<chunks, older, pins, current, reserved, readVars>>
      PROVE  Advances(k)
  <2>1. [inflight[k] EXCEPT !.stage = stage] \in Calls
    BY <1>1, <1>3 DEF Calls
  <2>2. [inflight[k] EXCEPT !.stage = stage].stage = stage
    BY <1>1 DEF Calls
  <2>3. CopyKept
    BY <1>3 DEF CopyKept, readVars
  <2>4. QED BY <1>2, <1>3, <2>1, <2>2, <2>3 DEF Advances
<1>4. ASSUME NEW takesContext, AttemptFailed(k, takesContext), files \ {k} \subseteq files'
      PROVE  Advances(k) \/ Finishes(k)
  <2>1. CASE /\ inflight[k].attempt < MaxAttempts
             /\ inflight' = [inflight EXCEPT ![k].stage = "open", ![k].attempt = @ + 1]
             /\ UNCHANGED <<chunks, older, pins, current, reserved, readVars>>
    <3> DEFINE call == [inflight[k] EXCEPT !.stage = "open", !.attempt = @ + 1]
    <3>1. call \in Calls /\ call.stage = "open"
      BY <1>1, <2>1, CacheAssumption DEF Calls, Stages
    <3>2. inflight' = [inflight EXCEPT ![k] = call]
      BY <1>1, <2>1 DEF Calls
    <3>3. CopyKept
      BY <2>1 DEF CopyKept, readVars
    <3>4. QED BY <1>2, <1>4, <2>1, <3>1, <3>2, <3>3 DEF Advances
  <2>2. CASE \E verdict \in {"error", "canceled"} : FetchDone(k, FALSE, verdict)
    BY <1>2, <1>4, <2>2, FetchDoneKeepsCopies DEF Finishes
  <2>3. QED BY <1>4, <2>1, <2>2 DEF AttemptFailed
<1>5. CASE FetchOpen(k)
  <2>1. files' = files
    BY <1>5 DEF FetchOpen, diskVars
  <2>2. CASE FetchDone(k, FALSE, "error")
    BY <1>2, <2>1, <2>2, FetchDoneKeepsCopies DEF Finishes
  <2>3. CASE /\ inflight' = [inflight EXCEPT ![k].stage = "temp"]
             /\ UNCHANGED <<chunks, older, pins, current, reserved, readVars>>
    <3>1. "temp" \in Stages \ {"none"} /\ "temp" # "renamed" /\ files \ {k} \subseteq files'
      BY <2>1 DEF Stages
    <3>2. QED BY <1>3, <2>3, <3>1, Zenon
  <2>4. CASE AttemptFailed(k, TRUE)
    BY <1>4, <2>1, <2>4
  <2>5. QED BY <1>5, <2>2, <2>3, <2>4 DEF FetchOpen
<1>6. CASE FetchBody(k)
  BY <1>3, <1>4, <1>6 DEF FetchBody, Stages
<1>7. CASE FetchPublish(k)
  <2>1. files \ {k} \subseteq files'
    BY <1>7 DEF FetchPublish
  <2>2. CASE \E verdict \in {"ok", "error"} : FetchDone(k, TRUE, verdict) /\ UNCHANGED files
    <3>1. k \in files
      BY <1>7 DEF FetchPublish, RenamedOnDisk
    <3>2. QED BY <1>2, <2>1, <2>2, <3>1, FetchDoneKeepsCopies DEF Finishes
  <2>3. QED BY <1>4, <1>7, <2>1, <2>2 DEF FetchPublish
<1>8. QED BY <1>5, <1>6, <1>7 DEF FetchStep

\* The remaining steps of a running process have one of the effects.
LEMMA OtherEffect ==
  ASSUME TypeOK,
         \/ \E r \in Readers, h \in Handles, rg \in Reads : StartRead(r, h, rg[1], rg[2])
         \/ \E o \in Objects : StartPrefetch(o) \/ PrefetchNext(o)
         \/ \E h \in Handles : Open(h) \/ Close(h)
  PROVE  Effect
<1>1. CASE \E r \in Readers, h \in Handles, rg \in Reads : StartRead(r, h, rg[1], rg[2])
  <2>1. CopyKept
    BY <1>1 DEF StartRead, CopyKept, TypeOK
  <2>2. QED BY <1>1, <2>1 DEF StartRead, Effect, Still, cacheVars, diskVars
<1>2. ASSUME NEW o \in Objects, StartPrefetch(o) \/ PrefetchNext(o) PROVE Effect
  <2> DEFINE k == <<o, prefetch[o]>>
             call == Call("nextEpisode", AnyHandle, 0)
  <2>1. CopyKept
    BY <1>2 DEF StartPrefetch, PrefetchNext, CopyKept, readVars
  <2>2. CASE UNCHANGED <<cacheVars, files>>
    BY <2>1, <2>2 DEF Effect, Still, cacheVars
  <2>3. CASE /\ k \in Keys /\ ~Present(k) /\ UNCHANGED pins
             /\ \E v \in tryReserve(k, "nextEpisode", {}) :
                  /\ Evict(v.gone)
                  /\ \/ v.verdict = "ok" /\ Reserve(k, call)
                     \/ UNCHANGED <<inflight, reserved>>
    <3>1. PICK v \in tryReserve(k, "nextEpisode", {}) :
                  /\ Evict(v.gone)
                  /\ \/ v.verdict = "ok" /\ Reserve(k, call)
                     \/ UNCHANGED <<inflight, reserved>>
      BY <2>3
    <3>2. v.gone \in SUBSET Unpinned /\ (v.verdict = "ok" => MakesRoom(v.gone, k))
      BY <2>3, ReserveMakesRoom DEF Kinds
    <3>3. CASE v.verdict = "ok" /\ Reserve(k, call)
      <4>1. call \in Calls /\ call.stage = "open"
        BY ConstantTypes, CacheAssumption DEF Call, Calls, Stages, Kinds
      <4>2. Reserves(k)
        BY <2>1, <2>3, <3>1, <3>2, <3>3, <4>1 DEF Reserves
      <4>3. QED BY <2>3, <4>2 DEF Effect
    <3>4. CASE UNCHANGED <<inflight, reserved>>
      BY <2>1, <2>3, <3>1, <3>2, <3>4 DEF Effect, EvictsOnly
    <3>5. QED BY <3>1, <3>3, <3>4
  <2>4. QED BY <1>2, <2>2, <2>3 DEF StartPrefetch, PrefetchNext, diskVars
<1>3. ASSUME NEW h \in Handles, Open(h) PROVE Effect
  <2>1. PICK v : /\ v \in ensureIncompleteObject(ObjectOf[h], 0, {}) \/ v.gone = {}
                 /\ Evict(v.gone)
    BY <1>3 DEF Open
  <2>2. v.gone \in SUBSET Unpinned
    BY <2>1, EvictUntilSound DEF ensureIncompleteObject, OfObject
  <2>3. QED BY <1>3, <2>1, <2>2 DEF Open, Effect, EvictsOnly, CopyKept, readVars
<1>4. ASSUME NEW h \in Handles, Close(h) PROVE Effect
  BY <1>4 DEF Close, Effect, Still, CopyKept, readVars, cacheVars, diskVars
<1>5. QED BY <1>1, <1>2, <1>3, <1>4

-----------------------------------------------------------------------------
(* The process.                                                            *)

\* While the process is down nothing can happen but starting it.
LEMMA DownOnlyStarts ==
  ASSUME Down, ~up, Next
  PROVE  \E q \in Quotas : StartProcess(q)
<1>1. ASSUME NEW r \in Readers PROVE ~(ReaderStep(r) \/ AbandonRead(r))
  BY DEF Down, AllIdle, ReaderStep, AbandonRead, BeginRead, AcquireHit, AcquireJoin,
         AcquireMiss, CopyChunk, FinishRead, ReadAhead
<1>2. ASSUME NEW k \in Keys PROVE ~FetchStep(k)
  BY DEF Down, NoCalls, NoCall, FetchStep, FetchOpen, FetchBody, FetchPublish
<1>3. ASSUME NEW o \in Objects PROVE ~(StartPrefetch(o) \/ PrefetchNext(o))
  BY DEF Down, NoPrefetch, StartPrefetch, PrefetchNext
<1>4. ASSUME NEW h \in Handles PROVE handle[h].status = "new"
  BY DEF Down, NoHandles, NewHandle
<1>5. ASSUME NEW h \in Handles PROVE ~(Open(h) \/ Close(h))
  BY <1>4 DEF Open, Close
<1>6. ASSUME NEW r \in Readers, NEW h \in Handles, NEW rg \in Reads
      PROVE  ~StartRead(r, h, rg[1], rg[2])
  BY <1>4 DEF StartRead
<1>7. ~Crash
  BY DEF Crash
<1>8. QED BY <1>1, <1>2, <1>3, <1>5, <1>6, <1>7 DEF Next

\* Starting the process: recovery indexes what is left on disk and counts it.
LEMMA StartEffect ==
  ASSUME TypeOK, Down, ~up, NEW q \in Quotas, StartProcess(q)
  PROVE  /\ files' \in SUBSET Keys /\ stray' = {}
         /\ UNCHANGED <<pins, inflight, reserved, handle, pc, rd, prefetch>>
         /\ \/ ~up' /\ Down'
            \/ /\ up' /\ quota' = q /\ chunks' = files' /\ current' = Bytes(files')
               /\ older' \in SUBSET (Keys \X Keys)
               /\ Policy = "rolling" => current' <= q
<1>1. PICK age \in AgeOrders(files) : \E v \in EvictUntil(age, files, RecoveryExcess(q)) :
       /\ files' = files \ v.gone
       /\ IF v.verdict = "ok"
          THEN /\ up' = TRUE
               /\ quota' = q
               /\ chunks' = files \ v.gone
               /\ older' = {p \in age : p[1] \notin v.gone /\ p[2] \notin v.gone}
               /\ current' = Bytes(files) - Bytes(v.gone)
          ELSE UNCHANGED <<up, quota, chunks, older, current>>
  BY DEF StartProcess
<1>2. PICK v \in EvictUntil(age, files, RecoveryExcess(q)) :
       /\ files' = files \ v.gone
       /\ IF v.verdict = "ok"
          THEN /\ up' = TRUE
               /\ quota' = q
               /\ chunks' = files \ v.gone
               /\ older' = {p \in age : p[1] \notin v.gone /\ p[2] \notin v.gone}
               /\ current' = Bytes(files) - Bytes(v.gone)
          ELSE UNCHANGED <<up, quota, chunks, older, current>>
  BY <1>1
<1>3. /\ v.gone \in SUBSET files
      /\ v.verdict = "ok" => Bytes(v.gone) >= RecoveryExcess(q)
  BY EvictUntilSound
<1>4. files \in SUBSET Keys /\ age \in SUBSET (files \X files)
  BY DEF TypeOK, AgeOrders
<1>5. /\ Bytes(files \ v.gone) = Bytes(files) - Bytes(v.gone)
      /\ Bytes(files) \in Nat /\ Bytes(v.gone) \in Nat
  BY <1>3, <1>4, BytesMinus, BytesFinite
<1>6. UNCHANGED <<pins, inflight, reserved, handle, pc, rd, prefetch>> /\ stray' = {}
  BY DEF StartProcess, readVars
<1>7. CASE v.verdict = "ok"
  <2>1. up' /\ quota' = q /\ chunks' = files' /\ current' = Bytes(files')
    BY <1>2, <1>5, <1>7
  <2>2. older' \in SUBSET (Keys \X Keys)
    BY <1>2, <1>4, <1>7
  <2>3. q \in Nat
    BY CacheAssumption
  <2>4. Policy = "rolling" => current' <= q
    BY <1>2, <1>3, <1>5, <1>7, <2>3 DEF RecoveryExcess
  <2>5. QED BY <1>2, <1>4, <1>6, <2>1, <2>2, <2>4
<1>8. CASE v.verdict # "ok"
  <2>1. ~up' /\ Down'
    BY <1>2, <1>6, <1>8 DEF Down
  <2>2. QED BY <1>2, <1>4, <1>6, <2>1
<1>9. QED BY <1>7, <1>8

-----------------------------------------------------------------------------
(* The inductive invariant.                                                *)

\* Only cached chunks are pinned.
PinnedCached == \A k \in Keys : pins[k] > 0 => k \in chunks

\* The quota bounds what the counters say.
QuotaLedger == up /\ Policy = "rolling" => current + reserved <= quota

CacheInv ==
  /\ TypeOK
  /\ LedgerExact
  /\ QuotaLedger
  /\ PinsMatchReaders
  /\ PinnedCached
  /\ SingleFlight
  /\ RenamedOnDisk
  /\ ~up => Down

\* The readers that copy a chunk are finitely many.
LEMMA CopyingFinite ==
  ASSUME NEW k
  PROVE  IsFiniteSet(CopyingAt(k)) /\ Cardinality(CopyingAt(k)) \in Nat
BY CacheAssumption, FS_Subset, FS_CardinalityType DEF CopyingAt

\* A reader that copies a chunk has it pinned, so the chunk is cached.
LEMMA CopyingPinned ==
  ASSUME TypeOK, PinsMatchReaders, NEW r \in Readers, pc[r] = "copy"
  PROVE  CurrentKey(r) \in Keys /\ pins[CurrentKey(r)] > 0
<1>1. CurrentKey(r) \in Keys
  BY ReadPosition DEF TypeOK, ReadInBounds
<1>2. r \in CopyingAt(CurrentKey(r))
  BY DEF CopyingAt
<1>3. /\ IsFiniteSet(CopyingAt(CurrentKey(r))) /\ Cardinality(CopyingAt(CurrentKey(r))) \in Nat
  BY CopyingFinite
<1>4. Cardinality(CopyingAt(CurrentKey(r))) # 0
  BY <1>2, <1>3, FS_EmptySet
<1>5. pins[CurrentKey(r)] = Cardinality(CopyingAt(CurrentKey(r)))
  BY <1>1 DEF PinsMatchReaders
<1>6. QED BY <1>1, <1>3, <1>4, <1>5

\* Which readers copy which chunk does not change when CopyKept holds.
LEMMA CopyingKept ==
  ASSUME CopyKept, NEW k
  PROVE  CopyingAt(k)' = CopyingAt(k)
BY DEF CopyKept, CopyingAt, CurrentKey, Object

\* How the set of fetches in flight changes.
LEMMA InFlightSteps ==
  ASSUME TypeOK, NEW k \in Keys
  PROVE  /\ \A call \in Calls : inflight' = [inflight EXCEPT ![k] = call] /\ call.stage # "none"
                => InFlight' = InFlight \cup {k}
         /\ inflight' = [inflight EXCEPT ![k] = NoCall] => InFlight' = InFlight \ {k}
BY DEF TypeOK, InFlight, NoCall

\* Evicting unpinned chunks keeps the counter exact and spares pinned chunks.
LEMMA EvictLedger ==
  ASSUME CacheInv, NEW E \in SUBSET Unpinned, Evict(E)
  PROVE  /\ current' = Bytes(chunks')
         /\ current' = current - Bytes(E) /\ current' <= current
         /\ chunks' = chunks \ E /\ files' = files \ E
         /\ \A k \in Keys : pins[k] > 0 => k \in chunks'
         /\ chunks' \subseteq files'
<1>1. E \in SUBSET chunks /\ chunks \in SUBSET Keys
  BY DEF Unpinned, CacheInv, TypeOK
<1>2. Bytes(chunks \ E) = Bytes(chunks) - Bytes(E) /\ Bytes(E) \in Nat /\ Bytes(chunks) \in Nat
  BY <1>1, BytesMinus, BytesFinite
<1>3. chunks' = chunks \ E /\ files' = files \ E /\ current' = current - Bytes(E)
  BY DEF Evict
<1>4. current' = Bytes(chunks') /\ current' <= current
  BY <1>2, <1>3 DEF CacheInv, LedgerExact
<1>5. \A k \in Keys : pins[k] > 0 => k \in chunks'
  BY <1>3 DEF CacheInv, PinnedCached, Unpinned
<1>6. chunks' \subseteq files'
  BY <1>3 DEF CacheInv, SingleFlight
<1>7. QED BY <1>3, <1>4, <1>5, <1>6

\* What the steps of a running process preserve besides the types.
IndexInv ==
  /\ LedgerExact
  /\ QuotaLedger
  /\ PinsMatchReaders
  /\ PinnedCached
  /\ SingleFlight
  /\ RenamedOnDisk

\* The effects that leave the readers' pins alone preserve the invariant.
LEMMA EffectKeepsIndex ==
  ASSUME CacheInv, CopyKept, TypeOK', UNCHANGED <<up, quota>>,
         \/ Still
         \/ EvictsOnly
         \/ \E k \in Keys : Reserves(k) \/ Advances(k) \/ Finishes(k)
  PROVE  IndexInv'
<1>1. /\ TypeOK /\ LedgerExact /\ QuotaLedger /\ PinsMatchReaders /\ PinnedCached
      /\ SingleFlight /\ RenamedOnDisk
  BY DEF CacheInv
<1>a. \A k : CopyingAt(k)' = CopyingAt(k)
  BY CopyingKept
<1>b. pins' = pins => PinsMatchReaders'
  BY <1>1, <1>a DEF PinsMatchReaders
<1>c. /\ chunks \in SUBSET Keys /\ InFlight \in SUBSET Keys /\ files \in SUBSET Keys
      /\ current \in Int /\ reserved \in Int /\ quota \in Nat
  BY <1>1 DEF TypeOK, InFlight
<1>d. Bytes(chunks) \in Nat /\ Bytes(InFlight) \in Nat
  BY <1>c, BytesFinite
<1>2. CASE Still
  <2>1. InFlight' = InFlight
    BY <1>2 DEF Still, InFlight
  <2>2. QED BY <1>1, <1>2, <1>b, <2>1
          DEF Still, IndexInv, LedgerExact, QuotaLedger, PinnedCached, SingleFlight, RenamedOnDisk
<1>3. CASE EvictsOnly
  <2>1. InFlight' = InFlight
    BY <1>3 DEF EvictsOnly, InFlight
  <2>2. PICK E \in SUBSET Unpinned : Evict(E)
    BY <1>3 DEF EvictsOnly
  <2>3. /\ current' = Bytes(chunks')
        /\ current' = current - Bytes(E) /\ current' <= current
        /\ chunks' = chunks \ E /\ files' = files \ E
        /\ \A k \in Keys : pins[k] > 0 => k \in chunks'
        /\ chunks' \subseteq files'
    BY <2>2, EvictLedger
  <2>4. UNCHANGED <<pins, inflight, reserved>>
    BY <1>3 DEF EvictsOnly
  <2>5. LedgerExact' /\ QuotaLedger'
    <3>1. current' \in Int
      BY DEF TypeOK
    <3>2. QED BY <1>1, <1>c, <2>1, <2>3, <2>4, <3>1 DEF LedgerExact, QuotaLedger
  <2>6. PinnedCached' /\ SingleFlight'
    BY <1>1, <2>1, <2>3, <2>4 DEF PinnedCached, SingleFlight
  <2>7. RenamedOnDisk'
    <3>1. ASSUME NEW j \in Keys, inflight[j].stage = "renamed" PROVE j \in files \ E
      <4>1. j \in InFlight /\ j \in files
        BY <1>1, <3>1 DEF RenamedOnDisk, InFlight
      <4>2. E \in SUBSET chunks
        BY DEF Unpinned
      <4>3. QED BY <1>1, <4>1, <4>2 DEF SingleFlight
    <3>2. QED BY <2>3, <2>4, <3>1 DEF RenamedOnDisk
  <2>8. QED BY <1>b, <2>4, <2>5, <2>6, <2>7 DEF IndexInv
<1>4. ASSUME NEW k \in Keys, Reserves(k) PROVE IndexInv'
  <2>1. PICK E \in SUBSET Unpinned : Evict(E) /\ MakesRoom(E, k)
    BY <1>4 DEF Reserves
  <2>2. PICK call \in Calls : call.stage = "open" /\ Reserve(k, call)
    BY <1>4 DEF Reserves
  <2>3. /\ current' = Bytes(chunks')
        /\ current' = current - Bytes(E) /\ current' <= current
        /\ chunks' = chunks \ E /\ files' = files \ E
        /\ \A j \in Keys : pins[j] > 0 => j \in chunks'
        /\ chunks' \subseteq files'
    BY <2>1, EvictLedger
  <2>4. InFlight' = InFlight \cup {k}
    BY <1>1, <2>2, InFlightSteps DEF Reserve
  <2>5. k \notin InFlight /\ k \notin chunks
    BY <1>4 DEF Reserves, Present
  <2>6. Bytes(InFlight') = Bytes(InFlight) + Length(k) /\ Length(k) \in Nat
    <3>1. Bytes(InFlight \cup {k}) = Bytes(InFlight) + Bytes({k})
      BY <1>c, <2>5, BytesUnion
    <3>2. Bytes({k}) = Length(k) /\ Length(k) \in Nat
      BY BytesOne, LengthType, CacheAssumption
    <3>3. QED BY <2>4, <3>1, <3>2
  <2>7. reserved' = reserved + Length(k)
    BY <2>2 DEF Reserve
  <2>8. LedgerExact'
    BY <1>1, <2>3, <2>6, <2>7 DEF LedgerExact
  <2>9. QuotaLedger'
    <3>1. current' \in Int
      BY DEF TypeOK
    <3>2. Policy = "rolling" => current' + reserved + Length(k) <= quota
      BY <2>1, <2>3 DEF MakesRoom
    <3>3. QED BY <1>c, <2>6, <2>7, <3>1, <3>2 DEF QuotaLedger
  <2>10. pins' = pins
    BY <1>4 DEF Reserves
  <2>11. PinnedCached' /\ SingleFlight'
    BY <1>1, <2>3, <2>4, <2>5, <2>10 DEF PinnedCached, SingleFlight
  <2>12. RenamedOnDisk'
    <3>1. ASSUME NEW j \in Keys, inflight'[j].stage = "renamed" PROVE j \in files \ E
      <4>1. inflight[j].stage = "renamed"
        BY <1>1, <2>2, <3>1 DEF Reserve, TypeOK
      <4>2. j \in InFlight /\ j \in files
        BY <1>1, <4>1 DEF RenamedOnDisk, InFlight
      <4>3. E \in SUBSET chunks
        BY DEF Unpinned
      <4>4. QED BY <1>1, <4>2, <4>3 DEF SingleFlight
    <3>2. QED BY <2>3, <3>1 DEF RenamedOnDisk
  <2>13. QED BY <1>b, <2>8, <2>9, <2>10, <2>11, <2>12 DEF IndexInv
<1>5. ASSUME NEW k \in Keys, Advances(k) PROVE IndexInv'
  <2>1. PICK call \in Calls :
          /\ call.stage # "none" /\ (call.stage = "renamed" => k \in files')
          /\ inflight' = [inflight EXCEPT ![k] = call]
    BY <1>5 DEF Advances
  <2>2. /\ k \in InFlight /\ files \ {k} \subseteq files'
        /\ UNCHANGED <<chunks, pins, current, reserved>>
    BY <1>5 DEF Advances
  <2>3. InFlight' = InFlight
    <3>1. InFlight' = InFlight \cup {k}
      BY <1>1, <2>1, InFlightSteps
    <3>2. QED BY <2>2, <3>1
  <2>4. LedgerExact' /\ QuotaLedger' /\ PinnedCached'
    BY <1>1, <2>2, <2>3 DEF LedgerExact, QuotaLedger, PinnedCached
  <2>5. SingleFlight'
    BY <1>1, <2>2, <2>3 DEF SingleFlight
  <2>6. RenamedOnDisk'
    BY <1>1, <2>1, <2>2 DEF RenamedOnDisk, TypeOK
  <2>7. QED BY <1>b, <2>2, <2>4, <2>5, <2>6 DEF IndexInv
<1>6. ASSUME NEW k \in Keys, Finishes(k) PROVE IndexInv'
  <2>1. PICK published \in BOOLEAN, verdict \in {"ok", "error", "canceled"} :
          FetchDone(k, published, verdict) /\ (published => k \in files /\ files' = files)
    BY <1>6 DEF Finishes
  <2>2. k \in InFlight /\ files \ {k} \subseteq files'
    BY <1>6 DEF Finishes
  <2>3. InFlight' = InFlight \ {k} /\ inflight' = [inflight EXCEPT ![k] = NoCall]
    BY <1>1, <2>1, InFlightSteps DEF FetchDone
  <2>4. Bytes({k}) = Length(k) /\ Length(k) \in Nat
    BY BytesOne, LengthType, CacheAssumption
  <2>5. Bytes(InFlight') = Bytes(InFlight) - Length(k)
    BY <1>c, <2>2, <2>3, <2>4, BytesMinus
  <2>6. reserved' = reserved - Length(k)
    BY <2>1 DEF FetchDone
  <2>7. k \notin chunks
    BY <1>1, <2>2 DEF SingleFlight
  <2>8. RenamedOnDisk'
    BY <1>1, <2>2, <2>3 DEF RenamedOnDisk, TypeOK, NoCall
  <2>9. CASE published
    <3>1. /\ chunks' = chunks \cup {k} /\ current' = current + Length(k)
          /\ pins' = [pins EXCEPT ![k] = 0] /\ files' = files /\ k \in files
      BY <2>1, <2>9 DEF FetchDone
    <3>2. Bytes(chunks \cup {k}) = Bytes(chunks) + Bytes({k})
      BY <1>c, <2>7, BytesUnion
    <3>3. LedgerExact'
      BY <1>1, <2>4, <2>5, <2>6, <3>1, <3>2 DEF LedgerExact
    <3>4. QuotaLedger'
      BY <1>1, <1>c, <2>4, <2>6, <3>1 DEF QuotaLedger
    <3>5. pins' = pins
      <4>1. pins[k] \in Nat /\ ~(pins[k] > 0)
        BY <1>1, <2>7 DEF PinnedCached, TypeOK
      <4>2. pins[k] = 0
        BY <4>1
      <4>3. QED BY <1>1, <3>1, <4>2 DEF TypeOK
    <3>6. PinnedCached' /\ SingleFlight'
      BY <1>1, <2>3, <2>7, <3>1, <3>5 DEF PinnedCached, SingleFlight
    <3>7. QED BY <1>b, <2>8, <3>3, <3>4, <3>5, <3>6 DEF IndexInv
  <2>10. CASE ~published
    <3>1. UNCHANGED <<chunks, current, pins>>
      BY <2>1, <2>10 DEF FetchDone
    <3>2. LedgerExact'
      BY <1>1, <2>5, <2>6, <3>1 DEF LedgerExact
    <3>3. QuotaLedger'
      BY <1>1, <1>c, <2>4, <2>6, <3>1 DEF QuotaLedger
    <3>4. PinnedCached' /\ SingleFlight'
      BY <1>1, <2>2, <2>3, <2>7, <3>1 DEF PinnedCached, SingleFlight
    <3>5. QED BY <1>b, <2>8, <3>1, <3>2, <3>3, <3>4 DEF IndexInv
  <2>11. QED BY <2>9, <2>10
<1>7. QED BY <1>2, <1>3, <1>4, <1>5, <1>6

\* A reader that finds its chunk pins it.
LEMMA HitKeepsIndex ==
  ASSUME CacheInv, NEW r \in Readers, AcquireHit(r)
  PROVE  IndexInv'
<1>1. /\ TypeOK /\ LedgerExact /\ QuotaLedger /\ PinsMatchReaders /\ PinnedCached
      /\ SingleFlight /\ RenamedOnDisk
  BY DEF CacheInv
<1>k. PICK k \in Keys : k = CurrentKey(r)
  BY <1>1 DEF AcquireHit, TypeOK
<1>2. /\ pc[r] = "acquire" /\ k \in chunks /\ pins' = [pins EXCEPT ![k] = @ + 1]
      /\ pc' = [pc EXCEPT ![r] = "copy"] /\ rd' = rd
      /\ UNCHANGED <<up, quota, chunks, inflight, current, reserved, files>>
  BY <1>k DEF AcquireHit, diskVars
<1>3. k \in Keys /\ pins \in [Keys -> Nat] /\ pc \in [Readers -> PCs]
  BY <1>1, <1>2 DEF TypeOK
<1>4. InFlight' = InFlight
  BY <1>2 DEF InFlight
<1>5. LedgerExact' /\ QuotaLedger' /\ SingleFlight' /\ RenamedOnDisk'
  BY <1>1, <1>2, <1>4 DEF LedgerExact, QuotaLedger, SingleFlight, RenamedOnDisk
<1>6. PinnedCached'
  BY <1>1, <1>2, <1>3 DEF PinnedCached
<1>7. CopyingAt(k)' = CopyingAt(k) \cup {r} /\ r \notin CopyingAt(k)
  BY <1>k, <1>2, <1>3 DEF CopyingAt, CurrentKey, Object
<1>8. \A j \in Keys \ {k} : CopyingAt(j)' = CopyingAt(j)
  BY <1>k, <1>2, <1>3 DEF CopyingAt, CurrentKey, Object
<1>9. Cardinality(CopyingAt(k) \cup {r}) = Cardinality(CopyingAt(k)) + 1
  BY <1>7, CopyingFinite, FS_AddElement
<1>10. ASSUME NEW j \in Keys PROVE pins'[j] = Cardinality(CopyingAt(j)')
  <2>1. CASE j = k
    BY <1>1, <1>2, <1>3, <1>7, <1>9, <2>1 DEF PinsMatchReaders
  <2>2. CASE j # k
    BY <1>1, <1>2, <1>3, <1>8, <2>2 DEF PinsMatchReaders
  <2>3. QED BY <2>1, <2>2
<1>11. QED BY <1>5, <1>6, <1>10 DEF IndexInv, PinsMatchReaders

\* A reader that has copied its chunk drops its pin.
LEMMA CopyKeepsIndex ==
  ASSUME CacheInv, NEW r \in Readers, CopyChunk(r)
  PROVE  IndexInv'
<1>1. /\ TypeOK /\ LedgerExact /\ QuotaLedger /\ PinsMatchReaders /\ PinnedCached
      /\ SingleFlight /\ RenamedOnDisk
  BY DEF CacheInv
<1>k. PICK k \in Keys : k = CurrentKey(r)
  BY <1>1, CopyingPinned DEF CopyChunk
<1>2. /\ pc[r] = "copy" /\ pins' = [pins EXCEPT ![k] = @ - 1]
      /\ UNCHANGED <<up, quota, chunks, inflight, current, reserved, files>>
  BY <1>k DEF CopyChunk, releaseChunk, diskVars
<1>3. k \in Keys /\ pins[k] > 0 /\ pins \in [Keys -> Nat] /\ pc \in [Readers -> PCs]
  BY <1>k, <1>1, <1>2, CopyingPinned DEF TypeOK
<1>4. InFlight' = InFlight
  BY <1>2 DEF InFlight
<1>5. LedgerExact' /\ QuotaLedger' /\ SingleFlight' /\ RenamedOnDisk'
  BY <1>1, <1>2, <1>4 DEF LedgerExact, QuotaLedger, SingleFlight, RenamedOnDisk
<1>6. PinnedCached'
  BY <1>1, <1>2, <1>3 DEF PinnedCached
<1>7. /\ pc'[r] # "copy"
      /\ \A q \in Readers \ {r} : (pc'[q] = "copy" <=> pc[q] = "copy") /\ rd'[q] = rd[q]
  BY <1>1 DEF CopyChunk, Signalled, TypeOK
<1>8. CopyingAt(k)' = CopyingAt(k) \ {r} /\ r \in CopyingAt(k)
  BY <1>k, <1>2, <1>7 DEF CopyingAt, CurrentKey, Object
<1>9. \A j \in Keys \ {k} : CopyingAt(j)' = CopyingAt(j)
  BY <1>k, <1>7 DEF CopyingAt, CurrentKey, Object
<1>10. Cardinality(CopyingAt(k) \ {r}) = Cardinality(CopyingAt(k)) - 1
  BY <1>8, CopyingFinite, FS_RemoveElement
<1>11. ASSUME NEW j \in Keys PROVE pins'[j] = Cardinality(CopyingAt(j)')
  <2>1. CASE j = k
    BY <1>1, <1>2, <1>3, <1>8, <1>10, <2>1 DEF PinsMatchReaders
  <2>2. CASE j # k
    BY <1>1, <1>2, <1>3, <1>9, <2>2 DEF PinsMatchReaders
  <2>3. QED BY <2>1, <2>2
<1>12. QED BY <1>5, <1>6, <1>11 DEF IndexInv, PinsMatchReaders

\* A process that is not running satisfies the invariant whatever is on disk.
LEMMA DownInv ==
  Down /\ ~up /\ up \in BOOLEAN /\ files \in SUBSET Keys /\ stray \in SUBSET Keys
    => CacheInv
<1> SUFFICES ASSUME Down, ~up, up \in BOOLEAN, files \in SUBSET Keys, stray \in SUBSET Keys
             PROVE  CacheInv
  OBVIOUS
<1>1. TypeOK
  BY DownType
<1>2. InFlight = {} /\ \A k \in Keys : inflight[k].stage = "none" /\ pins[k] = 0
  BY DEF Down, InFlight, NoCalls, NoCall, NoPins
<1>3. LedgerExact
  BY <1>2, BytesOne DEF LedgerExact, Down
<1>4. \A k : CopyingAt(k) = {}
  BY DEF CopyingAt, Down, AllIdle
<1>5. PinsMatchReaders
  BY <1>2, <1>4, FS_EmptySet DEF PinsMatchReaders
<1>6. QED BY <1>1, <1>2, <1>3, <1>5
        DEF CacheInv, QuotaLedger, PinnedCached, SingleFlight, RenamedOnDisk, Down

\* The same after a step.
LEMMA DownInvNext ==
  ASSUME Down', ~up', up' \in BOOLEAN, files' \in SUBSET Keys, stray' \in SUBSET Keys
  PROVE  CacheInv'
<1>1. (Down /\ ~up /\ up \in BOOLEAN /\ files \in SUBSET Keys /\ stray \in SUBSET Keys => CacheInv)'
  BY DownInv, PTL
<1>2. QED BY <1>1

\* The invariant holds initially.
LEMMA CacheInvInit == Init => CacheInv
<1> SUFFICES ASSUME Init PROVE CacheInv
  OBVIOUS
<1>1. Down /\ ~up /\ up \in BOOLEAN /\ files \in SUBSET Keys /\ stray \in SUBSET Keys
  BY DEF Init, Down
<1>2. QED BY <1>1, DownInv

\* Every step preserves the types.
LEMMA TypeStep ==
  ASSUME CacheInv, Next
  PROVE  TypeOK'
<1>1. TypeOK /\ PinsHeld
  BY CopyingPinned DEF CacheInv, PinsHeld
<1>2. ASSUME NEW r \in Readers, ReaderStep(r) \/ AbandonRead(r) PROVE TypeOK'
  BY <1>1, <1>2, ReaderStepType
<1>3. ASSUME NEW r \in Readers, NEW h \in Handles, NEW rg \in Reads, StartRead(r, h, rg[1], rg[2])
      PROVE  TypeOK'
  BY <1>1, <1>3, StartReadType
<1>4. ASSUME NEW k \in Keys, FetchStep(k) PROVE TypeOK'
  BY <1>1, <1>4, FetchStepType
<1>5. ASSUME NEW o \in Objects, StartPrefetch(o) \/ PrefetchNext(o) PROVE TypeOK'
  BY <1>1, <1>5, PrefetchType
<1>6. ASSUME NEW h \in Handles, Open(h) \/ Close(h) PROVE TypeOK'
  BY <1>1, <1>6, HandleType
<1>7. CASE Crash
  <2>1. Down' /\ up' \in BOOLEAN
    BY <1>7 DEF Crash, Down, NoPins, NoCalls, NoHandles, AllIdle, NoReads, NoPrefetch
  <2>2. files' \in SUBSET Keys /\ stray' \in SUBSET Keys
    BY <1>1, <1>7 DEF Crash, TypeOK
  <2>3. QED BY <1>7, <2>1, <2>2, DownInvNext DEF Crash, CacheInv
<1>8. ASSUME NEW q \in Quotas, StartProcess(q) PROVE TypeOK'
  <2>1. ~up /\ Down
    BY <1>8 DEF StartProcess, CacheInv
  <2>2. /\ files' \in SUBSET Keys /\ stray' = {}
        /\ UNCHANGED <<pins, inflight, reserved, handle, pc, rd, prefetch>>
        /\ \/ ~up' /\ Down'
           \/ /\ up' /\ quota' = q /\ chunks' = files' /\ current' = Bytes(files')
              /\ older' \in SUBSET (Keys \X Keys)
              /\ Policy = "rolling" => current' <= q
    BY <1>1, <1>8, <2>1, StartEffect
  <2>3. up' \in BOOLEAN
    BY <1>1, <1>8 DEF StartProcess, TypeOK
  <2>4. CASE ~up' /\ Down'
    BY <2>2, <2>3, <2>4, DownInvNext DEF CacheInv
  <2>5. CASE /\ up' /\ quota' = q /\ chunks' = files' /\ current' = Bytes(files')
             /\ older' \in SUBSET (Keys \X Keys)
    <3>1. current' \in Int /\ quota' \in Nat
      BY <2>2, <2>5, BytesFinite, CacheAssumption
    <3>2. IndexType' /\ OtherType' /\ ReaderType'
      BY <1>1, <2>2, <2>3, <2>5, <3>1
        DEF IndexType, OtherType, ReaderType, TypeOK, ReadInBounds, Object
    <3>3. QED BY <3>2, TypeParts
  <2>6. QED BY <2>2, <2>4, <2>5
<1>9. QED BY <1>2, <1>3, <1>4, <1>5, <1>6, <1>7, <1>8 DEF Next

\* Every step of a running process that does not die has one of the effects.
LEMMA RunningEffect ==
  ASSUME CacheInv, Next, up, ~Crash
  PROVE  Effect /\ UNCHANGED <<up, quota>>
<1>1. TypeOK /\ RenamedOnDisk
  BY DEF CacheInv
<1>2. \A r \in Readers : ReaderStep(r) \/ AbandonRead(r) => Effect
  BY <1>1, ReaderEffect
<1>3. \A k \in Keys : FetchStep(k) => Effect
  BY <1>1, FetchEffect DEF Effect
<1>4. \/ \E r \in Readers, h \in Handles, rg \in Reads : StartRead(r, h, rg[1], rg[2])
      \/ \E o \in Objects : StartPrefetch(o) \/ PrefetchNext(o)
      \/ \E h \in Handles : Open(h) \/ Close(h)
      => Effect
  BY <1>1, OtherEffect
<1>5. \A q \in Quotas : ~StartProcess(q)
  BY DEF StartProcess
<1>6. Effect
  BY <1>2, <1>3, <1>4, <1>5 DEF Next
<1>7. UNCHANGED <<up, quota>>
  BY <1>5 DEF Next, ReaderStep, FetchStep, BeginRead, AcquireHit, AcquireJoin,
       AcquireMiss, CopyChunk, FinishRead, ReadAhead, AbandonRead, StartRead, FetchOpen,
       FetchBody, FetchPublish, StartPrefetch, PrefetchNext, Open, Close
<1>8. QED BY <1>6, <1>7

\* Every step preserves the invariant.
LEMMA CacheInvStep ==
  CacheInv /\ [Next]_vars => CacheInv'
<1> SUFFICES ASSUME CacheInv, [Next]_vars PROVE CacheInv'
  OBVIOUS
<1>1. TypeOK /\ RenamedOnDisk
  BY DEF CacheInv
<1>2. CASE UNCHANGED vars
  <2>1. InFlight' = InFlight /\ \A k : CopyingAt(k)' = CopyingAt(k)
    BY <1>2 DEF vars, cacheVars, diskVars, readVars, InFlight, CopyingAt, CurrentKey, Object
  <2>2. TypeOK'
    BY <1>1, <1>2 DEF vars, cacheVars, diskVars, readVars, TypeOK, ReadInBounds, Object
  <2>3. Down => Down'
    BY <1>2 DEF vars, cacheVars, diskVars, readVars, Down
  <2>4. QED BY <1>2, <2>1, <2>2, <2>3
          DEF CacheInv, vars, cacheVars, diskVars, readVars, LedgerExact, QuotaLedger,
              PinsMatchReaders, PinnedCached, SingleFlight, RenamedOnDisk
<1>3. CASE Next /\ ~up
  <2>1. Down
    BY <1>3 DEF CacheInv
  <2>2. PICK q \in Quotas : StartProcess(q)
    BY <1>3, <2>1, DownOnlyStarts
  <2>3. /\ files' \in SUBSET Keys /\ stray' = {}
        /\ UNCHANGED <<pins, inflight, reserved, handle, pc, rd, prefetch>>
        /\ \/ ~up' /\ Down'
           \/ /\ up' /\ quota' = q /\ chunks' = files' /\ current' = Bytes(files')
              /\ older' \in SUBSET (Keys \X Keys)
              /\ Policy = "rolling" => current' <= q
    BY <1>1, <1>3, <2>1, <2>2, StartEffect
  <2>4. TypeOK'
    BY <1>3, TypeStep
  <2>5. CASE ~up' /\ Down'
    BY <2>4, <2>5, DownInvNext DEF TypeOK
  <2>6. CASE /\ up' /\ quota' = q /\ chunks' = files' /\ current' = Bytes(files')
             /\ Policy = "rolling" => current' <= q
    <3>1. InFlight' = InFlight /\ InFlight = {} /\ reserved = 0
          /\ \A k \in Keys : pins[k] = 0 /\ inflight[k].stage = "none"
      BY <2>1, <2>3 DEF InFlight, Down, NoCalls, NoCall, NoPins
    <3>2. \A k : CopyingAt(k)' = CopyingAt(k)
      BY <2>3 DEF CopyingAt, CurrentKey, Object
    <3>3. LedgerExact'
      BY <2>3, <2>6, <3>1, BytesOne DEF LedgerExact
    <3>4. QuotaLedger'
      <4>1. current' \in Int /\ quota' \in Nat
        BY <2>4 DEF TypeOK
      <4>2. QED BY <2>3, <2>6, <3>1, <4>1 DEF QuotaLedger
    <3>5. PinsMatchReaders'
      BY <2>3, <3>2 DEF CacheInv, PinsMatchReaders
    <3>6. PinnedCached' /\ SingleFlight' /\ RenamedOnDisk'
      BY <2>3, <2>6, <3>1 DEF PinnedCached, SingleFlight, RenamedOnDisk
    <3>7. QED BY <2>4, <2>6, <3>3, <3>4, <3>5, <3>6 DEF CacheInv
  <2>7. QED BY <2>3, <2>5, <2>6
<1>4. CASE Crash
  <2>1. Down' /\ ~up'
    BY <1>4 DEF Crash, Down, NoPins, NoCalls, NoHandles, AllIdle, NoReads, NoPrefetch
  <2>2. TypeOK'
    BY <1>4, TypeStep DEF Next
  <2>3. QED BY <2>1, <2>2, DownInvNext DEF TypeOK
<1>5. CASE Next /\ up /\ ~Crash
  <2>1. TypeOK'
    BY <1>5, TypeStep
  <2>2. Effect /\ UNCHANGED <<up, quota>>
    BY <1>5, RunningEffect
  <2>3. IndexInv'
    <3>1. CASE \/ Still
               \/ EvictsOnly
               \/ \E k \in Keys : Reserves(k) \/ Advances(k) \/ Finishes(k)
      <4>1. CopyKept
        BY <3>1 DEF Still, EvictsOnly, Reserves, Advances, Finishes
      <4>2. QED BY <2>1, <2>2, <3>1, <4>1, EffectKeepsIndex
    <3>2. CASE \E r \in Readers : AcquireHit(r) \/ CopyChunk(r)
      BY <3>2, HitKeepsIndex, CopyKeepsIndex
    <3>3. QED BY <2>2, <3>1, <3>2 DEF Effect
  <2>4. QED BY <1>5, <2>1, <2>2, <2>3 DEF CacheInv, IndexInv
<1>6. QED BY <1>2, <1>3, <1>4, <1>5

-----------------------------------------------------------------------------
(* Theorems.                                                               *)

\* The inductive invariant holds in every reachable state.
THEOREM CacheInvariant == Spec => []CacheInv
BY CacheInvInit, CacheInvStep, PTL DEF Spec

\* Type correctness, and every read within its request and its object.
THEOREM TypeCorrect == Spec => []TypeOK
<1>1. CacheInv => TypeOK
  BY DEF CacheInv
<1>2. QED BY CacheInvariant, <1>1, PTL

\* The ledger of rolling.go (currentBytes, reservedBytes) is exact for any number of
\* readers, handles and objects, through evictions, failures, crashes and restarts.
THEOREM LedgerCorrect == Spec => []LedgerExact
<1>1. CacheInv => LedgerExact
  BY DEF CacheInv
<1>2. QED BY CacheInvariant, <1>1, PTL

\* Rolling mode never exceeds options.MaxBytes with published and reserved bytes.
THEOREM QuotaHolds == Spec => []QuotaRespected
<1>1. CacheInv => QuotaRespected
  BY DEF CacheInv, QuotaLedger, LedgerExact, QuotaRespected
<1>2. QED BY CacheInvariant, <1>1, PTL

\* No eviction removes a chunk under a reader that is copying it.
THEOREM CopiesAreSafe == Spec => []PinnedChunkReadable
<1>1. CacheInv => PinnedChunkReadable
  BY CopyingPinned DEF CacheInv, PinnedCached, SingleFlight, PinnedChunkReadable
<1>2. QED BY CacheInvariant, <1>1, PTL

\* Pins are neither leaked nor dropped twice.
THEOREM PinsCorrect == Spec => []PinsMatchReaders
<1>1. CacheInv => PinsMatchReaders
  BY DEF CacheInv
<1>2. QED BY CacheInvariant, <1>1, PTL

\* A cached chunk is never fetched again and always has its file.
THEOREM FlightsAreSingle == Spec => []SingleFlight
<1>1. CacheInv => SingleFlight
  BY DEF CacheInv
<1>2. QED BY CacheInvariant, <1>1, PTL
=============================================================================
