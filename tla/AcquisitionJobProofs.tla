------------------------ MODULE AcquisitionJobProofs ------------------------
(***************************************************************************)
(* Proofs about AcquisitionJob for every set of jobs, intents, torrents,   *)
(* ranges and workers, whatever the searches find and the user does in the *)
(* account: the lease protects the row, the row follows its plan, and what *)
(* a job made in the account is made once and cleaned up before the job    *)
(* moves on.                                                               *)
(***************************************************************************)
EXTENDS AcquisitionJob, WellFoundedInduction, TLAPS

Settled == {"stalled", "missing", "unplayable"}

\* The rows of the table, and the workers.
Row == [state : Active \cup Terminal \cup {"absent"}, plan : Seq(Selections),
        outcome : Seq(Outcomes), ord : Nat, obj : AnyObject, owned : BOOLEAN]

Work == [pc : Commits \cup Calls \cup {"idle"}, id : Jobs \cup {"none"}, seen : Row,
         plan : Seq(Selections), obj : AnyObject, owned : BOOLEAN, outcome : Outcomes,
         late : BOOLEAN]

TypeInv ==
  /\ job \in [Jobs -> Row]
  /\ lease \in [Jobs -> Workers \cup {Free, Orphan}]
  /\ due \in [Jobs -> BOOLEAN]
  /\ account \subseteq Objects
  /\ made \in [Hashes -> 0 .. MaxObjects]
  /\ published \in [Jobs -> SUBSET AnyObject]
  /\ work \in [Workers -> Work]

\* A row that a job can have: its plan is followed in order, its object fits its stage, and
\* exactly the stages after planning have a plan and a selected candidate.
GoodRow(row) ==
  /\ row \in Row /\ RowOK(row) /\ InOrder(row) /\ FitsStage(row)
  /\ row.state \in {"absent", "queued"} => row.plan = <<>> /\ row.ord = 0
  /\ row.state = "absent" => ~ row.owned
  /\ row.state \in {"selected", "preparing"} => row.ord > 0

RowsInv == \A j \in Jobs : GoodRow(job[j])

\* Which stage each place of the worker belongs to, which kind of candidate it is for, and
\* where it may be once its lease may have run out.
OfQueued == {"resolve", "plan", "fail"}
OfSelected == {"find", "create", "reconcile", "range_prepare", "attach"}
OfPreparing == {"inspect", "range_inspect", "delete", "publish", "succeed"}
OfTorrent == {"find", "create", "reconcile", "inspect"}
OfRange == {"range_prepare", "range_inspect"}
Overrun == {"reconcile", "attach", "review", "publish", "succeed", "defer"}

\* What a worker carries along.
GoodWork(r) ==
  /\ GoodRow(r.seen)
  /\ r.pc # "idle" =>
       /\ r.id \in Jobs
       /\ r.seen.state \in Active
       /\ r.pc \in OfQueued => r.seen.state = "queued"
       /\ r.pc \in OfSelected => r.seen.state = "selected"
       /\ r.pc \in OfPreparing => r.seen.state = "preparing"
       /\ r.pc \in OfTorrent => r.seen.plan[r.seen.ord] \in Hashes
       /\ r.pc \in OfRange => r.seen.plan[r.seen.ord] \in Ranges
       /\ r.late => r.pc \in Overrun
       /\ r.pc = "plan" => r.plan # <<>> /\ Len(r.plan) <= MaxCandidates
       /\ r.pc = "attach" =>
            r.obj.of = r.seen.plan[r.seen.ord] /\ (r.owned => r.obj \in Objects)
       /\ r.pc \in {"delete", "advance"} => r.outcome \in Settled
       /\ r.pc = "advance" => r.seen.state # "queued"

WorkInv == \A w \in Workers : GoodWork(work[w])

\* A worker that holds the lease has seen the row as it is; and only where its calls may
\* take longer than the lease can a worker have lost it.
LeaseInv ==
  \A w \in Workers :
    work[w].pc # "idle" =>
      /\ lease[Claimed(w)] = w => job[Claimed(w)] = work[w].seen
      /\ ~ work[w].late => lease[Claimed(w)] = w

\* Objects are numbered, and a number is given once.
Numbered(o) == o \in Objects => o.n <= made[o.of]

NumberInv ==
  /\ \A o \in account : Numbered(o)
  /\ \A w \in Workers : Numbered(work[w].seen.obj) /\ Numbered(work[w].obj)
  /\ \A j \in Jobs : Numbered(job[j].obj)

\* A candidate is given up when the object that the job owns is gone.
GoneInv ==
  \A w \in Workers :
    work[w].pc = "advance" /\ work[w].seen.owned => work[w].seen.obj \notin account

\* An object is created when the job has none of that hash.
FreshInv ==
  \A w \in Workers :
    work[w].pc = "create" =>
      \A o \in account : o.of = Selection(w) /\ o.by = Claimed(w) => o.by = "user"

\* The inductive invariant.
Inv ==
  /\ TypeInv /\ RowsInv /\ WorkInv /\ LeaseInv
  /\ NumberInv /\ GoneInv /\ FreshInv /\ NoDuplicateObject

-----------------------------------------------------------------------------
(* Plans.                                                                  *)

\* Every set of naturals with a member has a least one.
LEMMA LeastNatural ==
  ASSUME NEW T \in SUBSET Nat, T # {}
  PROVE  \E m \in T : \A k \in T : m <= k
<1> DEFINE R == {p \in Nat \X Nat : p[1] < p[2]}
<1>1. R = OpToRel(<, Nat)
  BY DEF OpToRel
<1>2. IsWellFoundedOn(R, Nat)
  BY <1>1, NatLessThanWellFounded
<1>3. PICK m \in T : \A k \in T : ~ (<<k, m>> \in R)
  BY <1>2, WFMin
<1>4. \A k \in T : ~ (k < m)
  BY <1>3
<1>5. QED BY <1>4

\* What partitionCached returns is a sequence of the members of its argument.
LEMMA PartitionType ==
  ASSUME NEW H, NEW s \in Seq(H), NEW S
  PROVE  Partition(s, S) \in Seq(H)
<1> DEFINE At(f, i) == IF i = 0 THEN <<>>
                       ELSE IF s[i] \in S THEN Append(f[i - 1], s[i]) ELSE f[i - 1]
           Upto(f, n) == f \in [0 .. n -> Seq(H)] /\ \A i \in 0 .. n : f[i] = At(f, i)
           Missing == {n \in 0 .. Len(s) : ~ \E f : Upto(f, n)}
<1> Len(s) \in Nat
  OBVIOUS
<1>1. Missing = {}
  <2>1. SUFFICES ASSUME Missing # {} PROVE FALSE
    OBVIOUS
  <2>2. PICK n \in Missing : \A k \in Missing : n <= k
    <3>1. Missing \in SUBSET Nat
      OBVIOUS
    <3> HIDE DEF Missing
    <3>2. QED BY <2>1, <3>1, LeastNatural
  <2>3. n # 0
    <3>1. Upto([i \in 0 .. 0 |-> <<>>], 0)
      OBVIOUS
    <3>2. QED BY <2>2, <3>1
  <2>4. n - 1 \in 0 .. Len(s) /\ n - 1 \notin Missing
    <3>1. n \in 0 .. Len(s)
      BY <2>2
    <3> HIDE DEF Missing
    <3>2. QED BY <2>2, <2>3, <3>1
  <2>5. PICK f : Upto(f, n - 1)
    BY <2>4
  <2>6. n \in 1 .. Len(s) /\ s[n] \in H /\ f[n - 1] \in Seq(H)
    BY <2>2, <2>3, <2>5
  <2> DEFINE g == [i \in 0 .. n |-> IF i = n THEN At(f, n) ELSE f[i]]
  <2>7. At(f, n) \in Seq(H)
    BY <2>6
  <2>8. Upto(g, n)
    <3>1. g \in [0 .. n -> Seq(H)]
      BY <2>5, <2>6, <2>7
    <3>2. ASSUME NEW i \in 0 .. n PROVE g[i] = At(g, i)
      <4>1. CASE i = n
        BY <2>6, <4>1
      <4>2. CASE i # n
        <5>1. i \in 0 .. n - 1 /\ (i # 0 => i - 1 \in 0 .. n - 1 /\ i - 1 # n)
          BY <2>6, <4>2
        <5>2. g[i] = f[i] /\ (i # 0 => g[i - 1] = f[i - 1])
          <6> HIDE DEF At
          <6>1. QED BY <2>6, <4>2, <5>1
        <5>3. f[i] = At(f, i)
          BY <2>5, <5>1
        <5>4. QED BY <5>1, <5>2, <5>3
      <4>3. QED BY <4>1, <4>2
    <3>3. QED BY <3>1, <3>2
  <2>9. QED BY <2>2, <2>8
<1>2. Len(s) \in 0 .. Len(s)
  OBVIOUS
<1>3. PICK f : Upto(f, Len(s))
  BY <1>1, <1>2
<1>4. f = [i \in 0 .. Len(s) |-> At(f, i)]
  BY <1>3
<1> DEFINE upTo == CHOOSE h : h = [i \in 0 .. Len(s) |-> At(h, i)]
           Other == {n \in 0 .. Len(s) : upTo[n] \notin Seq(H)}
<1>5. upTo = [i \in 0 .. Len(s) |-> At(upTo, i)]
  BY <1>4
<1>6. Partition(s, S) = upTo[Len(s)]
  BY DEF Partition
<1> HIDE DEF upTo
<1>7. Other = {}
  <2>1. SUFFICES ASSUME Other # {} PROVE FALSE
    OBVIOUS
  <2>2. PICK n \in Other : \A k \in Other : n <= k
    <3>1. Other \in SUBSET Nat
      OBVIOUS
    <3> HIDE DEF Other
    <3>2. QED BY <2>1, <3>1, LeastNatural
  <2>3. n \in 0 .. Len(s) /\ upTo[n] = At(upTo, n) /\ upTo[n] \notin Seq(H)
    BY <1>5, <2>2
  <2>4. n # 0
    BY <2>3
  <2>5. n \in 1 .. Len(s) /\ s[n] \in H /\ upTo[n - 1] \in Seq(H)
    BY <2>2, <2>3, <2>4
  <2>6. QED BY <2>3, <2>4, <2>5
<1>8. QED BY <1>2, <1>6, <1>7

\* A list that is cut at a limit.
LEMMA CapType ==
  ASSUME NEW S, NEW s \in Seq(S), NEW n \in Nat
  PROVE  Cap(s, n) \in Seq(S) /\ Len(Cap(s, n)) <= n
<1>1. Len(s) \in Nat
  OBVIOUS
<1>2. CASE Len(s) > n
  <2>1. SubSeq(s, 1, n) \in Seq(S) /\ Len(SubSeq(s, 1, n)) = n
    <3>1. n \in 0 .. Len(s)
      BY <1>1, <1>2
    <3>2. \A i \in 1 .. n : s[i] \in S
      BY <1>1, <3>1
    <3>3. QED BY <1>1, <3>1, <3>2
  <2>2. QED BY <1>2, <2>1 DEF Cap
<1>3. CASE ~ (Len(s) > n)
  BY <1>1, <1>3 DEF Cap
<1>4. QED BY <1>2, <1>3

\* The plan of every offer is a list of at most MaximumJobCandidates selections.
LEMMA PlanType ==
  ASSUME NEW offer \in Offers
  PROVE  planOf(offer) \in Seq(Selections) /\ Len(planOf(offer)) <= MaxCandidates
<1> DEFINE limit == IF offer.direct = <<>> THEN MaxCandidates ELSE MaxCandidates - 1
           cached == Partition(offer.eligible, offer.cached)
           others == Partition(offer.eligible, Hashes \ offer.cached)
<1>1. limit \in Nat /\ MaxCandidates \in Nat
  BY JobAssumption
<1>2. cached \in Seq(Hashes) /\ others \in Seq(Hashes) /\ offer.direct \in Seq(Ranges)
  BY JobAssumption, PartitionType
<1> HIDE DEF limit, cached, others
<1>3. Cap(cached, limit) \in Seq(Hashes)
  BY <1>1, <1>2, CapType
<1>4. Hashes \subseteq Selections /\ Ranges \subseteq Selections
  BY DEF Selections
<1>5. \A H \in SUBSET Selections : \A s \in Seq(H) : s \in Seq(Selections)
  OBVIOUS
<1>6. Cap(cached, limit) \o offer.direct \o others \in Seq(Selections)
  <2>1. Cap(cached, limit) \in Seq(Selections) /\ offer.direct \in Seq(Selections)
          /\ others \in Seq(Selections)
    BY <1>2, <1>3, <1>4, <1>5
  <2>2. QED BY <2>1
<1>7. planOf(offer) = Cap(Cap(cached, limit) \o offer.direct \o others, MaxCandidates)
  BY DEF planOf, limit, cached, others
<1>8. QED BY <1>1, <1>6, <1>7, CapType

-----------------------------------------------------------------------------
(* Rows.                                                                   *)

LEMMA NoObjectType ==
  NoObject \in AnyObject /\ NoObject \notin Objects
<1>1. NoObject.n = 0
  BY DEF NoObject
<1>2. \A o \in Objects : o.n # 0
  BY JobAssumption DEF Objects
<1>3. QED BY <1>1, <1>2 DEF AnyObject

\* A row without plan and object.
LEMMA EmptyRow ==
  ASSUME NEW row \in Row, row.state \in {"absent", "queued"}, row.plan = <<>>,
         row.outcome = <<>>, row.ord = 0, row.obj = NoObject, row.owned = FALSE
  PROVE  GoodRow(row)
<1>1. <<>> \in Seq(Selections) /\ DOMAIN <<>> = {} /\ Len(<<>>) = 0
  OBVIOUS
<1>2. <<>> \in [DOMAIN <<>> -> Outcomes]
  BY <1>1
<1>3. RowOK(row)
  <2>1. Len(row.plan) <= MaxCandidates /\ row.ord \in 0 .. Len(row.plan)
    BY <1>1, JobAssumption
  <2>2. row.outcome \in [DOMAIN row.plan -> Outcomes]
    BY <1>2
  <2>3. QED BY <2>1, <2>2 DEF RowOK, Row
<1>4. InOrder(row) /\ FitsStage(row)
  BY <1>1 DEF InOrder, FitsStage
<1>5. QED BY <1>3, <1>4 DEF GoodRow

\* The row of a job that is not there, and of one that was just submitted.
LEMMA NoJobRow ==
  /\ GoodRow(NoJob) /\ NoJob.obj = NoObject
  /\ GoodRow([NoJob EXCEPT !.state = "queued"])
  /\ [NoJob EXCEPT !.state = "queued"].obj = NoObject
<1>1. <<>> \in Seq(Selections) /\ <<>> \in Seq(Outcomes)
  OBVIOUS
<1>2. NoJob \in Row
  BY <1>1, NoObjectType DEF NoJob, Row
<1>3. [NoJob EXCEPT !.state = "queued"] \in Row
  BY <1>2 DEF Row, Active
<1>4. GoodRow(NoJob)
  BY <1>2, EmptyRow DEF NoJob
<1>5. GoodRow([NoJob EXCEPT !.state = "queued"])
  BY <1>3, EmptyRow DEF NoJob
<1>6. QED BY <1>4, <1>5 DEF NoJob

\* What every row promises about its fields.
LEMMA RowFields ==
  ASSUME NEW row, GoodRow(row)
  PROVE  /\ row \in Row /\ row.ord \in Nat /\ row.obj \in AnyObject /\ row.owned \in BOOLEAN
         /\ row.plan \in Seq(Selections) /\ row.outcome \in Seq(Outcomes)
         /\ Len(row.plan) \in Nat /\ DOMAIN row.plan = 1 .. Len(row.plan)
         /\ DOMAIN row.outcome = DOMAIN row.plan
         /\ row.ord <= Len(row.plan) /\ Len(row.plan) <= MaxCandidates
         /\ row.state \in {"queued", "selected"} => ~ row.owned
         /\ row.ord > 0 => row.ord \in DOMAIN row.plan /\ row.plan[row.ord] \in Selections
<1>1. row \in Row /\ RowOK(row) /\ FitsStage(row)
  BY DEF GoodRow
<1>2. row.plan \in Seq(Selections) /\ row.outcome \in Seq(Outcomes) /\ row.ord \in Nat
        /\ row.obj \in AnyObject /\ row.owned \in BOOLEAN
  BY <1>1 DEF Row
<1>3. Len(row.plan) \in Nat /\ DOMAIN row.plan = 1 .. Len(row.plan)
  BY <1>2
<1>4. DOMAIN row.outcome = DOMAIN row.plan /\ row.ord <= Len(row.plan)
        /\ Len(row.plan) <= MaxCandidates
  BY <1>1, <1>3 DEF RowOK
<1>5. row.state \in {"queued", "selected"} => ~ row.owned
  BY <1>1, NoObjectType DEF FitsStage
<1>6. row.ord > 0 => row.ord \in DOMAIN row.plan /\ row.plan[row.ord] \in Selections
  BY <1>2, <1>3, <1>4
<1>7. QED BY <1>1, <1>2, <1>3, <1>4, <1>5, <1>6

\* Plan: the first candidate is selected and the others are pending.
LEMMA PlannedRow ==
  ASSUME NEW new \in Row, new.state = "selected", new.ord = 1, new.obj = NoObject,
         new.owned = FALSE, new.plan # <<>>, Len(new.plan) <= MaxCandidates,
         DOMAIN new.outcome = DOMAIN new.plan,
         \A i \in DOMAIN new.plan : new.outcome[i] = IF i = 1 THEN "selected" ELSE "pending"
  PROVE  GoodRow(new)
<1>1. new.plan \in Seq(Selections) /\ new.outcome \in Seq(Outcomes)
  BY DEF Row
<1>2. Len(new.plan) \in Nat /\ Len(new.plan) > 0 /\ DOMAIN new.plan = 1 .. Len(new.plan)
  BY <1>1
<1>3. new.outcome \in [DOMAIN new.plan -> Outcomes]
  BY <1>1, <1>2
<1>4. RowOK(new)
  <2>1. new.ord \in 0 .. Len(new.plan)
    BY <1>2
  <2>2. QED BY <1>1, <1>3, <2>1 DEF RowOK, Row
<1>5. InOrder(new) /\ FitsStage(new)
  BY <1>2 DEF InOrder, FitsStage
<1>6. QED BY <1>4, <1>5 DEF GoodRow

\* AttachPrepared: an object of the selected candidate.
LEMMA PreparedRow ==
  ASSUME NEW row, GoodRow(row), row.state = "selected",
         NEW new \in Row, new.state = "preparing", new.plan = row.plan, new.ord = row.ord,
         new.outcome = row.outcome, new.obj.of = row.plan[row.ord],
         new.owned => new.obj \in Objects
  PROVE  GoodRow(new)
<1>1. RowOK(new)
  BY DEF RowOK, Row, GoodRow
<1>2. InOrder(new)
  BY DEF InOrder, GoodRow
<1>3. FitsStage(new)
  BY DEF FitsStage, GoodRow
<1>4. QED BY <1>1, <1>2, <1>3 DEF GoodRow

\* Succeed and Fail change the state alone.
LEMMA EndedRow ==
  ASSUME NEW row, GoodRow(row), NEW st \in Terminal,
         st = "succeeded" => row.state = "preparing",
         st = "failed" => row.state = "queued",
         NEW new, new = [row EXCEPT !.state = st]
  PROVE  GoodRow(new) /\ new.obj = row.obj /\ new.state = st
<1>1. row \in Row
  BY RowFields
<1>2. /\ new \in Row /\ new.state = st /\ new.obj = row.obj /\ new.owned = row.owned
      /\ new.plan = row.plan /\ new.ord = row.ord /\ new.outcome = row.outcome
  BY <1>1 DEF Row
<1>3. RowOK(new)
  BY <1>2 DEF RowOK, Row, GoodRow
<1>4. InOrder(new)
  BY <1>2 DEF InOrder, GoodRow
<1>5. FitsStage(new)
  BY <1>2 DEF FitsStage, GoodRow, Terminal
<1>6. QED BY <1>2, <1>3, <1>4, <1>5 DEF GoodRow, Terminal

\* The pending candidate with the lowest ordinal is the one after the settled one.
LEMMA NextPendingIs ==
  ASSUME NEW row, GoodRow(row), row.ord > 0, NEW outcome \in Settled,
         NEW settled, settled = [row.outcome EXCEPT ![row.ord] = outcome],
         \E i \in DOMAIN settled : settled[i] = "pending"
  PROVE  /\ row.ord + 1 \in DOMAIN row.plan
         /\ NextPending(settled) = row.ord + 1
<1>1. /\ row.ord \in Nat /\ DOMAIN row.plan = 1 .. Len(row.plan) /\ Len(row.plan) \in Nat
      /\ DOMAIN row.outcome = DOMAIN row.plan /\ row.ord \in DOMAIN row.plan
  BY RowFields
<1>2. DOMAIN settled = DOMAIN row.plan
  BY <1>1
<1>3. \A i \in DOMAIN row.plan : i > row.ord <=> settled[i] = "pending"
  BY <1>1 DEF GoodRow, InOrder, Settled
<1>4. row.ord + 1 \in DOMAIN row.plan
  BY <1>1, <1>2, <1>3
<1>5. \A i \in DOMAIN settled :
        (settled[i] = "pending" /\ \A k \in DOMAIN settled : settled[k] = "pending" => i <= k)
          <=> i = row.ord + 1
  BY <1>1, <1>2, <1>3, <1>4
<1>6. QED BY <1>2, <1>4, <1>5 DEF NextPending

\* Advance, when there is a next candidate.
LEMMA NextRow ==
  ASSUME NEW row, GoodRow(row), row.ord > 0, NEW outcome \in Settled,
         row.ord + 1 \in DOMAIN row.plan,
         NEW new \in Row, new.state = "selected", new.ord = row.ord + 1, new.obj = NoObject,
         new.owned = FALSE, new.plan = row.plan, DOMAIN new.outcome = DOMAIN row.plan,
         \A i \in DOMAIN row.plan :
           new.outcome[i] = IF i = row.ord + 1 THEN "selected"
                            ELSE IF i = row.ord THEN outcome ELSE row.outcome[i]
  PROVE  GoodRow(new)
<1>1. /\ row.ord \in Nat /\ DOMAIN row.plan = 1 .. Len(row.plan) /\ Len(row.plan) \in Nat
      /\ Len(row.plan) <= MaxCandidates
  BY RowFields
<1>2. \A i \in DOMAIN row.plan : /\ i = row.ord <=> row.outcome[i] = "selected"
                                 /\ i > row.ord <=> row.outcome[i] = "pending"
  BY DEF GoodRow, InOrder
<1>3. \A i \in DOMAIN row.plan : /\ i = row.ord + 1 <=> new.outcome[i] = "selected"
                                 /\ i > row.ord + 1 <=> new.outcome[i] = "pending"
  BY <1>1, <1>2 DEF Settled
<1>4. new.plan \in Seq(Selections) /\ new.outcome \in Seq(Outcomes)
  BY DEF Row
<1>5. new.outcome \in [DOMAIN new.plan -> Outcomes]
  BY <1>1, <1>4
<1>6. RowOK(new)
  <2>1. new.ord \in 0 .. Len(new.plan)
    BY <1>1
  <2>2. QED BY <1>1, <1>4, <1>5, <2>1 DEF RowOK, Row
<1>7. InOrder(new) /\ FitsStage(new)
  BY <1>1, <1>3 DEF InOrder, FitsStage
<1>8. QED BY <1>1, <1>6, <1>7 DEF GoodRow

\* Advance, when no candidate is left.
LEMMA LastRow ==
  ASSUME NEW row, GoodRow(row), row.ord > 0, NEW outcome \in Settled,
         NEW settled, settled = [row.outcome EXCEPT ![row.ord] = outcome],
         ~ \E i \in DOMAIN settled : settled[i] = "pending",
         NEW new, new = [Unprepared(row) EXCEPT !.state = "failed", !.ord = 0,
                           !.outcome = settled]
  PROVE  GoodRow(new) /\ new.obj = NoObject /\ new.state = "failed"
<1>1. /\ row \in Row /\ row.ord \in Nat /\ row.ord \in DOMAIN row.plan
      /\ DOMAIN row.plan = 1 .. Len(row.plan) /\ Len(row.plan) \in Nat
      /\ DOMAIN row.outcome = DOMAIN row.plan /\ row.outcome \in Seq(Outcomes)
  BY RowFields
<1>2. settled \in [DOMAIN row.plan -> Outcomes]
  BY <1>1 DEF Outcomes, Settled
<1>3. settled \in Seq(Outcomes)
  BY <1>1, <1>2
<1>4. \A i \in DOMAIN row.plan : settled[i] \notin {"pending", "selected"}
  BY <1>1, <1>2 DEF GoodRow, InOrder, Settled
<1>5. /\ new \in Row
      /\ new.state = "failed" /\ new.plan = row.plan /\ new.ord = 0 /\ new.outcome = settled
      /\ new.obj = NoObject /\ new.owned = FALSE
  BY <1>1, <1>3, NoObjectType DEF Unprepared, Row, Terminal
<1>6. RowOK(new)
  <2>1. Len(new.plan) <= MaxCandidates /\ new.ord \in 0 .. Len(new.plan)
    BY <1>1, <1>5, RowFields
  <2>2. new.outcome \in [DOMAIN new.plan -> Outcomes]
    BY <1>2, <1>5
  <2>3. QED BY <1>5, <2>1, <2>2 DEF RowOK, Row
<1>7. InOrder(new) /\ FitsStage(new)
  BY <1>4, <1>5 DEF InOrder, FitsStage
<1>8. QED BY <1>5, <1>6, <1>7 DEF GoodRow

-----------------------------------------------------------------------------
(* What a worker's call does to its own record.                            *)

\* Worker w keeps its claim and goes to place p; the other workers stay where they are.
Goes(w, p) ==
  /\ work' \in [Workers -> Work]
  /\ \A v \in Workers : v # w => work'[v] = work[v]
  /\ work'[w].id = work[w].id /\ work'[w].seen = work[w].seen /\ work'[w].pc = p

LEMMA GotoGoes ==
  ASSUME TypeInv, NEW w \in Workers, NEW p \in Commits \cup Calls, Goto(w, p)
  PROVE  /\ Goes(w, p)
         /\ work'[w].obj = work[w].obj /\ work'[w].late = work[w].late
         /\ work'[w].outcome = work[w].outcome
<1>1. work[w] \in Work
  BY DEF TypeInv
<1> DEFINE r == [work[w] EXCEPT !.pc = p]
<1>2. /\ r \in Work /\ r.id = work[w].id /\ r.seen = work[w].seen /\ r.pc = p
      /\ r.obj = work[w].obj /\ r.late = work[w].late /\ r.outcome = work[w].outcome
  BY <1>1 DEF Work
<1>3. work' = [work EXCEPT ![w] = r]
  BY DEF Goto
<1> HIDE DEF r
<1>4. QED BY <1>2, <1>3 DEF Goes, TypeInv

LEMMA GotoAttachGoes ==
  ASSUME TypeInv, NEW w \in Workers, NEW o \in AnyObject, NEW owned \in BOOLEAN,
         GotoAttach(w, o, owned)
  PROVE  /\ Goes(w, "attach")
         /\ work'[w].obj = o /\ work'[w].owned = owned /\ work'[w].late = work[w].late
<1>1. work[w] \in Work
  BY DEF TypeInv
<1> DEFINE r == [work[w] EXCEPT !.pc = "attach", !.obj = o, !.owned = owned]
<1>2. /\ r \in Work /\ r.id = work[w].id /\ r.seen = work[w].seen /\ r.pc = "attach"
      /\ r.obj = o /\ r.owned = owned /\ r.late = work[w].late
  BY <1>1 DEF Work, Commits
<1>3. work' = [work EXCEPT ![w] = r]
  BY DEF GotoAttach
<1> HIDE DEF r
<1>4. QED BY <1>2, <1>3 DEF Goes, TypeInv

LEMMA AbandonGoes ==
  ASSUME TypeInv, NEW w \in Workers, NEW outcome \in Settled, NEW gone \in BOOLEAN,
         abandonCandidate(w, outcome, gone)
  PROVE  /\ work[w].seen.owned /\ ~ gone => Goes(w, "delete")
         /\ ~ (work[w].seen.owned /\ ~ gone) => Goes(w, "advance")
         /\ work'[w].obj = work[w].obj /\ work'[w].late = work[w].late
         /\ work'[w].outcome = outcome
<1>1. work[w] \in Work
  BY DEF TypeInv
<1> DEFINE p == IF work[w].seen.owned /\ ~ gone THEN "delete" ELSE "advance"
           r == [work[w] EXCEPT !.outcome = outcome, !.pc = p]
<1>2. p \in Commits \cup Calls
  BY DEF Commits, Calls
<1>3. work' = [work EXCEPT ![w] = r]
  BY DEF abandonCandidate
<1>4. /\ work[w].seen.owned /\ ~ gone => p = "delete"
      /\ ~ (work[w].seen.owned /\ ~ gone) => p = "advance"
  OBVIOUS
<1> HIDE DEF p
<1>5. /\ r \in Work /\ r.id = work[w].id /\ r.seen = work[w].seen /\ r.pc = p
      /\ r.obj = work[w].obj /\ r.outcome = outcome /\ r.late = work[w].late
  BY <1>1, <1>2 DEF Work, Settled, Outcomes
<1> HIDE DEF r
<1>6. Goes(w, p)
  BY <1>3, <1>5 DEF Goes, TypeInv
<1>7. work'[w] = r
  BY <1>3 DEF TypeInv
<1>8. QED BY <1>4, <1>5, <1>6, <1>7

\* The two places from which the lease may run out.
LEMMA OverrunGoes ==
  ASSUME TypeInv, NEW w \in Workers, NEW p \in {"reconcile", "publish"},
         work' = [work EXCEPT ![w].pc = p, ![w].late = TRUE]
  PROVE  Goes(w, p) /\ work'[w].obj = work[w].obj /\ work'[w].late = TRUE
<1>1. work[w] \in Work
  BY DEF TypeInv
<1> DEFINE r == [work[w] EXCEPT !.pc = p, !.late = TRUE]
<1>2. /\ r \in Work /\ r.id = work[w].id /\ r.seen = work[w].seen /\ r.pc = p
      /\ r.obj = work[w].obj /\ r.late = TRUE
  BY <1>1 DEF Work, Calls
<1>3. work' = [work EXCEPT ![w] = r]
  OBVIOUS
<1> HIDE DEF r
<1>4. QED BY <1>2, <1>3 DEF Goes, TypeInv

LEMMA PlanGoes ==
  ASSUME TypeInv, NEW w \in Workers, NEW plan \in Seq(Selections),
         work' = [work EXCEPT ![w].pc = "plan", ![w].plan = plan]
  PROVE  /\ Goes(w, "plan")
         /\ work'[w].obj = work[w].obj /\ work'[w].late = work[w].late /\ work'[w].plan = plan
<1>1. work[w] \in Work
  BY DEF TypeInv
<1> DEFINE r == [work[w] EXCEPT !.pc = "plan", !.plan = plan]
<1>2. /\ r \in Work /\ r.id = work[w].id /\ r.seen = work[w].seen /\ r.pc = "plan"
      /\ r.obj = work[w].obj /\ r.late = work[w].late /\ r.plan = plan
  BY <1>1 DEF Work, Commits
<1>3. work' = [work EXCEPT ![w] = r]
  OBVIOUS
<1> HIDE DEF r
<1>4. QED BY <1>2, <1>3 DEF Goes, TypeInv

-----------------------------------------------------------------------------
(* The provider calls.                                                     *)

\* The account loses objects, or gets the one that the worker creates.
AccountMoves(w) ==
  \/ account' \subseteq account /\ made' = made
  \/ /\ work[w].pc = "create" /\ Selection(w) \in Hashes /\ Claimed(w) \in Jobs
     /\ NewObject(Selection(w), Claimed(w))

\* What each provider call does: the table stays, the worker keeps its claim and carries
\* what its next place needs.
Moves(w) ==
  /\ work[w].pc # "idle" /\ work'[w].pc # "idle"
  /\ Goes(w, work'[w].pc) /\ GoodWork(work'[w])
  /\ work[w].late => work'[w].late
  /\ work'[w].obj \in Objects => work'[w].obj.n <= made'[work'[w].obj.of]
  /\ UNCHANGED tableVars
  /\ published' \in [Jobs -> SUBSET AnyObject]
  /\ \A j \in Jobs : published[j] \subseteq published'[j]
  /\ AccountMoves(w)
  /\ work'[w].pc = "advance" /\ work[w].seen.owned => work[w].seen.obj \notin account'
  /\ work'[w].pc = "create" =>
       \A o \in account' : ~ (o.of = Selection(w) /\ o.by = Claimed(w))
  /\ work'[w].pc = "succeed" => work[w].seen.obj \in published'[Claimed(w)]

\* The facts about a busy worker that every call starts from.
LEMMA Busy ==
  ASSUME Inv, NEW w \in Workers, work[w].pc # "idle"
  PROVE  /\ TypeInv /\ work[w] \in Work /\ GoodWork(work[w]) /\ GoodRow(work[w].seen)
         /\ Claimed(w) \in Jobs
         /\ work[w].obj \in Objects => work[w].obj.n <= made[work[w].obj.of]
BY DEF Inv, TypeInv, WorkInv, GoodWork, NumberInv, Numbered, Claimed

LEMMA ResolveMoves ==
  ASSUME Inv, NEW w \in Workers, Resolve(w)
  PROVE  Moves(w)
<1>1. work[w].pc = "resolve" /\ UNCHANGED <<tableVars, account, made, published>>
  BY DEF Resolve
<1>2. TypeInv /\ GoodWork(work[w]) /\ (work[w].obj \in Objects => work[w].obj.n <= made[work[w].obj.of])
  BY <1>1, Busy
<1>3. work[w].seen.state = "queued" /\ work[w].late = FALSE /\ work[w].id \in Jobs
        /\ GoodRow(work[w].seen)
  BY <1>1, <1>2 DEF GoodWork, OfQueued, Overrun, TypeInv, Work
<1>4. published' \in [Jobs -> SUBSET AnyObject] /\ published' = published /\ AccountMoves(w)
  BY <1>1, <1>2 DEF TypeInv, AccountMoves
<1>5. ASSUME NEW p \in {"fail", "defer"}, Goto(w, p) PROVE Moves(w)
  <2>1. Goes(w, p) /\ work'[w].obj = work[w].obj /\ work'[w].late = work[w].late
    BY <1>2, <1>5, GotoGoes DEF Commits
  <2>2. work'[w].pc = p /\ work'[w].seen = work[w].seen /\ work'[w].id = work[w].id
    BY <2>1 DEF Goes
  <2>3. GoodWork(work'[w])
    BY <1>3, <2>1, <2>2 DEF GoodWork, OfQueued, OfSelected, OfPreparing, OfTorrent, OfRange,
         Overrun, Active
  <2>4. QED BY <1>1, <1>2, <1>4, <2>1, <2>2, <2>3 DEF Moves
<1>6. ASSUME NEW offer \in Offers, planOf(offer) # <<>>,
             work' = [work EXCEPT ![w].pc = "plan", ![w].plan = planOf(offer)]
      PROVE  Moves(w)
  <2>1. Goes(w, "plan") /\ work'[w].obj = work[w].obj /\ work'[w].late = work[w].late
          /\ work'[w].plan = planOf(offer)
    BY <1>2, <1>6, PlanType, PlanGoes
  <2>2. work'[w].pc = "plan" /\ work'[w].seen = work[w].seen /\ work'[w].id = work[w].id
    BY <2>1 DEF Goes
  <2>3. GoodWork(work'[w])
    BY <1>3, <1>6, <2>1, <2>2, PlanType DEF GoodWork, OfQueued, OfSelected, OfPreparing,
         OfTorrent, OfRange, Overrun, Active
  <2>4. QED BY <1>1, <1>2, <1>4, <2>1, <2>2, <2>3 DEF Moves
<1>7. QED BY <1>5, <1>6, Zenon DEF Resolve

\* Goto, for a call that leaves the account alone.
LEMMA GotoMoves ==
  ASSUME Inv, NEW w \in Workers, work[w].pc # "idle", NEW p \in {"defer", "review"},
         Goto(w, p), UNCHANGED <<tableVars, account, made, published>>
  PROVE  Moves(w)
<1>1. /\ TypeInv /\ GoodWork(work[w])
      /\ work[w].obj \in Objects => work[w].obj.n <= made[work[w].obj.of]
  BY Busy
<1>2. Goes(w, p) /\ work'[w].obj = work[w].obj /\ work'[w].late = work[w].late
  BY <1>1, GotoGoes DEF Commits
<1>3. work'[w].pc = p /\ work'[w].seen = work[w].seen /\ work'[w].id = work[w].id
  BY <1>2 DEF Goes
<1>4. published' \in [Jobs -> SUBSET AnyObject] /\ published' = published /\ AccountMoves(w)
  BY <1>1 DEF TypeInv, AccountMoves
<1>5. GoodWork(work'[w])
  BY <1>1, <1>2, <1>3 DEF GoodWork, OfQueued, OfSelected, OfPreparing, OfTorrent, OfRange, Overrun
<1>6. QED BY <1>1, <1>2, <1>3, <1>4, <1>5 DEF Moves

\* GotoAttach, with an object of the selected candidate.
LEMMA AttachMoves ==
  ASSUME Inv, NEW w \in Workers, work[w].pc \in OfSelected,
         NEW o \in AnyObject, NEW owned \in BOOLEAN, GotoAttach(w, o, owned),
         o.of = Selection(w), owned => o \in Objects, o \in Objects => o.n <= made'[o.of],
         UNCHANGED <<tableVars, published>>, AccountMoves(w)
  PROVE  Moves(w)
<1>1. work[w].pc # "idle"
  BY DEF OfSelected
<1>2. TypeInv /\ GoodWork(work[w])
  BY <1>1, Busy
<1>3. /\ Goes(w, "attach") /\ work'[w].obj = o /\ work'[w].owned = owned
      /\ work'[w].late = work[w].late
  BY <1>2, GotoAttachGoes
<1>4. work'[w].pc = "attach" /\ work'[w].seen = work[w].seen /\ work'[w].id = work[w].id
  BY <1>3 DEF Goes
<1>5. published' \in [Jobs -> SUBSET AnyObject]
  BY <1>2 DEF TypeInv
<1>6. GoodWork(work'[w])
  BY <1>1, <1>2, <1>3, <1>4 DEF GoodWork, OfQueued, OfSelected, OfPreparing, OfTorrent,
       OfRange, Overrun, Selection
<1>7. QED BY <1>1, <1>3, <1>4, <1>5, <1>6 DEF Moves

\* abandonCandidate, after a call that leaves the account alone.
LEMMA AbandonMoves ==
  ASSUME Inv, NEW w \in Workers, work[w].pc \in OfSelected \cup OfPreparing,
         work[w].late = FALSE,
         NEW outcome \in Settled, NEW gone \in BOOLEAN, abandonCandidate(w, outcome, gone),
         work[w].seen.owned => work[w].seen.state = "preparing",
         gone /\ work[w].seen.owned => work[w].seen.obj \notin account,
         UNCHANGED <<tableVars, account, made, published>>
  PROVE  Moves(w)
<1>1. work[w].pc # "idle"
  BY DEF OfSelected, OfPreparing
<1>2. /\ TypeInv /\ GoodWork(work[w])
      /\ work[w].obj \in Objects => work[w].obj.n <= made[work[w].obj.of]
  BY <1>1, Busy
<1> DEFINE cleanup == work[w].seen.owned /\ ~ gone
<1>3. /\ cleanup => Goes(w, "delete")
      /\ ~ cleanup => Goes(w, "advance")
      /\ work'[w].obj = work[w].obj /\ work'[w].late = work[w].late /\ work'[w].outcome = outcome
  BY <1>2, AbandonGoes
<1>4. published' \in [Jobs -> SUBSET AnyObject] /\ published' = published /\ AccountMoves(w)
  BY <1>2 DEF TypeInv, AccountMoves
<1>5. CASE cleanup
  <2>1. work'[w].pc = "delete" /\ work'[w].seen = work[w].seen /\ work'[w].id = work[w].id
          /\ Goes(w, "delete")
    BY <1>3, <1>5 DEF Goes
  <2>2. GoodWork(work'[w])
    BY <1>1, <1>2, <1>3, <1>5, <2>1 DEF GoodWork, OfQueued, OfSelected, OfPreparing, OfTorrent, OfRange
  <2>3. QED BY <1>1, <1>2, <1>3, <1>4, <2>1, <2>2 DEF Moves
<1>6. CASE ~ cleanup
  <2>1. work'[w].pc = "advance" /\ work'[w].seen = work[w].seen /\ work'[w].id = work[w].id
          /\ Goes(w, "advance")
    BY <1>3, <1>6 DEF Goes
  <2>2. GoodWork(work'[w])
    BY <1>1, <1>2, <1>3, <1>6, <2>1 DEF GoodWork, OfQueued, OfSelected, OfPreparing, OfTorrent, OfRange
  <2>3. work[w].seen.owned => work[w].seen.obj \notin account'
    BY <1>6
  <2>4. QED BY <1>1, <1>2, <1>3, <1>4, <2>1, <2>2, <2>3 DEF Moves
<1>7. QED BY <1>5, <1>6

LEMMA FindMoves ==
  ASSUME Inv, NEW w \in Workers, FindTorrent(w)
  PROVE  Moves(w)
<1>1. work[w].pc = "find" /\ UNCHANGED <<tableVars, account, made, published>>
  BY DEF FindTorrent
<1>2. /\ TypeInv /\ GoodWork(work[w]) /\ GoodRow(work[w].seen) /\ Claimed(w) \in Jobs
      /\ work[w].obj \in Objects => work[w].obj.n <= made[work[w].obj.of]
  BY <1>1, Busy
<1>3. /\ work[w].seen.state = "selected" /\ work[w].late = FALSE /\ ~ work[w].seen.owned
      /\ Selection(w) \in Hashes
  BY <1>1, <1>2, RowFields DEF GoodWork, OfSelected, OfTorrent, Overrun, TypeInv, Work, Selection
<1>4. ASSUME NEW o \in Matches(Selection(w)), GotoAttach(w, o, FALSE) PROVE Moves(w)
  <2>1. o \in Objects /\ o.of = Selection(w) /\ o.n <= made'[o.of] /\ o \in AnyObject
    BY <1>1, <1>2 DEF Matches, TypeInv, Inv, NumberInv, Numbered, AnyObject
  <2>2. QED BY <1>1, <1>4, <2>1, AttachMoves DEF OfSelected, AccountMoves
<1>5. ASSUME NEW p \in {"defer", "review"}, Goto(w, p) PROVE Moves(w)
  BY <1>1, <1>3, <1>5, GotoMoves
<1>6. ASSUME abandonCandidate(w, "missing", TRUE) PROVE Moves(w)
  BY <1>1, <1>3, <1>6, AbandonMoves DEF OfSelected, Settled
<1>7. ASSUME Matches(Selection(w)) = {}, Goto(w, "create") PROVE Moves(w)
  <2>1. Goes(w, "create") /\ work'[w].obj = work[w].obj /\ work'[w].late = work[w].late
    BY <1>2, <1>7, GotoGoes DEF Calls
  <2>2. work'[w].pc = "create" /\ work'[w].seen = work[w].seen /\ work'[w].id = work[w].id
    BY <2>1 DEF Goes
  <2>3. GoodWork(work'[w])
    BY <1>1, <1>2, <1>3, <2>1, <2>2 DEF GoodWork, OfQueued, OfSelected, OfPreparing, OfTorrent,
         OfRange, Selection
  <2>4. \A o \in account' : ~ (o.of = Selection(w) /\ o.by = Claimed(w))
    BY <1>1, <1>7 DEF Matches
  <2>5. published' \in [Jobs -> SUBSET AnyObject] /\ published' = published /\ AccountMoves(w)
    BY <1>1, <1>2 DEF TypeInv, AccountMoves
  <2>6. QED BY <1>1, <1>2, <2>1, <2>2, <2>3, <2>4, <2>5 DEF Moves
<1>8. QED BY <1>4, <1>5, <1>6, <1>7, Zenon DEF FindTorrent

LEMMA CreateMoves ==
  ASSUME Inv, NEW w \in Workers, CreateTorrent(w)
  PROVE  Moves(w)
<1>1. work[w].pc = "create" /\ UNCHANGED <<tableVars, published>>
  BY DEF CreateTorrent
<1>2. /\ TypeInv /\ GoodWork(work[w]) /\ GoodRow(work[w].seen) /\ Claimed(w) \in Jobs
      /\ work[w].obj \in Objects => work[w].obj.n <= made[work[w].obj.of]
  BY <1>1, Busy
<1>3. work[w].seen.state = "selected" /\ work[w].late = FALSE /\ Selection(w) \in Hashes
  BY <1>1, <1>2 DEF GoodWork, OfSelected, OfTorrent, Overrun, TypeInv, Work, Selection
<1> DEFINE h == Selection(w)
           new == [of |-> h, n |-> made[h] + 1, by |-> Claimed(w)]
<1> HIDE DEF h
<1>4. h \in Hashes /\ made[h] \in Nat
  BY <1>2, <1>3, JobAssumption DEF TypeInv, h
<1>5. ASSUME NewObject(h, Claimed(w))
      PROVE  /\ AccountMoves(w) /\ new \in Objects /\ new.n <= made'[new.of] /\ new.of = h
             /\ \A g \in Hashes : made[g] \in Nat /\ made'[g] \in Nat /\ made[g] <= made'[g]
  <2>1. made[h] < MaxObjects /\ made' = [made EXCEPT ![h] = @ + 1]
    BY <1>5 DEF NewObject
  <2>2. new \in Objects
    BY <1>2, <1>4, <2>1, JobAssumption DEF Objects
  <2>3. made'[h] = made[h] + 1
    BY <1>2, <1>4, <2>1 DEF TypeInv
  <2>4. \A g \in Hashes : made[g] \in Nat /\ made'[g] \in Nat /\ made[g] <= made'[g]
    BY <1>2, <1>4, <2>1, JobAssumption DEF TypeInv
  <2>5. AccountMoves(w)
    BY <1>1, <1>2, <1>4, <1>5 DEF AccountMoves, h
  <2>6. QED BY <1>4, <2>2, <2>3, <2>4, <2>5
<1>6. ASSUME NewObject(h, Claimed(w)), GotoAttach(w, new, TRUE) PROVE Moves(w)
  <2>1. AccountMoves(w) /\ new \in Objects /\ new.n <= made'[new.of] /\ new.of = Selection(w)
          /\ new \in AnyObject
    BY <1>5, <1>6 DEF AnyObject, h
  <2> HIDE DEF new
  <2>2. QED BY <1>1, <1>6, <2>1, AttachMoves DEF OfSelected
<1>7. ASSUME AccountMoves(w), work' = [work EXCEPT ![w].pc = "reconcile", ![w].late = TRUE],
             \A g \in Hashes : made[g] \in Nat /\ made'[g] \in Nat /\ made[g] <= made'[g]
      PROVE  Moves(w)
  <2>1. Goes(w, "reconcile") /\ work'[w].obj = work[w].obj /\ work'[w].late = TRUE
    BY <1>2, <1>7, OverrunGoes
  <2>2. work'[w].pc = "reconcile" /\ work'[w].seen = work[w].seen /\ work'[w].id = work[w].id
    BY <2>1 DEF Goes
  <2>3. GoodWork(work'[w])
    BY <1>1, <1>2, <1>3, <2>1, <2>2 DEF GoodWork, OfQueued, OfSelected, OfPreparing, OfTorrent,
         OfRange, Selection, Overrun
  <2>4. work'[w].obj \in Objects => work'[w].obj.n <= made'[work'[w].obj.of]
    BY <1>2, <1>7, <2>1 DEF Objects
  <2>5. published' \in [Jobs -> SUBSET AnyObject]
    BY <1>1, <1>2 DEF TypeInv
  <2>6. QED BY <1>1, <1>7, <2>1, <2>2, <2>3, <2>4, <2>5 DEF Moves
<1>8. ASSUME UNCHANGED <<account, made>>, Goto(w, "defer") PROVE Moves(w)
  BY <1>1, <1>3, <1>8, GotoMoves
<1>9. ASSUME UNCHANGED <<account, made>>
      PROVE  AccountMoves(w) /\ \A g \in Hashes : made[g] \in Nat /\ made'[g] \in Nat /\ made[g] <= made'[g]
  BY <1>2, <1>9, JobAssumption DEF AccountMoves, TypeInv
<1>10. \/ NewObject(h, Claimed(w)) /\ GotoAttach(w, new, TRUE)
       \/ NewObject(h, Claimed(w)) /\ work' = [work EXCEPT ![w].pc = "reconcile", ![w].late = TRUE]
       \/ UNCHANGED <<account, made>> /\ Goto(w, "defer")
       \/ UNCHANGED <<account, made>> /\ work' = [work EXCEPT ![w].pc = "reconcile", ![w].late = TRUE]
  BY Zenon DEF CreateTorrent, h
<1> HIDE DEF new
<1>11. QED BY <1>5, <1>6, <1>7, <1>8, <1>9, <1>10, Zenon

LEMMA ReconcileMoves ==
  ASSUME Inv, NEW w \in Workers, Reconcile(w)
  PROVE  Moves(w)
<1>1. work[w].pc = "reconcile" /\ UNCHANGED <<tableVars, account, made, published>>
  BY DEF Reconcile
<1>2. TypeInv
  BY DEF Inv
<1>3. ASSUME NEW o \in Matches(Selection(w)), GotoAttach(w, o, TRUE) PROVE Moves(w)
  <2>1. o \in Objects /\ o.of = Selection(w) /\ o.n <= made'[o.of] /\ o \in AnyObject
    BY <1>1, <1>2 DEF Matches, TypeInv, Inv, NumberInv, Numbered, AnyObject
  <2>2. QED BY <1>1, <1>3, <2>1, AttachMoves DEF OfSelected, AccountMoves
<1>4. ASSUME Goto(w, "review") PROVE Moves(w)
  BY <1>1, <1>4, GotoMoves
<1>5. QED BY <1>3, <1>4, Zenon DEF Reconcile

\* An object of a range is none of the account.
LEMMA RangeObjectType ==
  ASSUME NEW r \in Ranges
  PROVE  RangeObject(r) \in AnyObject /\ RangeObject(r) \notin Objects /\ RangeObject(r).of = r
<1>1. RangeObject(r).of = r
  BY DEF RangeObject
<1>2. \A o \in Objects : o.of \in Hashes
  BY DEF Objects
<1>3. r \notin Hashes
  BY JobAssumption
<1>4. QED BY <1>1, <1>2, <1>3 DEF AnyObject

LEMMA PrepareRangeMoves ==
  ASSUME Inv, NEW w \in Workers, PrepareRange(w)
  PROVE  Moves(w)
<1>1. work[w].pc = "range_prepare" /\ UNCHANGED <<tableVars, account, made, published>>
  BY DEF PrepareRange
<1>2. TypeInv /\ GoodWork(work[w]) /\ GoodRow(work[w].seen)
  BY <1>1, Busy
<1>3. /\ work[w].seen.state = "selected" /\ work[w].late = FALSE /\ ~ work[w].seen.owned
      /\ Selection(w) \in Ranges
  BY <1>1, <1>2, RowFields DEF GoodWork, OfSelected, OfRange, Overrun, TypeInv, Work, Selection
<1>4. ASSUME GotoAttach(w, RangeObject(Selection(w)), FALSE) PROVE Moves(w)
  BY <1>1, <1>3, <1>4, RangeObjectType, AttachMoves DEF OfSelected, AccountMoves
<1>5. ASSUME Goto(w, "defer") PROVE Moves(w)
  BY <1>1, <1>5, GotoMoves
<1>6. ASSUME abandonCandidate(w, "missing", TRUE) PROVE Moves(w)
  BY <1>1, <1>3, <1>6, AbandonMoves DEF OfSelected, Settled
<1>7. QED BY <1>4, <1>5, <1>6, Zenon DEF PrepareRange

\* The media of a preparing job is ready.
LEMMA PublishMoves ==
  ASSUME Inv, NEW w \in Workers, work[w].pc \in {"inspect", "range_inspect"}, GotoPublish(w),
         UNCHANGED <<tableVars, account, made, published>>
  PROVE  Moves(w)
<1>1. /\ TypeInv /\ GoodWork(work[w])
      /\ work[w].obj \in Objects => work[w].obj.n <= made[work[w].obj.of]
  BY Busy
<1>2. Goes(w, "publish") /\ work'[w].obj = work[w].obj /\ work'[w].late = TRUE
  BY <1>1, OverrunGoes DEF GotoPublish
<1>3. work'[w].pc = "publish" /\ work'[w].seen = work[w].seen /\ work'[w].id = work[w].id
  BY <1>2 DEF Goes
<1>4. GoodWork(work'[w])
  BY <1>1, <1>2, <1>3 DEF GoodWork, OfQueued, OfSelected, OfPreparing, OfTorrent, OfRange, Overrun
<1>5. published' \in [Jobs -> SUBSET AnyObject] /\ published' = published /\ AccountMoves(w)
  BY <1>1 DEF TypeInv, AccountMoves
<1>6. QED BY <1>1, <1>2, <1>3, <1>4, <1>5 DEF Moves

LEMMA InspectMoves ==
  ASSUME Inv, NEW w \in Workers, InspectTorrent(w)
  PROVE  Moves(w)
<1>1. work[w].pc = "inspect" /\ UNCHANGED <<tableVars, account, made, published>>
  BY DEF InspectTorrent
<1>2. TypeInv /\ GoodWork(work[w])
  BY <1>1, Busy
<1>3. work[w].seen.state = "preparing" /\ work[w].late = FALSE
  BY <1>1, <1>2 DEF GoodWork, OfPreparing, Overrun, TypeInv, Work
<1>4. ASSUME NEW outcome \in {"stalled", "unplayable"}, abandonCandidate(w, outcome, FALSE)
      PROVE  Moves(w)
  BY <1>1, <1>3, <1>4, AbandonMoves DEF OfPreparing, Settled
<1>5. ASSUME work[w].seen.obj \notin account, abandonCandidate(w, "missing", TRUE) PROVE Moves(w)
  BY <1>1, <1>3, <1>5, AbandonMoves DEF OfPreparing, Settled
<1>6. ASSUME NEW p \in {"defer", "review"}, Goto(w, p) PROVE Moves(w)
  BY <1>1, <1>6, GotoMoves
<1>7. ASSUME GotoPublish(w) PROVE Moves(w)
  BY <1>1, <1>7, PublishMoves
<1>8. QED BY <1>4, <1>5, <1>6, <1>7, Zenon DEF InspectTorrent

LEMMA InspectRangeMoves ==
  ASSUME Inv, NEW w \in Workers, InspectRange(w)
  PROVE  Moves(w)
<1>1. work[w].pc = "range_inspect" /\ UNCHANGED <<tableVars, account, made, published>>
  BY DEF InspectRange
<1>2. TypeInv /\ GoodWork(work[w]) /\ GoodRow(work[w].seen)
  BY <1>1, Busy
<1>3. work[w].seen.state = "preparing" /\ work[w].late = FALSE /\ Selection(w) \in Ranges
  BY <1>1, <1>2 DEF GoodWork, OfPreparing, OfRange, Overrun, TypeInv, Work, Selection
<1>4. ~ work[w].seen.owned
  <2>1. work[w].seen.obj.of \notin Hashes
    BY <1>2, <1>3, JobAssumption DEF GoodRow, FitsStage, Selection
  <2>2. work[w].seen.obj \notin Objects
    BY <2>1 DEF Objects
  <2>3. QED BY <1>2, <2>2 DEF GoodRow, FitsStage
<1>5. ASSUME NEW outcome \in {"missing", "unplayable"}, NEW gone \in BOOLEAN,
             abandonCandidate(w, outcome, gone)
      PROVE  Moves(w)
  BY <1>1, <1>3, <1>4, <1>5, AbandonMoves DEF OfPreparing, Settled
<1>6. ASSUME Goto(w, "defer") PROVE Moves(w)
  BY <1>1, <1>6, GotoMoves
<1>7. ASSUME GotoPublish(w) PROVE Moves(w)
  BY <1>1, <1>7, PublishMoves
<1>8. TRUE \in BOOLEAN /\ FALSE \in BOOLEAN
  OBVIOUS
<1>9. QED BY <1>5, <1>6, <1>7, <1>8, Zenon DEF InspectRange

LEMMA DeleteMoves ==
  ASSUME Inv, NEW w \in Workers, DeleteTorrent(w)
  PROVE  Moves(w)
<1>1. work[w].pc = "delete" /\ UNCHANGED <<tableVars, made, published>>
  BY DEF DeleteTorrent
<1>2. /\ TypeInv /\ GoodWork(work[w])
      /\ work[w].obj \in Objects => work[w].obj.n <= made[work[w].obj.of]
  BY <1>1, Busy
<1>3. work[w].seen.state = "preparing" /\ work[w].late = FALSE
  BY <1>1, <1>2 DEF GoodWork, OfPreparing, Overrun, TypeInv, Work
<1>4. published' \in [Jobs -> SUBSET AnyObject]
  BY <1>1, <1>2 DEF TypeInv
<1>5. ASSUME NEW p \in {"advance", "review"}, Goto(w, p), account' \subseteq account,
             p = "advance" => work[w].seen.obj \notin account'
      PROVE  Moves(w)
  <2>1. /\ Goes(w, p) /\ work'[w].obj = work[w].obj /\ work'[w].late = work[w].late
        /\ work'[w].outcome = work[w].outcome
    BY <1>2, <1>5, GotoGoes DEF Commits
  <2>2. work'[w].pc = p /\ work'[w].seen = work[w].seen /\ work'[w].id = work[w].id
    BY <2>1 DEF Goes
  <2>3. GoodWork(work'[w])
    BY <1>1, <1>2, <1>3, <2>1, <2>2 DEF GoodWork, OfQueued, OfSelected, OfPreparing, OfTorrent,
         OfRange, Overrun
  <2>4. AccountMoves(w)
    BY <1>1, <1>5 DEF AccountMoves
  <2>5. QED BY <1>1, <1>2, <1>4, <1>5, <2>1, <2>2, <2>3, <2>4 DEF Moves
<1>6. \/ /\ account' = account \ {work[w].seen.obj}
         /\ Goto(w, "advance") \/ Goto(w, "review")
      \/ account' = account /\ Goto(w, "review")
  BY DEF DeleteTorrent
<1>7. QED BY <1>5, <1>6

LEMMA PublishStepMoves ==
  ASSUME Inv, NEW w \in Workers, Publish(w)
  PROVE  Moves(w)
<1>1. work[w].pc = "publish" /\ UNCHANGED <<tableVars, account, made>>
  BY DEF Publish
<1>2. /\ TypeInv /\ work[w] \in Work /\ GoodWork(work[w]) /\ GoodRow(work[w].seen)
      /\ Claimed(w) \in Jobs
      /\ work[w].obj \in Objects => work[w].obj.n <= made[work[w].obj.of]
  BY <1>1, Busy
<1>3. work[w].seen.state = "preparing" /\ work[w].seen.obj \in AnyObject
  BY <1>1, <1>2, RowFields DEF GoodWork, OfPreparing
<1>4. /\ published' \in [Jobs -> SUBSET AnyObject]
      /\ \A j \in Jobs : published[j] \subseteq published'[j]
  <2>1. \/ published' = published
        \/ published' = [published EXCEPT ![Claimed(w)] = @ \cup {work[w].seen.obj}]
    BY Zenon DEF Publish
  <2>2. CASE published' = published
    BY <1>2, <2>2 DEF TypeInv
  <2>3. CASE published' = [published EXCEPT ![Claimed(w)] = @ \cup {work[w].seen.obj}]
    BY <1>2, <1>3, <2>3 DEF TypeInv
  <2>4. QED BY <2>1, <2>2, <2>3
<1>5. ASSUME NEW p \in {"succeed", "defer"}, Goto(w, p) PROVE Moves(w)
  <2>1. Goes(w, p) /\ work'[w].obj = work[w].obj /\ work'[w].late = work[w].late
    BY <1>2, <1>5, GotoGoes DEF Commits
  <2>2. work'[w].pc = p /\ work'[w].seen = work[w].seen /\ work'[w].id = work[w].id
    BY <2>1 DEF Goes
  <2>3. GoodWork(work'[w])
    BY <1>1, <1>2, <1>3, <2>1, <2>2 DEF GoodWork, OfQueued, OfSelected, OfPreparing, OfTorrent,
         OfRange, Overrun
  <2>4. p = "succeed" => work[w].seen.obj \in published'[Claimed(w)]
    <3>1. SUFFICES ASSUME p = "succeed"
                   PROVE  work[w].seen.obj \in published'[Claimed(w)]
      OBVIOUS
    <3>2. ~ Goto(w, "defer")
      <4>1. Goto(w, "defer") => work'[w].pc = "defer"
        BY <1>2 DEF Goto, TypeInv, Work
      <4>2. QED BY <2>2, <3>1, <4>1
    <3>3. published' = [published EXCEPT ![Claimed(w)] = @ \cup {work[w].seen.obj}]
      BY <3>2, Zenon DEF Publish
    <3>4. QED BY <1>2, <3>3 DEF TypeInv
  <2>5. QED BY <1>1, <1>2, <1>4, <2>1, <2>2, <2>3, <2>4 DEF Moves, AccountMoves
<1>6. Goto(w, "succeed") \/ Goto(w, "defer")
  BY Zenon DEF Publish
<1>7. QED BY <1>5, <1>6

\* Every provider call.
LEMMA ProviderCallMoves ==
  ASSUME Inv, NEW w \in Workers, ProviderCall(w)
  PROVE  Moves(w)
BY ResolveMoves, FindMoves, CreateMoves, ReconcileMoves, PrepareRangeMoves, InspectMoves,
   InspectRangeMoves, DeleteMoves, PublishStepMoves DEF ProviderCall

-----------------------------------------------------------------------------
(* The transactions.                                                       *)

\* What each transition does: under the lease, from the row that was claimed, to a good
\* row; and what the properties ask of it.
Commit(w, row) ==
  /\ work[w].pc # "idle" /\ lease[Claimed(w)] = w
  /\ job[Claimed(w)] = work[w].seen /\ work[w].seen.state \in Active
  /\ Committed(w, row)
  /\ GoodRow(row)
  /\ row.obj \in Objects => row.obj = work[w].seen.obj \/ row.obj = work[w].obj
  /\ work[w].seen.owned /\ row.state \in {"selected", "failed"} => work[w].seen.obj \notin account
  /\ row.state = "succeeded" => work[w].pc = "succeed" /\ row.obj = work[w].seen.obj

\* The facts that every transition starts from.
LEMMA AcceptedHolds ==
  ASSUME Inv, NEW w \in Workers, Accepted(w)
  PROVE  /\ TypeInv /\ work[w] \in Work /\ GoodWork(work[w]) /\ GoodRow(work[w].seen)
         /\ work[w].pc # "idle" /\ work[w].pc \in Commits
         /\ Claimed(w) \in Jobs /\ lease[Claimed(w)] = w
         /\ job[Claimed(w)] = work[w].seen /\ work[w].seen.state \in Active
<1>1. work[w].pc \in Commits /\ lease[Claimed(w)] = w
  BY DEF Accepted
<1>2. work[w].pc # "idle"
  BY <1>1 DEF Commits
<1>3. QED BY <1>1, <1>2, Busy DEF Inv, LeaseInv, GoodWork

LEMMA PlanCommits ==
  ASSUME Inv, NEW w \in Workers, Plan(w)
  PROVE  \E row : Commit(w, row)
<1>1. work[w].pc = "plan" /\ Accepted(w)
  BY DEF Plan
<1>2. /\ work[w] \in Work /\ GoodWork(work[w]) /\ GoodRow(work[w].seen)
      /\ lease[Claimed(w)] = w /\ job[Claimed(w)] = work[w].seen /\ work[w].seen.state \in Active
  BY <1>1, AcceptedHolds
<1>3. work[w].plan \in Seq(Selections) /\ work[w].plan # <<>> /\ Len(work[w].plan) <= MaxCandidates
        /\ work[w].seen.state = "queued"
  BY <1>1, <1>2 DEF Work, GoodWork, OfQueued
<1>4. ~ work[w].seen.owned
  BY <1>2, <1>3, RowFields
<1> DEFINE row == [Unprepared(job[Claimed(w)]) EXCEPT
             !.state = "selected", !.plan = work[w].plan, !.ord = 1,
             !.outcome = [i \in DOMAIN work[w].plan |-> IF i = 1 THEN "selected" ELSE "pending"]]
<1>5. Committed(w, row)
  BY DEF Plan
<1>6. GoodRow(row) /\ row.obj = NoObject /\ row.state = "selected"
  <2> DEFINE outcome == [i \in DOMAIN work[w].plan |-> IF i = 1 THEN "selected" ELSE "pending"]
  <2>1. work[w].seen \in Row
    BY <1>2, RowFields
  <2>2. outcome \in Seq(Outcomes) /\ DOMAIN outcome = DOMAIN work[w].plan
    <3>1. DOMAIN work[w].plan = 1 .. Len(work[w].plan) /\ Len(work[w].plan) \in Nat
      BY <1>3
    <3>2. QED BY <3>1 DEF Outcomes
  <2>3. \A i \in DOMAIN work[w].plan : outcome[i] = IF i = 1 THEN "selected" ELSE "pending"
    OBVIOUS
  <2>4. row = [Unprepared(work[w].seen) EXCEPT
                !.state = "selected", !.plan = work[w].plan, !.ord = 1, !.outcome = outcome]
    BY <1>2
  <2> HIDE DEF outcome, row
  <2>5. /\ row \in Row /\ row.state = "selected" /\ row.plan = work[w].plan /\ row.ord = 1
        /\ row.outcome = outcome /\ row.obj = NoObject /\ row.owned = FALSE
    BY <1>3, <2>1, <2>2, <2>4, NoObjectType DEF Unprepared, Row, Active
  <2>6. QED BY <1>3, <2>2, <2>3, <2>5, PlannedRow
<1> HIDE DEF row
<1>7. Commit(w, row)
  BY <1>1, <1>2, <1>4, <1>5, <1>6, NoObjectType DEF Commit
<1>8. QED BY <1>7

LEMMA AttachCommits ==
  ASSUME Inv, NEW w \in Workers, AttachPrepared(w)
  PROVE  \E row : Commit(w, row)
<1>1. work[w].pc = "attach" /\ Accepted(w)
  BY DEF AttachPrepared
<1>2. /\ work[w] \in Work /\ GoodWork(work[w]) /\ GoodRow(work[w].seen)
      /\ lease[Claimed(w)] = w /\ job[Claimed(w)] = work[w].seen /\ work[w].seen.state \in Active
  BY <1>1, AcceptedHolds
<1>3. /\ work[w].seen.state = "selected" /\ work[w].obj \in AnyObject /\ work[w].owned \in BOOLEAN
      /\ work[w].obj.of = work[w].seen.plan[work[w].seen.ord]
      /\ work[w].owned => work[w].obj \in Objects
  BY <1>1, <1>2 DEF Work, GoodWork, OfSelected
<1> DEFINE row == [job[Claimed(w)] EXCEPT
             !.state = "preparing", !.obj = work[w].obj, !.owned = work[w].owned]
<1>4. Committed(w, row)
  BY DEF AttachPrepared
<1>5. GoodRow(row) /\ row.obj = work[w].obj /\ row.state = "preparing"
  <2>1. work[w].seen \in Row
    BY <1>2, RowFields
  <2>2. /\ row \in Row /\ row.state = "preparing" /\ row.obj = work[w].obj
        /\ row.owned = work[w].owned /\ row.plan = work[w].seen.plan
        /\ row.ord = work[w].seen.ord /\ row.outcome = work[w].seen.outcome
    BY <1>2, <1>3, <2>1 DEF Row, Active
  <2> HIDE DEF row
  <2>3. QED BY <1>2, <1>3, <2>2, PreparedRow
<1> HIDE DEF row
<1>6. Commit(w, row)
  BY <1>1, <1>2, <1>4, <1>5 DEF Commit
<1>7. QED BY <1>6

LEMMA AdvanceCommits ==
  ASSUME Inv, NEW w \in Workers, Advance(w)
  PROVE  \E row : Commit(w, row)
<1>1. work[w].pc = "advance" /\ Accepted(w)
  BY DEF Advance
<1>2. /\ work[w] \in Work /\ GoodWork(work[w]) /\ GoodRow(work[w].seen)
      /\ lease[Claimed(w)] = w /\ job[Claimed(w)] = work[w].seen /\ work[w].seen.state \in Active
  BY <1>1, AcceptedHolds
<1>3. work[w].outcome \in Settled /\ work[w].seen.ord > 0
  BY <1>1, <1>2 DEF GoodWork, GoodRow, Active
<1>4. work[w].seen.owned => work[w].seen.obj \notin account
  BY <1>1 DEF Inv, GoneInv
<1> DEFINE old == job[Claimed(w)]
           settled == [old.outcome EXCEPT ![work[w].seen.ord] = work[w].outcome]
           n == NextPending(settled)
           next == [Unprepared(old) EXCEPT !.state = "selected", !.ord = n,
                      !.outcome = [settled EXCEPT ![n] = "selected"]]
           failed == [Unprepared(old) EXCEPT !.state = "failed", !.ord = 0, !.outcome = settled]
           more == \E i \in DOMAIN settled : settled[i] = "pending"
<1>5. Committed(w, IF more THEN next ELSE failed)
  BY Zenon DEF Advance
<1>6. more => GoodRow(next) /\ next.obj = NoObject /\ next.state = "selected"
  <2>1. SUFFICES ASSUME more PROVE GoodRow(next) /\ next.obj = NoObject /\ next.state = "selected"
    OBVIOUS
  <2> DEFINE seen == work[w].seen
             after == [settled EXCEPT ![n] = "selected"]
  <2>2. /\ seen \in Row /\ seen.ord \in Nat /\ seen.ord \in DOMAIN seen.plan
        /\ DOMAIN seen.plan = 1 .. Len(seen.plan) /\ Len(seen.plan) \in Nat
        /\ DOMAIN seen.outcome = DOMAIN seen.plan /\ seen.outcome \in Seq(Outcomes)
    BY <1>2, <1>3, RowFields
  <2>3. settled = [seen.outcome EXCEPT ![seen.ord] = work[w].outcome]
    BY <1>2
  <2>4. n = seen.ord + 1 /\ n \in DOMAIN seen.plan
    <3> HIDE DEF settled
    <3>1. QED BY <1>2, <1>3, <2>1, <2>3, NextPendingIs
  <2>5. next = [Unprepared(seen) EXCEPT !.state = "selected", !.ord = n, !.outcome = after]
    BY <1>2
  <2> HIDE DEF next, seen, n, settled
  <2>6. seen.outcome \in [DOMAIN seen.plan -> Outcomes] /\ n \in Nat
    BY <2>2, <2>4
  <2>7. /\ DOMAIN settled = DOMAIN seen.plan
        /\ \A i \in DOMAIN seen.plan :
             settled[i] = IF i = seen.ord THEN work[w].outcome ELSE seen.outcome[i]
        /\ settled \in [DOMAIN seen.plan -> Outcomes]
    BY <1>3, <2>2, <2>3, <2>6 DEF Outcomes, Settled
  <2>8. /\ after \in [DOMAIN seen.plan -> Outcomes]
        /\ \A i \in DOMAIN seen.plan :
             after[i] = IF i = n THEN "selected"
                        ELSE IF i = seen.ord THEN work[w].outcome ELSE seen.outcome[i]
    BY <2>4, <2>7 DEF Outcomes
  <2> HIDE DEF after
  <2>9. after \in Seq(Outcomes) /\ DOMAIN after = DOMAIN seen.plan
    BY <2>2, <2>8
  <2>10. /\ next \in Row /\ next.state = "selected" /\ next.plan = seen.plan /\ next.ord = n
        /\ next.outcome = after /\ next.obj = NoObject /\ next.owned = FALSE
    BY <2>2, <2>6, <2>5, <2>9, NoObjectType DEF Unprepared, Row, Active
  <2>11. GoodRow(seen) /\ seen.ord > 0
    BY <1>2, <1>3 DEF seen
  <2>12. next.ord = seen.ord + 1 /\ seen.ord + 1 \in DOMAIN seen.plan
          /\ DOMAIN next.outcome = DOMAIN seen.plan
    BY <2>4, <2>9, <2>10
  <2>13. \A i \in DOMAIN seen.plan :
           next.outcome[i] = IF i = seen.ord + 1 THEN "selected"
                             ELSE IF i = seen.ord THEN work[w].outcome ELSE seen.outcome[i]
    BY <2>4, <2>8, <2>10
  <2>14. QED BY <1>3, <2>10, <2>11, <2>12, <2>13, NextRow
<1>7. ~ more => GoodRow(failed) /\ failed.obj = NoObject /\ failed.state = "failed"
  BY <1>2, <1>3, LastRow
<1> HIDE DEF next, failed, more
<1> DEFINE row == IF more THEN next ELSE failed
<1>8. GoodRow(row) /\ row.obj = NoObject /\ row.state \in {"selected", "failed"}
  BY <1>6, <1>7
<1>9. Committed(w, row)
  BY <1>5
<1> HIDE DEF row
<1>10. Commit(w, row)
  BY <1>1, <1>2, <1>4, <1>8, <1>9, NoObjectType DEF Commit
<1>11. QED BY <1>10

LEMMA EndCommits ==
  ASSUME Inv, NEW w \in Workers, Defer(w) \/ Succeed(w) \/ Fail(w)
  PROVE  \E row : Commit(w, row)
<1>1. Accepted(w)
  BY DEF Defer, Succeed, Fail
<1>2. /\ work[w].pc # "idle" /\ GoodWork(work[w]) /\ GoodRow(work[w].seen)
      /\ lease[Claimed(w)] = w /\ job[Claimed(w)] = work[w].seen /\ work[w].seen.state \in Active
  BY <1>1, AcceptedHolds
<1>3. work[w].seen.state \in {"queued", "selected"} => ~ work[w].seen.owned
  BY <1>2, RowFields
<1>4. CASE Defer(w)
  <2>1. Committed(w, work[w].seen)
    BY <1>2, <1>4 DEF Defer
  <2>2. Commit(w, work[w].seen)
    BY <1>2, <1>3, <2>1 DEF Commit, Active
  <2>3. QED BY <2>2
<1>5. ASSUME NEW st \in Terminal, Committed(w, [job[Claimed(w)] EXCEPT !.state = st]),
             st = "succeeded" => work[w].pc = "succeed", st = "failed" => work[w].pc = "fail"
      PROVE  \E row : Commit(w, row)
  <2> DEFINE row == [job[Claimed(w)] EXCEPT !.state = st]
  <2>1. /\ st = "succeeded" => work[w].seen.state = "preparing"
        /\ st = "failed" => work[w].seen.state = "queued"
    BY <1>2, <1>5 DEF GoodWork, OfPreparing, OfQueued
  <2>2. GoodRow(row) /\ row.obj = work[w].seen.obj /\ row.state = st
    BY <1>2, <2>1, EndedRow
  <2>3. Committed(w, row)
    BY <1>5
  <2> HIDE DEF row
  <2>4. Commit(w, row)
    BY <1>2, <1>3, <1>5, <2>1, <2>2, <2>3 DEF Commit, Terminal
  <2>5. QED BY <2>4
<1>6. CASE Succeed(w)
  BY <1>5, <1>6 DEF Succeed, Terminal
<1>7. CASE Fail(w)
  <2>1. CASE work[w].pc = "fail"
    <3>1. Committed(w, [job[Claimed(w)] EXCEPT !.state = "failed"])
      BY <1>7, <2>1 DEF Fail
    <3>2. QED BY <1>5, <2>1, <3>1 DEF Terminal
  <2>2. CASE work[w].pc = "review"
    <3>1. Committed(w, [job[Claimed(w)] EXCEPT !.state = "manual_review"])
      BY <1>7, <2>2 DEF Fail
    <3>2. QED BY <1>5, <2>2, <3>1 DEF Terminal
  <2>3. QED BY <1>7, <2>1, <2>2 DEF Fail
<1>8. QED BY <1>4, <1>6, <1>7

\* Every transition.
LEMMA TransitionCommits ==
  ASSUME Inv, NEW w \in Workers, Transition(w)
  PROVE  \E row : Commit(w, row)
BY PlanCommits, AttachCommits, AdvanceCommits, EndCommits DEF Transition

-----------------------------------------------------------------------------
(* The invariant.                                                          *)

\* The user changes the account; this also stands for a step that changes nothing.
UserMoves ==
  /\ UNCHANGED <<tableVars, published, work>>
  /\ \/ account' \subseteq account /\ made' = made
     \/ \E h \in Hashes : NewObject(h, "user")

\* The process of worker w has stopped, or was refused.
Drops(w) == work[w].pc # "idle" /\ Drop(w)

\* The steps, by what they do.
LEMMA Steps ==
  ASSUME Inv, [Next]_vars
  PROVE  \/ \E j \in Jobs : Submit(j) \/ ClaimLost(j) \/ Expire(j) \/ Wake(j)
         \/ \E w \in Workers, j \in Jobs : Claim(w, j)
         \/ \E w \in Workers : Moves(w) \/ Drops(w) \/ \E row : Commit(w, row)
         \/ UserMoves
<1>1. ASSUME NEW w \in Workers, WorkerStep(w) \/ Stop(w)
      PROVE  Moves(w) \/ Drops(w) \/ \E row : Commit(w, row)
  <2>1. CASE ProviderCall(w)
    BY <2>1, ProviderCallMoves
  <2>2. CASE Transition(w)
    BY <2>2, TransitionCommits
  <2>3. CASE Refused(w) \/ Stop(w)
    BY <2>3 DEF Refused, Stop, Drops, Commits
  <2>4. QED BY <1>1, <2>1, <2>2, <2>3 DEF WorkerStep
<1>2. ASSUME NEW h \in Hashes, UserAdds(h) PROVE UserMoves
  BY <1>2 DEF UserAdds, UserMoves
<1>3. ASSUME NEW o \in account, UserRemoves(o) PROVE UserMoves
  BY <1>3 DEF UserRemoves, UserMoves
<1>4. CASE UNCHANGED vars
  BY <1>4 DEF vars, UserMoves
<1>5. CASE Next
  BY <1>1, <1>2, <1>3, <1>5 DEF Next
<1>6. QED BY <1>4, <1>5

\* A new object is numbered after all the others of its hash.
LEMMA NewNumber ==
  ASSUME TypeInv, NEW h \in Hashes, NEW by \in Jobs \cup {"user"}, NewObject(h, by)
  PROVE  /\ account' \subseteq Objects /\ made' \in [Hashes -> 0 .. MaxObjects]
         /\ \A g \in Hashes : made[g] \in Nat /\ made'[g] \in Nat /\ made[g] <= made'[g]
         /\ \A o \in account' : o \notin account =>
              o \in Objects /\ o.of = h /\ o.by = by /\ o.n = made[h] + 1 /\ o.n <= made'[h]
<1> DEFINE new == [of |-> h, n |-> made[h] + 1, by |-> by]
<1>1. made[h] \in 0 .. MaxObjects /\ made[h] < MaxObjects /\ made' = [made EXCEPT ![h] = made[h] + 1]
        /\ account' = account \cup {new}
  BY DEF NewObject, TypeInv
<1>2. new \in Objects /\ new.of = h /\ new.by = by /\ new.n = made[h] + 1
  BY <1>1, JobAssumption DEF Objects
<1> HIDE DEF new
<1>3. account' \subseteq Objects
  BY <1>1, <1>2 DEF TypeInv
<1>4. made[h] + 1 \in 0 .. MaxObjects
  BY <1>1, JobAssumption
<1>5. made' \in [Hashes -> 0 .. MaxObjects] /\ made'[h] = made[h] + 1
  BY <1>1, <1>4 DEF TypeInv
<1>6. \A g \in Hashes : made[g] \in Nat /\ made'[g] \in Nat /\ made[g] <= made'[g]
  BY <1>1, <1>5, JobAssumption DEF TypeInv
<1>7. QED BY <1>1, <1>2, <1>3, <1>5, <1>6

\* The same for whatever happens to the account.
LEMMA AccountStep ==
  ASSUME TypeInv,
         \/ account' \subseteq account /\ made' = made
         \/ \E h \in Hashes, by \in Jobs \cup {"user"} : NewObject(h, by)
  PROVE  /\ account' \subseteq Objects /\ made' \in [Hashes -> 0 .. MaxObjects]
         /\ \A g \in Hashes : made[g] \in Nat /\ made'[g] \in Nat /\ made[g] <= made'[g]
         /\ \A o \in account' : o \notin account =>
              o \in Objects /\ o.n = made[o.of] + 1 /\ o.n <= made'[o.of]
<1>1. CASE account' \subseteq account /\ made' = made
  BY <1>1, JobAssumption DEF TypeInv
<1>2. ASSUME NEW h \in Hashes, NEW by \in Jobs \cup {"user"}, NewObject(h, by)
      PROVE  /\ account' \subseteq Objects /\ made' \in [Hashes -> 0 .. MaxObjects]
             /\ \A g \in Hashes : made[g] \in Nat /\ made'[g] \in Nat /\ made[g] <= made'[g]
             /\ \A o \in account' : o \notin account =>
                  o \in Objects /\ o.n = made[o.of] + 1 /\ o.n <= made'[o.of]
  BY <1>2, NewNumber
<1>3. QED BY <1>1, <1>2

\* The step of a worker or of the user is such a step.
LEMMA AccountMovesStep ==
  ASSUME NEW w \in Workers, AccountMoves(w) \/ UserMoves
  PROVE  \/ account' \subseteq account /\ made' = made
         \/ \E h \in Hashes, by \in Jobs \cup {"user"} : NewObject(h, by)
BY DEF AccountMoves, UserMoves

\* A worker that is idle again, and one that has claimed a job.
LEMMA IdleWork == Idle \in Work /\ GoodWork(Idle) /\ Idle.pc = "idle" /\ Idle.obj = NoObject
                    /\ Idle.seen.obj = NoObject
<1>1. <<>> \in Seq(Selections)
  OBVIOUS
<1>2. NoJob \in Row
  BY NoJobRow, RowFields
<1>3. QED BY <1>1, <1>2, NoJobRow, NoObjectType DEF Idle, Work, GoodWork, Outcomes

LEMMA ClaimedWork ==
  ASSUME NEW j \in Jobs, NEW row, GoodRow(row), row.state \in Active,
         NEW p, p = FirstCall(row)
  PROVE  /\ p \in Calls /\ p \notin {"idle", "advance", "create", "succeed"}
         /\ \A r \in Work : r.pc = p /\ r.id = j /\ r.seen = row /\ r.late = FALSE => GoodWork(r)
<1>1. /\ row.state = "queued" => p = "resolve"
      /\ row.state = "selected" => p = IF row.plan[row.ord] \in Hashes THEN "find" ELSE "range_prepare"
      /\ row.state = "preparing" => p = IF row.plan[row.ord] \in Hashes THEN "inspect" ELSE "range_inspect"
  BY DEF FirstCall, Active
<1>2. row.state \in {"selected", "preparing"} => row.plan[row.ord] \in Hashes \cup Ranges
  BY RowFields DEF GoodRow, Selections
<1>3. p \in Calls /\ p \notin {"idle", "advance", "create", "succeed"}
  BY <1>1 DEF Active, Calls
<1>4. ASSUME NEW r \in Work, r.pc = p, r.id = j, r.seen = row, r.late = FALSE PROVE GoodWork(r)
  BY <1>1, <1>2, <1>4 DEF GoodWork, OfQueued, OfSelected, OfPreparing, OfTorrent, OfRange, Active
<1>5. QED BY <1>3, <1>4

\* Initially there is nothing.
LEMMA InvInit == ASSUME Init PROVE Inv
<1>1. NoJob \in Row /\ GoodRow(NoJob)
  BY NoJobRow, RowFields
<1>2. TypeInv
  BY <1>1, IdleWork, NoObjectType, JobAssumption DEF Init, TypeInv
<1>3. RowsInv /\ WorkInv
  BY <1>1, IdleWork DEF Init, RowsInv, WorkInv
<1>4. LeaseInv /\ GoneInv /\ FreshInv /\ NoDuplicateObject
  BY IdleWork DEF Init, LeaseInv, GoneInv, FreshInv, NoDuplicateObject
<1>5. NumberInv
  BY IdleWork, NoJobRow, NoObjectType DEF Init, NumberInv, Numbered
<1>6. QED BY <1>2, <1>3, <1>4, <1>5 DEF Inv

\* What the steps do to the rows and to the workers' records.
LEMMA ClaimDoes ==
  ASSUME Inv, NEW w \in Workers, NEW j \in Jobs, Claim(w, j)
  PROVE  /\ work' \in [Workers -> Work] /\ \A v \in Workers : v # w => work'[v] = work[v]
         /\ GoodWork(work'[w]) /\ work'[w].pc \notin {"idle", "advance", "create", "succeed"}
         /\ work'[w].id = j /\ work'[w].seen = job[j] /\ work'[w].late = FALSE
         /\ work'[w].obj = NoObject
<1>1. TypeInv /\ GoodRow(job[j]) /\ job[j].state \in Active
  BY DEF Inv, RowsInv, Claim, Eligible
<1> DEFINE r == [Idle EXCEPT !.pc = FirstCall(job[j]), !.id = j, !.seen = job[j]]
<1>2. work' = [work EXCEPT ![w] = r]
  BY DEF Claim
<1>3. /\ r \in Work /\ GoodWork(r) /\ r.pc \notin {"idle", "advance", "create", "succeed"}
      /\ r.id = j /\ r.seen = job[j] /\ r.late = FALSE /\ r.obj = NoObject
  <2> DEFINE p == FirstCall(job[j])
  <2>1. p \in Calls /\ p \notin {"idle", "advance", "create", "succeed"}
    BY <1>1, ClaimedWork
  <2>2. job[j] \in Row
    BY <1>1, RowFields
  <2> HIDE DEF p
  <2>3. /\ r \in Work /\ r.pc = p /\ r.id = j /\ r.seen = job[j] /\ r.late = FALSE
        /\ r.obj = NoObject
    BY <2>1, <2>2, IdleWork DEF Idle, Work, p
  <2> HIDE DEF r
  <2>4. GoodWork(r)
    BY <1>1, <2>3, ClaimedWork DEF p
  <2>5. QED BY <2>1, <2>3, <2>4
<1> HIDE DEF r
<1>4. QED BY <1>1, <1>2, <1>3 DEF TypeInv

LEMMA CommitDoes ==
  ASSUME Inv, NEW w \in Workers, NEW row, Commit(w, row)
  PROVE  /\ Claimed(w) \in Jobs /\ row \in Row
         /\ job' \in [Jobs -> Row] /\ job'[Claimed(w)] = row
         /\ \A j \in Jobs : j # Claimed(w) => job'[j] = job[j]
         /\ lease' \in [Jobs -> Workers \cup {Free, Orphan}] /\ lease'[Claimed(w)] = Free
         /\ \A j \in Jobs : j # Claimed(w) => lease'[j] = lease[j]
         /\ due' \in [Jobs -> BOOLEAN]
         /\ work' \in [Workers -> Work] /\ work'[w] = Idle
         /\ \A v \in Workers : v # w => work'[v] = work[v]
         /\ UNCHANGED <<account, made, published>>
<1>1. TypeInv /\ Claimed(w) \in Jobs
  BY Busy DEF Commit
<1>2. row \in Row
  BY RowFields DEF Commit
<1>3. /\ job' = [job EXCEPT ![Claimed(w)] = row]
      /\ due' = [due EXCEPT ![Claimed(w)] = (work[w].pc # "defer")]
      /\ lease' = [lease EXCEPT ![Claimed(w)] = Free]
      /\ work' = [work EXCEPT ![w] = Idle]
      /\ UNCHANGED <<account, made, published>>
  BY DEF Commit, Committed
<1>4. job' \in [Jobs -> Row] /\ lease' \in [Jobs -> Workers \cup {Free, Orphan}]
        /\ due' \in [Jobs -> BOOLEAN] /\ work' \in [Workers -> Work]
  BY <1>1, <1>2, <1>3, IdleWork DEF TypeInv
<1>5. QED BY <1>1, <1>2, <1>3, <1>4 DEF TypeInv

LEMMA DropDoes ==
  ASSUME Inv, NEW w \in Workers, Drops(w)
  PROVE  /\ Claimed(w) \in Jobs
         /\ work' \in [Workers -> Work] /\ work'[w] = Idle
         /\ \A v \in Workers : v # w => work'[v] = work[v]
         /\ lease' \in [Jobs -> Workers \cup {Free, Orphan}]
         /\ \A j \in Jobs : lease'[j] = lease[j] \/ (lease[j] = w /\ lease'[j] = Orphan)
         /\ UNCHANGED <<job, due, account, made, published>>
<1>1. TypeInv /\ Claimed(w) \in Jobs
  BY Busy DEF Drops
<1>2. work' = [work EXCEPT ![w] = Idle] /\ UNCHANGED <<job, due, account, made, published>>
  BY DEF Drops, Drop
<1>3. /\ work' \in [Workers -> Work] /\ work'[w] = Idle
      /\ \A v \in Workers : v # w => work'[v] = work[v]
  BY <1>1, <1>2, IdleWork DEF TypeInv
<1>4. /\ lease' \in [Jobs -> Workers \cup {Free, Orphan}]
      /\ \A j \in Jobs : lease'[j] = lease[j] \/ (lease[j] = w /\ lease'[j] = Orphan)
  <2>1. CASE lease[Claimed(w)] = w
    <3>1. lease' = [lease EXCEPT ![Claimed(w)] = Orphan]
      BY <2>1 DEF Drops, Drop
    <3>2. QED BY <1>1, <2>1, <3>1 DEF TypeInv
  <2>2. CASE lease[Claimed(w)] # w
    <3>1. lease' = lease
      BY <2>2 DEF Drops, Drop
    <3>2. QED BY <1>1, <3>1 DEF TypeInv
  <2>3. QED BY <2>1, <2>2
<1>5. QED BY <1>1, <1>2, <1>3, <1>4

\* Every step keeps the types.
LEMMA TypeStep ==
  ASSUME Inv, [Next]_vars
  PROVE  TypeInv'
<1>1. TypeInv
  BY DEF Inv
<1>2. ASSUME NEW j \in Jobs, Submit(j) PROVE TypeInv'
  <2>1. [NoJob EXCEPT !.state = "queued"] \in Row
    BY NoJobRow, RowFields
  <2>2. QED BY <1>1, <1>2, <2>1 DEF Submit, TypeInv
<1>3. ASSUME NEW j \in Jobs, ClaimLost(j) \/ Expire(j) PROVE TypeInv'
  BY <1>1, <1>3 DEF ClaimLost, Expire, TypeInv
<1>4. ASSUME NEW j \in Jobs, Wake(j) PROVE TypeInv'
  BY <1>1, <1>4 DEF Wake, TypeInv
<1>5. ASSUME NEW w \in Workers, NEW j \in Jobs, Claim(w, j) PROVE TypeInv'
  <2>1. work' \in [Workers -> Work]
    BY <1>5, ClaimDoes
  <2>2. QED BY <1>1, <1>5, <2>1 DEF Claim, TypeInv
<1>6. ASSUME NEW w \in Workers, Moves(w) PROVE TypeInv'
  <2>1. account' \subseteq Objects /\ made' \in [Hashes -> 0 .. MaxObjects]
    BY <1>1, <1>6, AccountMovesStep, AccountStep DEF Moves
  <2>2. QED BY <1>1, <1>6, <2>1 DEF Moves, Goes, tableVars, TypeInv
<1>7. ASSUME NEW w \in Workers, Drops(w) PROVE TypeInv'
  BY <1>1, <1>7, DropDoes DEF TypeInv
<1>8. ASSUME NEW w \in Workers, NEW row, Commit(w, row) PROVE TypeInv'
  BY <1>1, <1>8, CommitDoes DEF TypeInv
<1>9. ASSUME UserMoves PROVE TypeInv'
  <2>1. account' \subseteq Objects /\ made' \in [Hashes -> 0 .. MaxObjects]
    BY <1>1, <1>9, AccountStep DEF UserMoves
  <2>2. QED BY <1>1, <1>9, <2>1 DEF UserMoves, tableVars, TypeInv
<1>10. QED BY <1>2, <1>3, <1>4, <1>5, <1>6, <1>7, <1>8, <1>9, Steps

\* Every step keeps the rows and the workers' records good.
LEMMA GoodStep ==
  ASSUME Inv, [Next]_vars
  PROVE  RowsInv' /\ WorkInv'
<1>1. TypeInv /\ RowsInv /\ WorkInv
  BY DEF Inv
<1>2. ASSUME NEW j \in Jobs, Submit(j) PROVE RowsInv' /\ WorkInv'
  BY <1>1, <1>2, NoJobRow DEF Submit, TypeInv, RowsInv, WorkInv
<1>3. ASSUME NEW j \in Jobs, ClaimLost(j) \/ Expire(j) \/ Wake(j) PROVE RowsInv' /\ WorkInv'
  BY <1>1, <1>3 DEF ClaimLost, Expire, Wake, RowsInv, WorkInv
<1>4. ASSUME NEW w \in Workers, NEW j \in Jobs, Claim(w, j) PROVE RowsInv' /\ WorkInv'
  <2>1. RowsInv'
    BY <1>1, <1>4 DEF Claim, RowsInv
  <2>2. QED BY <1>1, <1>4, <2>1, ClaimDoes DEF WorkInv
<1>5. ASSUME NEW w \in Workers, Moves(w) PROVE RowsInv' /\ WorkInv'
  BY <1>1, <1>5 DEF Moves, Goes, tableVars, RowsInv, WorkInv
<1>6. ASSUME NEW w \in Workers, Drops(w) PROVE RowsInv' /\ WorkInv'
  BY <1>1, <1>6, DropDoes, IdleWork DEF RowsInv, WorkInv
<1>7. ASSUME NEW w \in Workers, NEW row, Commit(w, row) PROVE RowsInv' /\ WorkInv'
  <2>1. GoodRow(row)
    BY <1>7 DEF Commit
  <2>2. QED BY <1>1, <1>7, <2>1, CommitDoes, IdleWork DEF RowsInv, WorkInv
<1>8. ASSUME UserMoves PROVE RowsInv' /\ WorkInv'
  BY <1>1, <1>8 DEF UserMoves, tableVars, RowsInv, WorkInv
<1>9. QED BY <1>2, <1>3, <1>4, <1>5, <1>6, <1>7, <1>8, Steps

\* Every step keeps the leases: nobody but its holder changes a row under a lease, and a
\* lease that runs out is that of a worker that is late.
LEMMA LeaseStep ==
  ASSUME Inv, [Next]_vars
  PROVE  LeaseInv'
<1>1. TypeInv /\ LeaseInv /\ WorkInv
  BY DEF Inv
<1>2. \A w \in Workers : work[w].pc # "idle" => work[w].id \in Jobs /\ work[w].seen.state \in Active
  BY <1>1 DEF WorkInv, GoodWork
<1>3. \A w \in Workers : w # Free /\ w # Orphan
  BY LeaseAssumption
<1>4. ASSUME NEW j \in Jobs, Submit(j) PROVE LeaseInv'
  <2>1. job[j].state \notin Active /\ \A k \in Jobs : k # j => job'[k] = job[k]
    BY <1>4 DEF Submit, Active, TypeInv
  <2>2. UNCHANGED <<lease, work>>
    BY <1>4 DEF Submit
  <2>3. QED BY <1>1, <1>2, <2>1, <2>2 DEF LeaseInv, Claimed
<1>5. ASSUME NEW j \in Jobs, ClaimLost(j) PROVE LeaseInv'
  <2>1. lease[j] = Free /\ lease' = [lease EXCEPT ![j] = Orphan] /\ UNCHANGED <<job, work>>
    BY <1>5 DEF ClaimLost, Eligible
  <2>2. QED BY <1>1, <1>2, <1>3, <2>1 DEF LeaseInv, Claimed, TypeInv
<1>6. ASSUME NEW j \in Jobs, Expire(j) PROVE LeaseInv'
  <2>1. lease[j] = Orphan \/ \E v \in Workers : lease[j] = v /\ work[v].late
    BY <1>6 DEF Expire, MayExpire, MayOverrun
  <2>2. lease' = [lease EXCEPT ![j] = Free] /\ UNCHANGED <<job, work>>
    BY <1>6 DEF Expire
  <2>3. QED BY <1>1, <1>2, <1>3, <2>1, <2>2 DEF LeaseInv, Claimed, TypeInv
<1>7. ASSUME NEW j \in Jobs, Wake(j) PROVE LeaseInv'
  BY <1>1, <1>7 DEF Wake, LeaseInv, Claimed
<1>8. ASSUME NEW w \in Workers, NEW j \in Jobs, Claim(w, j) PROVE LeaseInv'
  <2>1. lease[j] = Free /\ lease' = [lease EXCEPT ![j] = w] /\ UNCHANGED job
    BY <1>8 DEF Claim, Eligible
  <2>2. lease'[j] = w /\ \A k \in Jobs : k # j => lease'[k] = lease[k]
    BY <1>1, <2>1 DEF TypeInv
  <2>3. work'[w].id = j /\ work'[w].seen = job[j] /\ \A v \in Workers : v # w => work'[v] = work[v]
    BY <1>8, ClaimDoes
  <2>4. QED BY <1>1, <1>2, <1>3, <2>1, <2>2, <2>3 DEF LeaseInv, Claimed
<1>9. ASSUME NEW w \in Workers, Moves(w) PROVE LeaseInv'
  BY <1>1, <1>9 DEF Moves, Goes, tableVars, LeaseInv, Claimed
<1>10. ASSUME NEW w \in Workers, Drops(w) PROVE LeaseInv'
  BY <1>1, <1>2, <1>3, <1>10, DropDoes, IdleWork DEF LeaseInv, Claimed
<1>11. ASSUME NEW w \in Workers, NEW row, Commit(w, row) PROVE LeaseInv'
  <2>1. lease[Claimed(w)] = w
    BY <1>11 DEF Commit
  <2>2. QED BY <1>1, <1>2, <1>3, <1>11, <2>1, CommitDoes, IdleWork DEF LeaseInv, Claimed
<1>12. ASSUME UserMoves PROVE LeaseInv'
  BY <1>1, <1>12 DEF UserMoves, tableVars, LeaseInv, Claimed
<1>13. QED BY <1>4, <1>5, <1>6, <1>7, <1>8, <1>9, <1>10, <1>11, <1>12, Steps

\* Every step keeps the numbers of the objects.
LEMMA NumberStep ==
  ASSUME Inv, [Next]_vars
  PROVE  NumberInv'
<1>1. TypeInv /\ NumberInv
  BY DEF Inv
<1>2. ASSUME \A g \in Hashes : made[g] \in Nat /\ made'[g] \in Nat /\ made[g] <= made'[g],
             NEW o, o \in Objects => o.n <= made[o.of]
      PROVE  o \in Objects => o.n <= made'[o.of]
  BY <1>2, JobAssumption DEF Objects
<1>3. ASSUME NEW j \in Jobs, Submit(j) PROVE NumberInv'
  BY <1>1, <1>3, NoJobRow, NoObjectType DEF Submit, NumberInv, Numbered, TypeInv
<1>4. ASSUME NEW j \in Jobs, ClaimLost(j) \/ Expire(j) \/ Wake(j) PROVE NumberInv'
  BY <1>1, <1>4 DEF ClaimLost, Expire, Wake, NumberInv, Numbered
<1>5. ASSUME NEW w \in Workers, NEW j \in Jobs, Claim(w, j) PROVE NumberInv'
  <2>1. UNCHANGED <<job, account, made>>
    BY <1>5 DEF Claim
  <2>2. /\ work'[w].seen = job[j] /\ work'[w].obj = NoObject
        /\ \A v \in Workers : v # w => work'[v] = work[v]
    BY <1>5, ClaimDoes
  <2>3. QED BY <1>1, <2>1, <2>2, NoObjectType DEF NumberInv, Numbered
<1>6. ASSUME NEW w \in Workers, Moves(w) PROVE NumberInv'
  <2>1. /\ \A g \in Hashes : made[g] \in Nat /\ made'[g] \in Nat /\ made[g] <= made'[g]
        /\ \A o \in account' : o \notin account =>
              o \in Objects /\ o.n = made[o.of] + 1 /\ o.n <= made'[o.of]
    BY <1>1, <1>6, AccountMovesStep, AccountStep DEF Moves
  <2>2. \A o \in account' : Numbered(o)'
    BY <1>1, <1>2, <2>1 DEF NumberInv, Numbered
  <2>3. \A j \in Jobs : Numbered(job[j].obj)'
    BY <1>1, <1>2, <1>6, <2>1 DEF NumberInv, Numbered, Moves, tableVars
  <2>4. \A v \in Workers : Numbered(work[v].seen.obj)'
    BY <1>1, <1>2, <1>6, <2>1 DEF NumberInv, Numbered, Moves, Goes
  <2>5. \A v \in Workers : Numbered(work[v].obj)'
    BY <1>1, <1>2, <1>6, <2>1 DEF NumberInv, Numbered, Moves, Goes
  <2>6. QED BY <2>2, <2>3, <2>4, <2>5 DEF NumberInv
<1>7. ASSUME NEW w \in Workers, Drops(w) PROVE NumberInv'
  BY <1>1, <1>7, DropDoes, IdleWork, NoObjectType DEF NumberInv, Numbered
<1>8. ASSUME NEW w \in Workers, NEW row, Commit(w, row) PROVE NumberInv'
  <2>1. row.obj \in Objects => row.obj.n <= made[row.obj.of]
    BY <1>1, <1>8 DEF Commit, NumberInv, Numbered
  <2>2. QED BY <1>1, <1>8, <2>1, CommitDoes, IdleWork, NoObjectType DEF NumberInv, Numbered
<1>9. ASSUME UserMoves PROVE NumberInv'
  <2>1. /\ \A g \in Hashes : made[g] \in Nat /\ made'[g] \in Nat /\ made[g] <= made'[g]
        /\ \A o \in account' : o \notin account =>
              o \in Objects /\ o.n = made[o.of] + 1 /\ o.n <= made'[o.of]
    BY <1>1, <1>9, AccountStep DEF UserMoves
  <2>2. \A o \in account' : Numbered(o)'
    BY <1>1, <1>2, <2>1 DEF NumberInv, Numbered
  <2>3. \A j \in Jobs : Numbered(job[j].obj)'
    BY <1>1, <1>2, <1>9, <2>1 DEF NumberInv, Numbered, UserMoves, tableVars
  <2>4. \A v \in Workers : Numbered(work[v].seen.obj)' /\ Numbered(work[v].obj)'
    BY <1>1, <1>2, <1>9, <2>1 DEF NumberInv, Numbered, UserMoves
  <2>5. QED BY <2>2, <2>3, <2>4 DEF NumberInv
<1>10. QED BY <1>3, <1>4, <1>5, <1>6, <1>7, <1>8, <1>9, Steps

\* An object that is gone does not come back under its number.
LEMMA GoneStep ==
  ASSUME Inv, [Next]_vars
  PROVE  GoneInv'
<1>1. TypeInv /\ NumberInv /\ GoneInv /\ WorkInv
  BY DEF Inv
<1>2. ASSUME NEW v \in Workers, work[v].pc = "advance", work[v].seen.owned,
             \A o \in account' : o \notin account => o.n = made[o.of] + 1
      PROVE  work[v].seen.obj \notin account'
  <2> DEFINE o == work[v].seen.obj
  <2>1. o \in Objects /\ o \notin account
    BY <1>1, <1>2 DEF WorkInv, GoodWork, GoodRow, FitsStage, GoneInv
  <2>2. o.n <= made[o.of] /\ made[o.of] \in Nat /\ o.n \in Nat
    BY <1>1, <2>1, JobAssumption DEF NumberInv, Numbered, TypeInv, Objects
  <2> HIDE DEF o
  <2>3. o \notin account'
    BY <1>2, <2>1, <2>2
  <2>4. QED BY <2>3 DEF o
<1>3. ASSUME NEW j \in Jobs, Submit(j) \/ ClaimLost(j) \/ Expire(j) \/ Wake(j) PROVE GoneInv'
  BY <1>1, <1>3 DEF Submit, ClaimLost, Expire, Wake, GoneInv
<1>4. ASSUME NEW w \in Workers, NEW j \in Jobs, Claim(w, j) PROVE GoneInv'
  <2>1. account' = account
    BY <1>4 DEF Claim
  <2>2. QED BY <1>1, <1>4, <2>1, ClaimDoes DEF GoneInv
<1>5. ASSUME NEW w \in Workers, Moves(w) PROVE GoneInv'
  <2>1. \A o \in account' : o \notin account => o.n = made[o.of] + 1
    BY <1>1, <1>5, AccountMovesStep, AccountStep DEF Moves
  <2>2. QED BY <1>2, <1>5, <2>1 DEF GoneInv, Moves, Goes
<1>6. ASSUME NEW w \in Workers, Drops(w) PROVE GoneInv'
  BY <1>1, <1>6, DropDoes, IdleWork DEF GoneInv
<1>7. ASSUME NEW w \in Workers, NEW row, Commit(w, row) PROVE GoneInv'
  BY <1>1, <1>7, CommitDoes, IdleWork DEF GoneInv
<1>8. ASSUME UserMoves PROVE GoneInv'
  <2>1. \A o \in account' : o \notin account => o.n = made[o.of] + 1
    BY <1>1, <1>8, AccountStep DEF UserMoves
  <2>2. QED BY <1>2, <1>8, <2>1 DEF GoneInv, UserMoves
<1>9. QED BY <1>3, <1>4, <1>5, <1>6, <1>7, <1>8, Steps

\* No job gets a second object of one hash: what is created is fresh, and of the workers
\* on a job only the one with the lease creates.
LEMMA FreshStep ==
  ASSUME Inv, [Next]_vars
  PROVE  FreshInv' /\ NoDuplicateObject'
<1>1. TypeInv /\ LeaseInv /\ WorkInv /\ FreshInv /\ NoDuplicateObject
  BY DEF Inv
<1>2. ASSUME UNCHANGED account PROVE NoDuplicateObject'
  BY <1>1, <1>2 DEF NoDuplicateObject
<1>3. ASSUME NEW j \in Jobs, Submit(j) \/ ClaimLost(j) \/ Expire(j) \/ Wake(j)
      PROVE  FreshInv' /\ NoDuplicateObject'
  BY <1>1, <1>2, <1>3 DEF Submit, ClaimLost, Expire, Wake, FreshInv, Selection, Claimed
<1>4. ASSUME NEW w \in Workers, NEW j \in Jobs, Claim(w, j) PROVE FreshInv' /\ NoDuplicateObject'
  <2>1. account' = account
    BY <1>4 DEF Claim
  <2>2. work'[w].pc # "create" /\ \A v \in Workers : v # w => work'[v] = work[v]
    BY <1>4, ClaimDoes
  <2>3. QED BY <1>1, <1>2, <2>1, <2>2 DEF FreshInv, Selection, Claimed
<1>5. ASSUME NEW w \in Workers, Drops(w) PROVE FreshInv' /\ NoDuplicateObject'
  BY <1>1, <1>2, <1>5, DropDoes, IdleWork DEF FreshInv, Selection, Claimed
<1>6. ASSUME NEW w \in Workers, NEW row, Commit(w, row) PROVE FreshInv' /\ NoDuplicateObject'
  BY <1>1, <1>2, <1>6, CommitDoes, IdleWork DEF FreshInv, Selection, Claimed
<1>7. ASSUME UserMoves PROVE FreshInv' /\ NoDuplicateObject'
  <2>1. work' = work
    BY <1>7 DEF UserMoves
  <2>2. \A o \in account' : o \notin account => o.by = "user"
    BY <1>1, <1>7, NewNumber DEF UserMoves
  <2>3. FreshInv'
    BY <1>1, <2>1, <2>2 DEF FreshInv, Selection, Claimed
  <2>4. QED BY <1>1, <2>2, <2>3 DEF NoDuplicateObject
<1>8. ASSUME NEW w \in Workers, Moves(w) PROVE FreshInv' /\ NoDuplicateObject'
  <2>1. /\ \A v \in Workers : v # w => work'[v] = work[v]
        /\ work'[w].id = work[w].id /\ work'[w].seen = work[w].seen
        /\ work'[w].pc = "create" => \A o \in account' : ~ (o.of = Selection(w) /\ o.by = Claimed(w))
        /\ AccountMoves(w)
    BY <1>8 DEF Moves, Goes
  <2>2. CASE account' \subseteq account
    BY <1>1, <2>1, <2>2 DEF FreshInv, NoDuplicateObject, Selection, Claimed
  <2>3. CASE /\ work[w].pc = "create" /\ Selection(w) \in Hashes /\ Claimed(w) \in Jobs
             /\ NewObject(Selection(w), Claimed(w))
    <3>1. \A o \in account' : o \notin account =>
             o.of = Selection(w) /\ o.by = Claimed(w) /\ o.n = made[Selection(w)] + 1
      BY <1>1, <2>3, NewNumber
    <3>2. \A o \in account : o.of = Selection(w) /\ o.by = Claimed(w) => o.by = "user"
      BY <1>1, <2>3 DEF FreshInv
    <3>3. account' = account \cup {[of |-> Selection(w), n |-> made[Selection(w)] + 1, by |-> Claimed(w)]}
      BY <2>3 DEF NewObject
    <3>4. \A o, p \in account' : o \notin account /\ p \notin account => o = p
      BY <3>3
    <3>5. NoDuplicateObject'
      BY <1>1, <3>1, <3>2, <3>4 DEF NoDuplicateObject
    <3>6. ASSUME NEW v \in Workers, v # w, work[v].pc = "create" PROVE Claimed(v) # Claimed(w)
      <4>1. ~ work[v].late /\ ~ work[w].late
        BY <1>1, <2>3, <3>6 DEF WorkInv, GoodWork, Overrun
      <4>2. lease[Claimed(v)] = v /\ lease[Claimed(w)] = w
        BY <1>1, <2>3, <3>6, <4>1 DEF LeaseInv
      <4>3. QED BY <3>6, <4>2
    <3>7. FreshInv'
      BY <1>1, <2>1, <3>1, <3>6 DEF FreshInv, Selection, Claimed
    <3>8. QED BY <3>5, <3>7
  <2>4. QED BY <2>1, <2>2, <2>3 DEF AccountMoves
<1>9. QED BY <1>3, <1>4, <1>5, <1>6, <1>7, <1>8, Steps

\* Every step keeps the invariant.
LEMMA InvStep ==
  ASSUME Inv, [Next]_vars
  PROVE  Inv'
BY TypeStep, GoodStep, LeaseStep, NumberStep, GoneStep, FreshStep DEF Inv

-----------------------------------------------------------------------------
(* The theorems.                                                           *)

\* The types of the table, of the account and of the workers hold in every reachable state.
THEOREM JobTypes == Spec => []TypeOK
<1>1. Inv => TypeOK
  <2>1. SUFFICES ASSUME Inv PROVE TypeOK
    OBVIOUS
  <2>2. TypeInv /\ RowsInv /\ WorkInv
    BY <2>1 DEF Inv
  <2>3. \A j \in Jobs : RowOK(job[j])
    BY <2>2 DEF RowsInv, GoodRow
  <2>4. ASSUME NEW w \in Workers
        PROVE  /\ work[w].pc \in Commits \cup Calls \cup {"idle"}
               /\ work[w].pc # "idle" => work[w].id \in Jobs
               /\ RowOK(work[w].seen)
    BY <2>2 DEF TypeInv, Work, WorkInv, GoodWork, GoodRow
  <2>5. QED BY <2>2, <2>3, <2>4 DEF TypeOK, TypeInv
<1>2. QED BY <1>1, InvInit, InvStep, PTL DEF Spec

\* The lease fences the row: a worker that still holds the lease of its job has seen the row
\* as it is, and only a worker in a call without a bound can have lost its lease.
THEOREM LeaseFences == Spec => []LeaseInv
<1>1. Inv => LeaseInv
  BY DEF Inv
<1>2. QED BY <1>1, InvInit, InvStep, PTL DEF Spec

\* The candidates of every job are settled in the order of its plan (Plan and Advance), over
\* every restart, lost lease and refused transition.
THEOREM PlanFollowed == Spec => []PlanInOrder
<1>1. Inv => PlanInOrder
  BY DEF Inv, RowsInv, GoodRow, PlanInOrder
<1>2. QED BY <1>1, InvInit, InvStep, PTL DEF Spec

\* A preparing or succeeded job has an object of its selected candidate, the stages before it
\* have none, and only an object of the account is owned (AttachPrepared, Advance).
THEOREM ObjectAlwaysFits == Spec => []ObjectFitsStage
<1>1. Inv => ObjectFitsStage
  BY DEF Inv, RowsInv, GoodRow, ObjectFitsStage
<1>2. QED BY <1>1, InvInit, InvStep, PTL DEF Spec

\* Whatever replies are lost, processes stop and leases run out, no job has two objects of one
\* hash in the account (find before create, under a lease that outlasts the operation).
THEOREM NeverDuplicated == Spec => []NoDuplicateObject
<1>1. Inv => NoDuplicateObject
  BY DEF Inv
<1>2. QED BY <1>1, InvInit, InvStep, PTL DEF Spec

\* A terminal row never changes again: a worker with an old claim is refused.
THEOREM TerminalStays == Spec => TerminalFinal
<1>1. ASSUME Inv, [Next]_vars
      PROVE  \A j \in Jobs : job[j].state \in Terminal => job'[j] = job[j]
  <2>1. TypeInv
    BY <1>1 DEF Inv
  <2>2. ASSUME NEW k \in Jobs, Submit(k)
        PROVE  \A j \in Jobs : job[j].state \in Terminal => job'[j] = job[j]
    BY <2>1, <2>2 DEF Submit, TypeInv, Terminal
  <2>3. ASSUME NEW w \in Workers, NEW row, Commit(w, row)
        PROVE  \A j \in Jobs : job[j].state \in Terminal => job'[j] = job[j]
    <3>1. job[Claimed(w)].state \notin Terminal
      BY <2>3 DEF Commit, Active, Terminal
    <3>2. QED BY <1>1, <2>3, <3>1, CommitDoes
  <2>4. ASSUME UNCHANGED job
        PROVE  \A j \in Jobs : job[j].state \in Terminal => job'[j] = job[j]
    BY <2>4
  <2>5. (\E k \in Jobs : Submit(k)) \/ (\E w \in Workers : \E row : Commit(w, row)) \/ UNCHANGED job
    BY <1>1, Steps DEF ClaimLost, Expire, Wake, Claim, Moves, Drops, Drop, UserMoves, tableVars
  <2>6. QED BY <2>2, <2>3, <2>4, <2>5
<1>2. QED BY <1>1, InvInit, InvStep, PTL DEF Spec, TerminalFinal

\* A job moves on from a candidate, or fails, only when the object that it owned has left the
\* account (abandonCandidate deletes it, or it had disappeared; then Advance).
THEOREM OwnedIsCleanedUp == Spec => OwnedLeavesAccount
<1>1. ASSUME Inv, [Next]_vars, NEW j \in Jobs, job[j].owned, job'[j].state \in {"selected", "failed"}
      PROVE  job[j].obj \notin account'
  <2>1. TypeInv /\ GoodRow(job[j])
    BY <1>1 DEF Inv, RowsInv
  <2>2. job[j].state \notin {"absent", "queued", "selected", "failed"}
    BY <1>1, <2>1, NoObjectType DEF GoodRow, FitsStage
  <2>3. ASSUME NEW k \in Jobs, Submit(k) PROVE job'[j] = job[j]
    BY <2>1, <2>2, <2>3 DEF Submit, TypeInv
  <2>4. ASSUME NEW w \in Workers, NEW row, Commit(w, row), Claimed(w) = j
        PROVE  job[j].obj \notin account'
    BY <1>1, <2>4, CommitDoes DEF Commit
  <2>5. ASSUME NEW w \in Workers, NEW row, Commit(w, row), Claimed(w) # j PROVE job'[j] = job[j]
    BY <1>1, <2>5, CommitDoes
  <2>6. (\E k \in Jobs : Submit(k)) \/ (\E w \in Workers : \E row : Commit(w, row)) \/ UNCHANGED job
    BY <1>1, Steps DEF ClaimLost, Expire, Wake, Claim, Moves, Drops, Drop, UserMoves, tableVars
  <2>7. job'[j] # job[j]
    BY <1>1, <2>2
  <2>8. QED BY <2>3, <2>4, <2>5, <2>6, <2>7
<1>2. ASSUME Inv, [Next]_vars
      PROVE  \A j \in Jobs : job[j].owned /\ job'[j].state \in {"selected", "failed"}
                               => job[j].obj \notin account'
  BY <1>1, <1>2
<1>3. QED BY <1>2, InvInit, InvStep, PTL DEF Spec, OwnedLeavesAccount

\* A worker that is about to make its job succeed has published the object it has seen, and
\* a job has succeeded with an object that was published for it.
PublishedInv ==
  /\ \A w \in Workers : work[w].pc = "succeed" => work[w].seen.obj \in published[Claimed(w)]
  /\ SucceedsPublished

\* A job succeeds only with an object that PublishAcquired has exposed on behalf of this very
\* job (Publish, then Succeed under the lease), however many workers run, whatever is
\* published for other jobs and whatever becomes of the manifest afterwards.
THEOREM SucceedsOnlyPublished == Spec => []SucceedsPublished
<1>1. ASSUME Init PROVE PublishedInv
  <2>1. \A j \in Jobs : job[j].state # "succeeded"
    BY <1>1 DEF Init, NoJob
  <2>2. QED BY <1>1, <2>1, IdleWork DEF Init, PublishedInv, SucceedsPublished
<1>2. ASSUME Inv, PublishedInv, [Next]_vars PROVE PublishedInv'
  <2>1. TypeInv /\ WorkInv
    BY <1>2 DEF Inv
  <2>2. ASSUME NEW j \in Jobs, Submit(j) PROVE PublishedInv'
    <3>1. /\ job' = [job EXCEPT ![j] = [NoJob EXCEPT !.state = "queued"]]
          /\ UNCHANGED <<published, work>>
      BY <2>2 DEF Submit
    <3>2. [NoJob EXCEPT !.state = "queued"].state = "queued"
      BY DEF NoJob
    <3>3. SucceedsPublished'
      BY <1>2, <2>1, <3>1, <3>2 DEF TypeInv, PublishedInv, SucceedsPublished
    <3>4. QED BY <1>2, <3>1, <3>3 DEF PublishedInv, Claimed
  <2>3. ASSUME NEW j \in Jobs, ClaimLost(j) \/ Expire(j) \/ Wake(j) PROVE PublishedInv'
    BY <1>2, <2>3 DEF ClaimLost, Expire, Wake, PublishedInv, SucceedsPublished, Claimed
  <2>4. ASSUME NEW w \in Workers, NEW j \in Jobs, Claim(w, j) PROVE PublishedInv'
    <3>1. work'[w].pc # "succeed" /\ \A v \in Workers : v # w => work'[v] = work[v]
      BY <1>2, <2>4, ClaimDoes
    <3>2. UNCHANGED <<job, published>>
      BY <2>4 DEF Claim
    <3>3. QED BY <1>2, <3>1, <3>2 DEF PublishedInv, SucceedsPublished, Claimed
  <2>5. ASSUME NEW w \in Workers, Moves(w) PROVE PublishedInv'
    <3>1. /\ work'[w].pc = "succeed" => work'[w].seen.obj \in published'[work'[w].id]
          /\ \A v \in Workers : v # w => work'[v] = work[v]
          /\ \A j \in Jobs : published[j] \subseteq published'[j]
          /\ job' = job
      BY <2>5 DEF Moves, Goes, Claimed, tableVars
    <3>2. \A v \in Workers : work[v].pc = "succeed" => work[v].id \in Jobs
      BY <2>1 DEF WorkInv, GoodWork
    <3>3. SucceedsPublished'
      BY <1>2, <3>1 DEF PublishedInv, SucceedsPublished
    <3>4. ASSUME NEW v \in Workers, work'[v].pc = "succeed"
          PROVE  work'[v].seen.obj \in published'[work'[v].id]
      BY <1>2, <3>1, <3>2, <3>4 DEF PublishedInv, Claimed
    <3>5. QED BY <3>3, <3>4 DEF PublishedInv, Claimed
  <2>6. ASSUME NEW w \in Workers, Drops(w) PROVE PublishedInv'
    <3>1. /\ work'[w].pc # "succeed" /\ \A v \in Workers : v # w => work'[v] = work[v]
          /\ UNCHANGED <<job, published>>
      BY <1>2, <2>6, DropDoes, IdleWork
    <3>2. QED BY <1>2, <3>1 DEF PublishedInv, SucceedsPublished, Claimed
  <2>7. ASSUME NEW w \in Workers, NEW row, Commit(w, row) PROVE PublishedInv'
    <3>1. /\ work'[w].pc # "succeed" /\ \A v \in Workers : v # w => work'[v] = work[v]
          /\ job'[Claimed(w)] = row /\ \A j \in Jobs : j # Claimed(w) => job'[j] = job[j]
          /\ published' = published
      BY <1>2, <2>7, CommitDoes, IdleWork
    <3>2. row.state = "succeeded" => work[w].pc = "succeed" /\ row.obj = work[w].seen.obj
      BY <2>7 DEF Commit
    <3>3. SucceedsPublished'
      BY <1>2, <3>1, <3>2 DEF PublishedInv, SucceedsPublished
    <3>4. QED BY <1>2, <3>1, <3>3 DEF PublishedInv, Claimed
  <2>8. ASSUME UserMoves PROVE PublishedInv'
    BY <1>2, <2>8 DEF UserMoves, tableVars, PublishedInv, SucceedsPublished, Claimed
  <2>9. QED BY <1>2, <2>2, <2>3, <2>4, <2>5, <2>6, <2>7, <2>8, Steps
<1>3. PublishedInv => SucceedsPublished
  BY DEF PublishedInv
<1>4. QED BY <1>1, <1>2, <1>3, InvInit, InvStep, PTL DEF Spec
=============================================================================
