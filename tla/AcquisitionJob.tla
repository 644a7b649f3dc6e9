--------------------------- MODULE AcquisitionJob ---------------------------
(***************************************************************************)
(* Durable background acquisition: the job table of internal/repository/   *)
(* acquisitionjob, the worker of internal/service/acquisitionjob that      *)
(* claims one job at a time under a lease and takes it through search,     *)
(* preparation in the user's provider account and publication, and the     *)
(* provider account itself, which the user and other clients also change.  *)
(*                                                                         *)
(* The worker talks to the provider between two short database             *)
(* transactions, so every provider call and every transaction is an action *)
(* of its own: the process may stop, the lease may run out and the account *)
(* may change between any two of them.                                     *)
(***************************************************************************)
EXTENDS Integers, Sequences, FiniteSets

CONSTANTS
  Jobs,           \* job identifiers
  Intents,        \* normalized media intents (jobIntentKey)
  IntentOf,       \* [Jobs -> Intents]: the intent a job is submitted for
  Hashes,         \* torrent fingerprints
  Ranges,         \* identities of direct range candidates
  Offers,         \* what the searches of the planning step may find (see Resolve)
  MaxCandidates,  \* MaximumJobCandidates
  Workers,        \* processes that run a worker on the database
  UserActs,       \* whether the user changes the provider account as well
  MaxObjects      \* bound: account objects that are ever made for one hash

ASSUME JobAssumption ==
  /\ IntentOf \in [Jobs -> Intents]
  /\ Hashes \cap Ranges = {}
  /\ MaxCandidates \in Nat \ {0}
  /\ \A offer \in Offers :
       /\ offer.eligible \in Seq(Hashes)
       /\ offer.cached \subseteq Hashes
       /\ offer.direct \in Seq(Ranges)
  /\ UserActs \in BOOLEAN
  /\ MaxObjects \in Nat

VARIABLES
  job,        \* the rows of acquisition_jobs and their candidates
  lease,      \* who holds the unexpired lease of a job
  due,        \* next_attempt_unix_ms has passed
  account,    \* objects in the provider account
  made,       \* how many objects were ever made for each hash (identifiers are not reused)
  published,  \* history: the objects that PublishAcquired has exposed on behalf of each job
  work        \* what each worker is doing

tableVars == <<job, lease, due>>
vars == <<tableVars, account, made, published, work>>

-----------------------------------------------------------------------------
(* Jobs, leases and objects.                                               *)

Active == {"queued", "selected", "preparing"}
Terminal == {"succeeded", "failed", "manual_review"}

Selections == Hashes \cup Ranges

\* An object: what it was made from, its number, and who made it.  Whoever made an object
\* is known to nobody in the system; it is there for the properties.
NoObject == [of |-> "none", n |-> 0, by |-> "nobody"]
Objects == [of : Hashes, n : 1 .. MaxObjects, by : Jobs \cup {"user"}]
RangeObject(r) == [of |-> r, n |-> 1, by |-> "origin"]

NoJob == [state |-> "absent", plan |-> <<>>, outcome |-> <<>>, ord |-> 0,
          obj |-> NoObject, owned |-> FALSE]

\* A lease nobody can use any more, but which has not expired, and no lease at all.
Orphan == "orphan"
Free == "free"

ASSUME LeaseAssumption == Workers \cap {Free, Orphan} = {}

Commits == {"plan", "attach", "advance", "defer", "succeed", "fail", "review"}
Calls == {"resolve", "find", "create", "reconcile", "range_prepare", "inspect",
          "range_inspect", "delete", "publish"}

\* A worker between two claims.
Idle == [pc |-> "idle", id |-> "none", seen |-> NoJob, plan |-> <<>>, obj |-> NoObject,
         owned |-> FALSE, outcome |-> "pending", late |-> FALSE]

\* The job that worker w has claimed, and the selection it is working on.
Claimed(w) == work[w].id
Selection(w) == work[w].seen.plan[work[w].seen.ord]

\* The objects of the account that were made from a hash: what FindTorrentByHash lists.
Matches(h) == {o \in account : o.of = h}

\* Worker w goes on to its next call or transaction.
Goto(w, next) == work' = [work EXCEPT ![w].pc = next]

\* Worker w is about to attach an object.
GotoAttach(w, o, owned) ==
  work' = [work EXCEPT ![w].pc = "attach", ![w].obj = o, ![w].owned = owned]

\* Mutant: cleanup is skipped.
AbandonWithoutCleanup(w, outcome, alreadyMissing) ==
  work' = [work EXCEPT ![w].outcome = outcome, ![w].pc = "advance"]

\* abandonCandidate: an object that the job owns and that is still there is deleted first.
abandonCandidate(w, outcome, alreadyMissing) ==
  work' = [work EXCEPT ![w].outcome = outcome,
             ![w].pc = IF work[w].seen.owned /\ ~alreadyMissing THEN "delete" ELSE "advance"]

-----------------------------------------------------------------------------
(* The database transactions.                                              *)

\* No active job has intent i.
NoActive(i) == \A j \in Jobs : IntentOf[j] = i => job[j].state \notin Active

\* Submit: a new queued job, unless an active one has the same intent (then that one is
\* returned and nothing changes).
Submit(j) ==
  /\ job[j].state = "absent"
  /\ NoActive(IntentOf[j])
  /\ job' = [job EXCEPT ![j] = [NoJob EXCEPT !.state = "queued"]]
  /\ due' = [due EXCEPT ![j] = TRUE]
  /\ UNCHANGED <<lease, account, made, published, work>>

\* Mutant: creates without looking for the object first.
CreateFirst(row) ==
  CASE row.state = "queued" -> "resolve"
    [] row.state = "selected" -> IF row.plan[row.ord] \in Hashes THEN "create" ELSE "range_prepare"
    [] row.state = "preparing" -> IF row.plan[row.ord] \in Hashes THEN "inspect" ELSE "range_inspect"

\* The first call for a claimed job: its state, and the kind of its selection, decide.
FirstCall(row) ==
  CASE row.state = "queued" -> "resolve"
    [] row.state = "selected" -> IF row.plan[row.ord] \in Hashes THEN "find" ELSE "range_prepare"
    [] row.state = "preparing" -> IF row.plan[row.ord] \in Hashes THEN "inspect" ELSE "range_inspect"

\* A job that Claim may lease: active, due, and under no lease.
Eligible(j) == job[j].state \in Active /\ due[j] /\ lease[j] = Free

\* Claim: an idle worker leases an eligible job and keeps a snapshot of its row.
Claim(w, j) ==
  /\ work[w].pc = "idle"
  /\ Eligible(j)
  /\ lease' = [lease EXCEPT ![j] = w]
  /\ work' = [work EXCEPT ![w] =
       [Idle EXCEPT !.pc = FirstCall(job[j]), !.id = j, !.seen = job[j]]]
  /\ UNCHANGED <<job, due, account, made, published>>

\* Claim, when reading the lease version back fails: the lease stays behind.
ClaimLost(j) ==
  /\ \E w \in Workers : work[w].pc = "idle"
  /\ Eligible(j)
  /\ lease' = [lease EXCEPT ![j] = Orphan]
  /\ UNCHANGED <<job, due, account, made, published, work>>

\* The states from which the pending transaction of worker w may start.
From(w) ==
  CASE work[w].pc = "plan" -> {"queued"}
    [] work[w].pc = "attach" -> {"selected"}
    [] work[w].pc = "succeed" -> {"preparing"}
    [] work[w].pc = "advance" -> {work[w].seen.state}
    [] OTHER -> Active

\* Mutant: the lease is not checked.
AcceptedUnfenced(w) == work[w].pc \in Commits

\* The WHERE clause of every transition: the claim's lease version is current, the lease
\* has not expired and the job is in a state the transition starts from; and what the
\* transition validates about the claim before it.
Accepted(w) ==
  /\ work[w].pc \in Commits
  /\ lease[Claimed(w)] = w
  /\ job[Claimed(w)].state \in From(w)
  /\ work[w].pc = "fail" => work[w].seen.ord = 0
  /\ work[w].pc = "advance" /\ work[w].seen.state = "selected" => work[w].outcome = "missing"

\* The transition commits: the row changes, the lease is released, the worker is done.
\* Every transition but Defer makes the job due at once.
Committed(w, row) ==
  /\ job' = [job EXCEPT ![Claimed(w)] = row]
  /\ due' = [due EXCEPT ![Claimed(w)] = (work[w].pc # "defer")]
  /\ lease' = [lease EXCEPT ![Claimed(w)] = Free]
  /\ work' = [work EXCEPT ![w] = Idle]
  /\ UNCHANGED <<account, made, published>>

\* Mutant: the provider object of the last candidate is kept.
StillPrepared(row) == row

\* The row without a provider object.
Unprepared(row) == [row EXCEPT !.obj = NoObject, !.owned = FALSE]

\* Plan: the candidates and the first selection, in one transaction.
Plan(w) ==
  /\ work[w].pc = "plan" /\ Accepted(w)
  /\ Committed(w, [Unprepared(job[Claimed(w)]) EXCEPT
       !.state = "selected", !.plan = work[w].plan, !.ord = 1,
       !.outcome = [i \in DOMAIN work[w].plan |-> IF i = 1 THEN "selected" ELSE "pending"]])

\* AttachPrepared: the account object, and whether the job may clean it up.
AttachPrepared(w) ==
  /\ work[w].pc = "attach" /\ Accepted(w)
  /\ Committed(w, [job[Claimed(w)] EXCEPT
       !.state = "preparing", !.obj = work[w].obj, !.owned = work[w].owned])

\* Mutants: the next candidate is one too far, or is the last pending one.
OneTooFar(outcome) ==
  1 + CHOOSE i \in DOMAIN outcome : outcome[i] = "pending"
         /\ \A k \in DOMAIN outcome : outcome[k] = "pending" => i <= k
LastPending(outcome) ==
  CHOOSE i \in DOMAIN outcome : outcome[i] = "pending"
    /\ \A k \in DOMAIN outcome : outcome[k] = "pending" => k <= i

\* The pending candidate with the lowest ordinal.
NextPending(outcome) ==
  CHOOSE i \in DOMAIN outcome : outcome[i] = "pending"
    /\ \A k \in DOMAIN outcome : outcome[k] = "pending" => i <= k

\* Advance: the selected candidate gets its outcome; the next pending one is selected, or
\* the job has failed.
Advance(w) ==
  LET row == job[Claimed(w)]
      settled == [row.outcome EXCEPT ![work[w].seen.ord] = work[w].outcome]
      n == NextPending(settled)
  IN  /\ work[w].pc = "advance" /\ Accepted(w)
      /\ row.outcome[work[w].seen.ord] = "selected"
      /\ Committed(w,
           IF \E i \in DOMAIN settled : settled[i] = "pending"
           THEN [Unprepared(row) EXCEPT !.state = "selected", !.ord = n,
                   !.outcome = [settled EXCEPT ![n] = "selected"]]
           ELSE [Unprepared(row) EXCEPT !.state = "failed", !.ord = 0, !.outcome = settled])

\* Defer: the job keeps its stage and becomes due again later.
Defer(w) ==
  /\ work[w].pc = "defer" /\ Accepted(w)
  /\ Committed(w, job[Claimed(w)])

\* Succeed: the published object is final.
Succeed(w) ==
  /\ work[w].pc = "succeed" /\ Accepted(w)
  /\ Committed(w, [job[Claimed(w)] EXCEPT !.state = "succeeded"])

\* Fail: no release was found, or the outcome of a mutation is not known.
Fail(w) ==
  /\ work[w].pc \in {"fail", "review"} /\ Accepted(w)
  /\ Committed(w, [job[Claimed(w)] EXCEPT
       !.state = IF work[w].pc = "fail" THEN "failed" ELSE "manual_review"])

-----------------------------------------------------------------------------
(* The provider calls between two transactions.                            *)

\* partitionCached: the members of s that are in S, in their order.
Partition(s, S) ==
  LET upTo[i \in 0 .. Len(s)] ==
        IF i = 0 THEN <<>>
        ELSE IF s[i] \in S THEN Append(upTo[i - 1], s[i]) ELSE upTo[i - 1]
  IN  upTo[Len(s)]

\* The loops that append candidates stop at a limit.
Cap(s, n) == IF Len(s) > n THEN SubSeq(s, 1, n) ELSE s

\* The bounded plan: cached torrents, then direct ranges (for which one place is kept),
\* then the other torrents.
planOf(offer) ==
  LET limit == IF offer.direct = <<>> THEN MaxCandidates ELSE MaxCandidates - 1
  IN  Cap(Cap(Partition(offer.eligible, offer.cached), limit) \o offer.direct
            \o Partition(offer.eligible, Hashes \ offer.cached), MaxCandidates)

\* resolve: the searches find the candidates of some offer, or fail.
Resolve(w) ==
  /\ work[w].pc = "resolve"
  /\ \/ \E offer \in Offers :
          IF planOf(offer) = <<>>
          THEN Goto(w, "fail")
          ELSE work' = [work EXCEPT ![w].pc = "plan", ![w].plan = planOf(offer)]
     \/ Goto(w, "defer")
  /\ UNCHANGED <<tableVars, account, made, published>>

\* prepare up to CreateTorrent: an object that is already in the account is attached and
\* not owned; more than one is ambiguous; none leads to creation if the release is still
\* offered and can be materialized.
FindTorrent(w) ==
  /\ work[w].pc = "find"
  /\ \/ \E o \in Matches(Selection(w)) :
          Matches(Selection(w)) = {o} /\ GotoAttach(w, o, FALSE)
     \/ Cardinality(Matches(Selection(w))) > 1 /\ Goto(w, "review")
     \/ /\ Matches(Selection(w)) = {}
        /\ Goto(w, "create") \/ abandonCandidate(w, "missing", TRUE)
     \/ Goto(w, "defer")
  /\ UNCHANGED <<tableVars, account, made, published>>

\* A new object for hash h in the account.
NewObject(h, by) ==
  /\ made[h] < MaxObjects
  /\ made' = [made EXCEPT ![h] = @ + 1]
  /\ account' = account \cup {[of |-> h, n |-> made[h] + 1, by |-> by]}

\* CreateTorrent: it succeeds, it is refused, or it fails after it may have taken effect.
\* After a failure the worker reconciles with a timeout of its own, so that from here on
\* its lease may run out.
CreateTorrent(w) ==
  LET h == Selection(w)
      failed == [work EXCEPT ![w].pc = "reconcile", ![w].late = TRUE]
  IN  /\ work[w].pc = "create"
      /\ \/ /\ NewObject(h, Claimed(w))
            /\ \/ GotoAttach(w, [of |-> h, n |-> made[h] + 1, by |-> Claimed(w)], TRUE)
               \/ work' = failed
         \/ /\ UNCHANGED <<account, made>>
            /\ Goto(w, "defer") \/ work' = failed
      /\ UNCHANGED <<tableVars, published>>

\* Reconciliation after a failed creation: exactly one object is taken for the created one.
Reconcile(w) ==
  /\ work[w].pc = "reconcile"
  /\ \/ \E o \in Matches(Selection(w)) :
          Matches(Selection(w)) = {o} /\ GotoAttach(w, o, TRUE)
     \/ Goto(w, "review")
  /\ UNCHANGED <<tableVars, account, made, published>>

\* prepare for a range candidate: nothing is created.
PrepareRange(w) ==
  /\ work[w].pc = "range_prepare"
  /\ \/ GotoAttach(w, RangeObject(Selection(w)), FALSE)
     \/ abandonCandidate(w, "missing", TRUE)
     \/ Goto(w, "defer")
  /\ UNCHANGED <<tableVars, account, made, published>>

\* The media is ready: PublishAcquired comes next.  It waits for the setup transaction
\* lock, so that from here on the lease may run out.
GotoPublish(w) == work' = [work EXCEPT ![w].pc = "publish", ![w].late = TRUE]

\* publish up to PublishAcquired.  An object that is there is stalled, not ready, without
\* playable media for this intent, or ready; the inspection may also fail or be ambiguous.
InspectTorrent(w) ==
  /\ work[w].pc = "inspect"
  /\ \/ /\ work[w].seen.obj \in account
        /\ \/ \E outcome \in {"stalled", "unplayable"} : abandonCandidate(w, outcome, FALSE)
           \/ GotoPublish(w)
     \/ /\ work[w].seen.obj \notin account
        /\ abandonCandidate(w, "missing", TRUE)
     \/ Goto(w, "review")
     \/ Goto(w, "defer")
  /\ UNCHANGED <<tableVars, account, made, published>>

\* publishRange up to PublishAcquired.
InspectRange(w) ==
  /\ work[w].pc = "range_inspect"
  /\ \/ \E outcome \in {"missing", "unplayable"} : abandonCandidate(w, outcome, TRUE)
     \/ abandonCandidate(w, "unplayable", FALSE)
     \/ GotoPublish(w)
     \/ Goto(w, "defer")
  /\ UNCHANGED <<tableVars, account, made, published>>

\* DeleteCreatedTorrent: one request.  An error is never retried, whether or not the
\* request took effect.
DeleteTorrent(w) ==
  /\ work[w].pc = "delete"
  /\ \/ /\ account' = account \ {work[w].seen.obj}
        /\ Goto(w, "advance") \/ Goto(w, "review")
     \/ UNCHANGED account /\ Goto(w, "review")
  /\ UNCHANGED <<tableVars, made, published>>

\* Mutant: a failed publication is taken for a success.
PublishErrorIgnored(w) ==
  /\ work[w].pc = "publish"
  /\ published' \in {published, [published EXCEPT ![Claimed(w)] = @ \cup {work[w].seen.obj}]}
  /\ Goto(w, "succeed")
  /\ UNCHANGED <<tableVars, account, made>>

\* PublishAcquired: the manifest exposes the object for the job's intent.  When it fails the
\* manifest stays as it was, unless rolling it back fails as well.  Only the fact that it
\* was exposed is kept: the user's next Apply may replace the manifest at any time (also
\* before the job has succeeded), and nothing here reads it again.
Publish(w) ==
  LET exposed == [published EXCEPT ![Claimed(w)] = @ \cup {work[w].seen.obj}]
  IN  /\ work[w].pc = "publish"
      /\ \/ published' = exposed /\ Goto(w, "succeed")
         \/ published' \in {published, exposed} /\ Goto(w, "defer")
      /\ UNCHANGED <<tableVars, account, made>>

-----------------------------------------------------------------------------
(* What goes wrong, and what others do.                                    *)

\* Worker w drops its claim.
Drop(w) ==
  /\ work' = [work EXCEPT ![w] = Idle]
  /\ lease' = IF lease[Claimed(w)] = w THEN [lease EXCEPT ![Claimed(w)] = Orphan] ELSE lease
  /\ UNCHANGED <<job, due, account, made, published>>

\* A transition is refused: ErrStaleClaim.
Refused(w) == work[w].pc \in Commits /\ ~Accepted(w) /\ Drop(w)

\* The process stops (and a new one starts), its context is cancelled, or a transaction
\* fails: the job keeps its row and its lease.
Stop(w) == work[w].pc # "idle" /\ Drop(w)

\* Mutant: the lease may be shorter than an operation.
OverrunAnywhere(w) == work[w].pc # "idle"

\* NewWorker rejects a lease that is not longer than an operation and a transition: a
\* worker outlives its lease only in the calls that have no part in that bound.
MayOverrun(w) == work[w].late

\* Mutant: an orphaned lease is kept.
ExpiresHeld(j) == \E w \in Workers : lease[j] = w /\ MayOverrun(w)

\* Leases that may be over their time.
MayExpire(j) == lease[j] = Orphan \/ \E w \in Workers : lease[j] = w /\ MayOverrun(w)

\* lease_until_unix_ms passes.
Expire(j) ==
  /\ MayExpire(j)
  /\ lease' = [lease EXCEPT ![j] = Free]
  /\ UNCHANGED <<job, due, account, made, published, work>>

\* next_attempt_unix_ms passes.
Wake(j) ==
  /\ job[j].state \in Active
  /\ ~due[j]
  /\ due' = [due EXCEPT ![j] = TRUE]
  /\ UNCHANGED <<job, lease, account, made, published, work>>

\* The user adds a torrent to the account, or removes an object from it.
UserAdds(h) ==
  /\ UserActs
  /\ NewObject(h, "user")
  /\ UNCHANGED <<tableVars, published, work>>

UserRemoves(o) ==
  /\ UserActs
  /\ account' = account \ {o}
  /\ UNCHANGED <<tableVars, made, published, work>>

Init ==
  /\ job = [j \in Jobs |-> NoJob]
  /\ lease = [j \in Jobs |-> Free]
  /\ due = [j \in Jobs |-> FALSE]
  /\ account = {}
  /\ made = [h \in Hashes |-> 0]
  /\ published = [j \in Jobs |-> {}]
  /\ work = [w \in Workers |-> Idle]

ProviderCall(w) ==
  \/ Resolve(w) \/ FindTorrent(w) \/ CreateTorrent(w) \/ Reconcile(w) \/ PrepareRange(w)
  \/ InspectTorrent(w) \/ InspectRange(w) \/ DeleteTorrent(w) \/ Publish(w)

Transition(w) ==
  \/ Plan(w) \/ AttachPrepared(w) \/ Advance(w) \/ Defer(w) \/ Succeed(w) \/ Fail(w)

WorkerStep(w) == ProviderCall(w) \/ Transition(w) \/ Refused(w)

Next ==
  \/ \E j \in Jobs : Submit(j) \/ ClaimLost(j) \/ Expire(j) \/ Wake(j)
  \/ \E w \in Workers, j \in Jobs : Claim(w, j)
  \/ \E w \in Workers : WorkerStep(w) \/ Stop(w)
  \/ \E h \in Hashes : UserAdds(h)
  \/ \E o \in account : UserRemoves(o)

Spec == Init /\ [][Next]_vars

\* A worker goes on (every provider call has a timeout), time passes, and a job that keeps
\* becoming eligible is claimed in the end: Claim takes the longest due first.
Fairness ==
  /\ \A w \in Workers : WF_vars(WorkerStep(w))
  /\ \A j \in Jobs : WF_vars(Expire(j)) /\ WF_vars(Wake(j))
  /\ \A j \in Jobs : SF_vars(\E w \in Workers : Claim(w, j))

FairSpec == Spec /\ Fairness

-----------------------------------------------------------------------------
(* Properties.                                                             *)

Outcomes == {"pending", "selected", "stalled", "missing", "unplayable"}
AnyObject == Objects \cup {RangeObject(r) : r \in Ranges} \cup {NoObject}

RowOK(row) ==
  /\ row.state \in Active \cup Terminal \cup {"absent"}
  /\ row.plan \in Seq(Selections) /\ Len(row.plan) <= MaxCandidates
  /\ row.outcome \in [DOMAIN row.plan -> Outcomes]
  /\ row.ord \in 0 .. Len(row.plan)
  /\ row.obj \in AnyObject
  /\ row.owned \in BOOLEAN

\* Types of the table, of the account and of the workers.
TypeOK ==
  /\ DOMAIN job = Jobs /\ \A j \in Jobs : RowOK(job[j])
  /\ lease \in [Jobs -> Workers \cup {Free, Orphan}]
  /\ due \in [Jobs -> BOOLEAN]
  /\ account \subseteq Objects
  /\ made \in [Hashes -> 0 .. MaxObjects]
  /\ published \in [Jobs -> SUBSET AnyObject]
  /\ DOMAIN work = Workers
  /\ \A w \in Workers :
       /\ work[w].pc \in Commits \cup Calls \cup {"idle"}
       /\ work[w].pc # "idle" => work[w].id \in Jobs
       /\ RowOK(work[w].seen)

InOrder(row) ==
  IF row.ord = 0
  THEN \A i \in DOMAIN row.plan : row.outcome[i] \notin {"pending", "selected"}
  ELSE \A i \in DOMAIN row.plan :
         /\ i = row.ord <=> row.outcome[i] = "selected"
         /\ i > row.ord <=> row.outcome[i] = "pending"

\* The candidates of a job are worked through in order: up to the selected one all have
\* been settled, after it all are pending, and a job without a selected candidate has
\* settled its whole plan (Plan and Advance, over every restart and lost lease).
PlanInOrder == \A j \in Jobs : InOrder(job[j])

FitsStage(row) ==
  /\ row.state \in {"preparing", "succeeded"} => row.ord > 0 /\ row.obj.of = row.plan[row.ord]
  /\ row.state \in {"queued", "selected", "failed"} => row.obj = NoObject
  /\ row.owned => row.obj \in Objects

\* What a stage says of the provider object: a preparing or succeeded job has one, made
\* from its selected candidate; a job that does not have one owns nothing.
ObjectFitsStage == \A j \in Jobs : FitsStage(job[j])

\* A lost reply, a crash or a lost lease never makes a job create a second object for the
\* same hash while the first is still in the account (reconcile before create, and a lease
\* that outlasts the operation).
NoDuplicateObject ==
  \A o, p \in account : o.of = p.of /\ o.by = p.by /\ o.by # "user" => o = p

\* When a job gives up a candidate whose object it owns, that object has left the account:
\* it was deleted first, or had disappeared (abandonCandidate, then Advance).
OwnedLeavesAccount ==
  [][\A j \in Jobs :
       job[j].owned /\ job'[j].state \in {"selected", "failed"} => job[j].obj \notin account']_vars

\* A terminal job never changes again, whatever a worker with an old claim still does.
TerminalFinal ==
  [][\A j \in Jobs : job[j].state \in Terminal => job'[j] = job[j]]_vars

\* A job succeeds only with an object that PublishAcquired has exposed on behalf of this very
\* job: neither a failed publication, nor one for an earlier candidate, nor one that another
\* worker or another job made, lets it succeed.
SucceedsPublished ==
  \A j \in Jobs : job[j].state = "succeeded" => job[j].obj \in published[j]

\* The object is deleted from the account by a worker, not by the user: for job j.
CleanedUp(j, o) ==
  /\ o \in account /\ o \notin account'
  /\ \E w \in Workers : Claimed(w) = j /\ work'[w] # work[w]

\* Cleanup never deletes an object that BlackPearl did not create.
UserObjectsKept == [][\A j \in Jobs, o \in account : CleanedUp(j, o) => o.by # "user"]_vars

\* Cleanup for one job never deletes an object that was published for another one.
PublishedNeverCleaned ==
  [][\A j, k \in Jobs, o \in account :
       CleanedUp(j, o) /\ j # k => o \notin published[k]]_vars

\* An active job does not stay unattended: it is claimed again, or has ended, whatever
\* happened to the worker that held its lease.
ActiveJobAttended ==
  \A j \in Jobs :
    job[j].state \in Active ~> (job[j].state \notin Active \/ \E w \in Workers : Claimed(w) = j)
=============================================================================
