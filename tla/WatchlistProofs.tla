-------------------------- MODULE WatchlistProofs --------------------------
(***************************************************************************)
(* Proofs about Watchlist for every set of movies and shows, any number of *)
(* episodes, jobs, edits and faults: what the policy never let in is never *)
(* acquired, a show goes on by one watched episode at a time, a row that   *)
(* says "succeeded" names what was published for it.                       *)
(***************************************************************************)
EXTENDS Watchlist, TLAPS

RowStates == {"pending", "acquiring", "not_cached", "retryable", "manual_review", "succeeded"}
Policies == [auto : BOOLEAN, show : {"off", "pilot"}]
Objects == Intents \cup {NoIntent}

Row == [state : RowStates, eligible : BOOLEAN, episode : 0..MaxEpisode,
        leased : BOOLEAN, job : Nat, object : Objects]

Job == [intent : Intents, state : {"active", "succeeded", "failed"}]

Observing ==
  [at : {"policy"}, items : SUBSET Entries]
    \cup [at : {"upsert"}, items : SUBSET Entries, policy : Policies]

Working ==
  [at : {"find", "submit", "attach", "get", "defer"}, entry : Entries, intent : Intents, job : Nat]

Finishing ==
  [at : {"complete"}, entry : Entries, intent : Intents, job : Nat,
   state : {"succeeded", "not_cached", "retryable", "manual_review"}, object : Objects]

Advancing == [at : {"check", "advance"}, show : Shows, episode : 0..MaxEpisode]

\* The types of the variables.
TypeOK ==
  /\ list \in SUBSET Entries /\ policy \in Policies
  /\ rows \in [Entries -> Row \cup {NoRow}]
  /\ jobs \in Seq(Job)
  /\ published \in SUBSET Intents /\ ever \in SUBSET Intents /\ viewed \in SUBSET Intents
  /\ playing \in [what : Objects, enough : BOOLEAN]
  /\ baseline \in BOOLEAN
  /\ observer \in Observing \cup {Idle}
  /\ worker \in Working \cup Finishing \cup {Idle}
  /\ advancer \in Advancing \cup {Idle}
  /\ open \in SUBSET Entries /\ admitted \in SUBSET Entries
  /\ used \in [edits : Nat, faults : Nat]

\* History knows what the sync that is under way may record as eligible: as things are, and
\* by the policy that it has read.  What the worker is after was admitted.
PolicyInv ==
  /\ Admissible \subseteq open
  /\ observer.at = "upsert" /\ baseline =>
       \A e \in observer.items :
         rows[e] = NoRow /\ Permits(observer.policy, e) => e \in open
  /\ worker # Idle => worker.entry \in admitted

\* Everything published has been published at some time, and so has the result of every job
\* that succeeded.
EverInv ==
  /\ published \subseteq ever
  /\ \A id \in DOMAIN jobs : jobs[id].state = "succeeded" => jobs[id].intent \in ever

\* The job of a row is one of the media that the row asks for.
RowJobInv ==
  \A e \in Entries :
    rows[e] # NoRow /\ rows[e].job # 0 =>
      /\ rows[e].job \in DOMAIN jobs
      /\ jobs[rows[e].job].intent = <<e, rows[e].episode>>

\* The worker holds the row that it works on, for the media that the row asks for: nobody
\* else moves a row that is leased and acquiring.
ClaimInv ==
  worker # Idle =>
    /\ rows[worker.entry] # NoRow
    /\ Owns
    /\ worker.intent = <<worker.entry, rows[worker.entry].episode>>

\* What the worker carries from one of its calls to the next.
CarryInv ==
  /\ worker.at \in {"get", "defer", "attach"} =>
       /\ worker.job \in DOMAIN jobs
       /\ jobs[worker.job].intent = worker.intent
  /\ worker.at = "complete" /\ worker.state = "succeeded" =>
       worker.object = worker.intent /\ worker.intent \in ever

\* Whatever counts as watched enough was watched, and only shows have episodes.
ViewedInv ==
  /\ playing # Nobody => playing.what \in Intents /\ playing.what[1] \in Shows
  /\ playing.enough => playing.what \in viewed
  /\ advancer # Idle => <<advancer.show, advancer.episode>> \in viewed
  /\ advancer.at = "advance" => advancer.episode < MaxEpisode
  /\ \A m \in Entries \ Shows : rows[m] # NoRow => rows[m].episode = 0

\* The inductive invariant.
Inv ==
  /\ TypeOK
  /\ PolicyInv /\ NonRetroactive
  /\ EverInv /\ RowJobInv /\ ClaimInv /\ CarryInv /\ SucceededIsPublished
  /\ ViewedInv /\ OneEpisodeAhead

-----------------------------------------------------------------------------
(* Types.                                                                  *)

\* The worker's record, by where it is.
LEMMA WorkerShape ==
  ASSUME TypeOK, worker # Idle
  PROVE  /\ worker \in Working \cup Finishing
         /\ worker.at = "complete" => worker \in Finishing
         /\ worker.at # "complete" => worker \in Working
         /\ worker.entry \in Entries /\ worker.intent \in Intents /\ worker.job \in Nat
BY DEF TypeOK, Working, Finishing

\* Only a goroutine that is at work is at one of its places.
LEMMA Busy ==
  ASSUME TypeOK
  PROVE  /\ worker # Idle <=> worker.at # "idle"
         /\ observer # Idle <=> observer.at # "idle"
         /\ advancer # Idle <=> advancer.at # "idle"
BY DEF TypeOK, Working, Finishing, Observing, Advancing, Idle

\* The observer's record, by where it is.
LEMMA ObserverShape ==
  ASSUME TypeOK, observer # Idle
  PROVE  /\ observer.items \in SUBSET Entries
         /\ observer.at = "upsert" => observer.policy \in Policies
BY DEF TypeOK, Observing

\* The advancer's record.
LEMMA AdvancerShape ==
  ASSUME TypeOK, advancer # Idle
  PROVE  advancer \in Advancing /\ advancer.show \in Shows /\ advancer.episode \in 0..MaxEpisode
BY DEF TypeOK, Advancing

\* A row that is there.
LEMMA RowShape ==
  ASSUME TypeOK, NEW e \in Entries
  PROVE  /\ rows[e] # NoRow => rows[e] \in Row
         /\ rows[e] = NoRow => rows[e].state = "absent"
BY DEF TypeOK, NoRow

\* A job of the list.
LEMMA JobShape ==
  ASSUME TypeOK, NEW id \in DOMAIN jobs
  PROVE  jobs[id] \in Job /\ id \in Nat \ {0} /\ jobs[id].intent \in Intents
<1>1. jobs \in Seq(Job)
  BY DEF TypeOK
<1>2. DOMAIN jobs = 1..Len(jobs) /\ Len(jobs) \in Nat /\ jobs[id] \in Job
  BY <1>1
<1>3. QED BY <1>2 DEF Job

\* The row that an observation makes.
LEMMA NewRowType ==
  ASSUME TypeOK, NEW e \in Entries, NEW p \in Policies
  PROVE  /\ NewRow(e, p) \in Row /\ NewRow(e, p) # NoRow
         /\ NewRow(e, p).job = 0 /\ NewRow(e, p).state = "pending" /\ ~NewRow(e, p).leased
         /\ NewRow(e, p).eligible => baseline /\ Permits(p, e)
         /\ NewRow(e, p).episode \in {0, 1} /\ (e \notin Shows => NewRow(e, p).episode = 0)
<1> DEFINE eligible == baseline /\ Permits(p, e)
           episode == IF e \in Shows /\ eligible THEN 1 ELSE 0
           new == [state |-> "pending", eligible |-> eligible, episode |-> episode,
                   leased |-> FALSE, job |-> 0, object |-> NoIntent]
<1>1. NewRow(e, p) = new
  BY DEF NewRow
<1>2. eligible \in BOOLEAN /\ (eligible => baseline /\ Permits(p, e))
  BY DEF TypeOK, Permits, Policies
<1>3. episode \in {0, 1} /\ episode \in 0..MaxEpisode /\ (e \notin Shows => episode = 0)
  BY WatchlistAssumption
<1> HIDE DEF eligible, episode
<1>4. /\ new \in Row
      /\ new.job = 0 /\ new.state = "pending" /\ ~new.leased
      /\ new.eligible = eligible /\ new.episode = episode
  BY <1>2, <1>3 DEF Row, RowStates, Objects
<1>5. new # NoRow
  BY <1>4 DEF NoRow
<1> HIDE DEF new
<1>6. QED BY <1>1, <1>2, <1>3, <1>4, <1>5

\* Every step keeps the types.
LEMMA TypeStep ==
  ASSUME Inv, [Next]_vars
  PROVE  TypeOK'
<1> TypeOK
  BY DEF Inv
<1>1. CASE Snapshot
  <2>1. observer' \in Observing
    BY <1>1 DEF Snapshot, TypeOK, Observing
  <2>2. Admissible' \in SUBSET Entries
    BY <1>1 DEF Snapshot, TypeOK, Admissible, Idle
  <2>3. QED BY <1>1, <2>1, <2>2 DEF Snapshot, Opens, ObserverOnly, userVars, TypeOK
<1>2. CASE Policy
  <2>1. observer' \in Observing
    BY <1>2, Busy, ObserverShape DEF Policy, TypeOK, Observing
  <2>2. QED BY <1>2, <2>1 DEF Policy, ObserverOnly, userVars, TypeOK
<1>3. CASE UpsertObservations
  <2>1. observer # Idle /\ observer.policy \in Policies
    BY <1>3, Busy, ObserverShape DEF UpsertObservations
  <2>2. rows' \in [Entries -> Row \cup {NoRow}]
    BY <1>3, <2>1, NewRowType DEF UpsertObservations, Upserted, TypeOK
  <2>3. QED BY <1>3, <2>2 DEF UpsertObservations, ObserverOnly, userVars, TypeOK
<1>4. CASE SyncFails
  <2>1. used' \in [edits : Nat, faults : Nat]
    BY <1>4 DEF SyncFails, Fault, TypeOK
  <2>2. QED BY <1>4, <2>1 DEF SyncFails, Closes, ObserverOnly, userVars, TypeOK
<1>5. CASE FindPublished
  <2>1. worker \in Working /\ worker.entry \in Entries /\ worker.intent \in Intents /\ worker.job \in Nat
    BY <1>5, Busy, WorkerShape DEF FindPublished
  <2>2. worker' \in Working \cup Finishing
    BY <1>5, <2>1 DEF FindPublished, Completing, Working, Finishing, Objects
  <2>3. QED BY <1>5, <2>2 DEF FindPublished, WorkerOnly, userVars, historyVars, TypeOK
<1>6. CASE Submit
  <2>1. worker \in Working /\ worker.intent \in Intents
    BY <1>6, Busy, WorkerShape DEF Submit
  <2>2. jobs \in Seq(Job) /\ Len(jobs) \in Nat
    BY DEF TypeOK
  <2>3. [intent |-> worker.intent, state |-> "active"] \in Job
    BY <2>1 DEF Job
  <2>4. jobs' \in Seq(Job)
    <3>1. jobs' = jobs \/ jobs' = Append(jobs, [intent |-> worker.intent, state |-> "active"])
      BY <1>6, Zenon DEF Submit
    <3>2. QED BY <2>2, <2>3, <3>1
  <2>5. worker' \in Working \cup {Idle}
    <3>1. CASE worker' = Idle
      BY <3>1
    <3>2. CASE \E id \in Nat : worker' = [worker EXCEPT !.at = "attach", !.job = id]
      BY <2>1, <3>2 DEF Working
    <3>3. \/ worker' = Idle
          \/ \E id \in DOMAIN jobs : worker' = [worker EXCEPT !.at = "attach", !.job = id]
          \/ worker' = [worker EXCEPT !.at = "attach", !.job = Len(jobs) + 1]
      BY <1>6, Zenon DEF Submit
    <3>4. Len(jobs) + 1 \in Nat /\ DOMAIN jobs \subseteq Nat
      BY <2>2
    <3>5. QED BY <3>1, <3>2, <3>3, <3>4
  <2>6. QED BY <1>6, <2>4, <2>5 DEF Submit, WorkerOnly, userVars, historyVars, TypeOK
<1>7. CASE transitionJob
  <2>1. worker.entry \in Entries /\ worker.job \in Nat
    BY <1>7, Busy, WorkerShape DEF transitionJob
  <2>2. rows' \in [Entries -> Row \cup {NoRow}]
    <3>1. CASE ~Owns
      BY <1>7, <3>1 DEF transitionJob, TypeOK
    <3>2. CASE Owns
      <4>1. rows[worker.entry] \in Row
        BY <2>1, <3>2, RowShape DEF Owns
      <4>2. [rows[worker.entry] EXCEPT !.job = worker.job, !.leased = FALSE] \in Row
        BY <2>1, <4>1 DEF Row
      <4>3. QED BY <1>7, <2>1, <3>2, <4>2 DEF transitionJob, TypeOK
    <3>3. QED BY <3>1, <3>2
  <2>3. QED BY <1>7, <2>2 DEF transitionJob, WorkerOnly, userVars, historyVars, TypeOK
<1>8. CASE Get
  <2>1. worker \in Working /\ worker.entry \in Entries /\ worker.intent \in Intents /\ worker.job \in Nat
    BY <1>8, Busy, WorkerShape DEF Get
  <2>2. jobs[worker.job].intent \in Intents
    BY <1>8, JobShape DEF Get, Inv, CarryInv
  <2>3. worker' \in Working \cup Finishing
    BY <1>8, <2>1, <2>2 DEF Get, Completing, Working, Finishing, Objects
  <2>4. QED BY <1>8, <2>3 DEF Get, WorkerOnly, userVars, historyVars, TypeOK
<1>9. CASE Complete
  <2>1. worker.entry \in Entries /\ worker.state \in RowStates /\ worker.object \in Objects
    BY <1>9, Busy, WorkerShape DEF Complete, Finishing, RowStates
  <2>2. rows' \in [Entries -> Row \cup {NoRow}]
    <3>1. CASE ~Owns
      BY <1>9, <3>1 DEF Complete, TypeOK
    <3>2. CASE Owns
      <4>1. rows[worker.entry] \in Row
        BY <2>1, <3>2, RowShape DEF Owns
      <4>2. [rows[worker.entry] EXCEPT !.state = worker.state, !.object = worker.object,
                                       !.job = 0, !.leased = FALSE] \in Row
        BY <2>1, <4>1 DEF Row
      <4>3. QED BY <1>9, <2>1, <3>2, <4>2 DEF Complete, TypeOK
    <3>3. QED BY <3>1, <3>2
  <2>3. QED BY <1>9, <2>2 DEF Complete, WorkerOnly, userVars, historyVars, TypeOK
<1>10. CASE ProcessFails
  <2>1. used' \in [edits : Nat, faults : Nat]
    BY <1>10 DEF ProcessFails, Fault, TypeOK
  <2>2. QED BY <1>10, <2>1 DEF ProcessFails, WorkerOnly, userVars, historyVars, TypeOK
<1>11. CASE TakePlayback
  <2>1. playing.what \in Intents /\ playing.what[1] \in Shows
    BY <1>11 DEF TakePlayback, Qualifies, Inv, ViewedInv, Nobody
  <2>2. playing.what[2] \in 0..MaxEpisode
    BY <2>1 DEF Intents
  <2>3. advancer' \in Advancing
    BY <1>11, <2>1, <2>2 DEF TakePlayback, Advancing
  <2>4. QED BY <1>11, <2>3 DEF TakePlayback, AdvancerOnly, userVars, historyVars, TypeOK
<1>12. CASE CanAdvanceEpisode
  <2>1. advancer' \in Advancing \cup {Idle}
    BY <1>12, Busy, AdvancerShape DEF CanAdvanceEpisode, Advancing
  <2>2. QED BY <1>12, <2>1 DEF CanAdvanceEpisode, AdvancerOnly, userVars, historyVars, TypeOK
<1>13. CASE AdvanceEpisode
  <2>1. advancer.show \in Entries /\ advancer.episode + 1 \in 0..MaxEpisode
    BY <1>13, Busy, AdvancerShape, WatchlistAssumption DEF AdvanceEpisode, Inv, ViewedInv, Entries
  <2>2. rows' \in [Entries -> Row \cup {NoRow}]
    <3>1. CASE ~Frontier(advancer.show, advancer.episode)
      BY <1>13, <3>1 DEF AdvanceEpisode, TypeOK
    <3>2. CASE Frontier(advancer.show, advancer.episode)
      <4>1. rows[advancer.show] \in Row
        BY <2>1, <3>2, RowShape DEF Frontier
      <4>2. [rows[advancer.show] EXCEPT !.state = "pending", !.leased = FALSE, !.job = 0,
               !.object = NoIntent, !.episode = advancer.episode + 1] \in Row
        BY <2>1, <4>1 DEF Row, RowStates, Objects
      <4>3. QED BY <1>13, <2>1, <3>2, <4>2 DEF AdvanceEpisode, TypeOK
    <3>3. QED BY <3>1, <3>2
  <2>3. QED BY <1>13, <2>2 DEF AdvanceEpisode, AdvancerOnly, userVars, historyVars, TypeOK
<1>14. CASE AdvanceGivesUp
  BY <1>14 DEF AdvanceGivesUp, AdvancerOnly, userVars, historyVars, TypeOK
<1>15. CASE FinishJob
  <2>1. PICK id \in DOMAIN jobs, state \in {"succeeded", "failed"} :
          /\ jobs' = [jobs EXCEPT ![id].state = state]
          /\ published' = IF state = "succeeded" THEN published \cup {jobs[id].intent} ELSE published
    BY <1>15 DEF FinishJob
  <2>2. jobs[id] \in Job /\ jobs[id].intent \in Intents /\ jobs \in Seq(Job)
    BY JobShape DEF TypeOK
  <2>3. [jobs[id] EXCEPT !.state = state] \in Job
    BY <2>2 DEF Job
  <2>4. jobs' \in Seq(Job)
    <3>1. jobs' = [jobs EXCEPT ![id] = [jobs[id] EXCEPT !.state = state]]
      BY <2>1
    <3>2. QED BY <2>2, <2>3, <3>1
  <2>5. published' \in SUBSET Intents
    BY <2>1, <2>2 DEF TypeOK
  <2>6. QED BY <1>15, <2>4, <2>5 DEF FinishJob, userVars, TypeOK
<1>16. CASE Edit
  <2>1. used' \in [edits : Nat, faults : Nat]
    BY <1>16 DEF Edit, TypeOK
  <2>2. list' \in SUBSET Entries /\ policy' \in Policies
    BY <1>16 DEF Edit, TypeOK, Policies
  <2>3. open' \in SUBSET Entries
    <3>1. Admissible' \subseteq IF observer = Idle THEN {} ELSE observer.items
      BY <1>16 DEF Edit, Admissible
    <3>2. Admissible' \subseteq Entries
      BY <3>1, ObserverShape
    <3>3. QED BY <1>16, <3>2 DEF Edit, TypeOK
  <2>4. QED BY <1>16, <2>1, <2>2, <2>3 DEF Edit, TypeOK
<1>17. CASE Play
  <2>1. playing' \in [what : Objects, enough : BOOLEAN] /\ playing'.what \in Intents
    <3>1. CASE \E i \in published : playing' = [what |-> i, enough |-> FALSE]
      BY <3>1 DEF TypeOK, Objects
    <3>2. CASE playing # Nobody /\ playing' = [playing EXCEPT !.enough = TRUE]
      BY <3>2 DEF TypeOK, Objects, Inv, ViewedInv
    <3>3. QED BY <1>17, <3>1, <3>2 DEF Play
  <2>2. viewed' \in SUBSET Intents
    BY <1>17, <2>1 DEF Play, TypeOK
  <2>3. QED BY <1>17, <2>1, <2>2 DEF Play, TypeOK
<1>18. CASE Unpublish
  <2>1. used' \in [edits : Nat, faults : Nat]
    BY <1>18 DEF Unpublish, TypeOK
  <2>2. QED BY <1>18, <2>1 DEF Unpublish, userVars, historyVars, TypeOK
<1>19. CASE Restart
  <2>1. used' \in [edits : Nat, faults : Nat]
    BY <1>19 DEF Restart, Fault, TypeOK
  <2>2. QED BY <1>19, <2>1 DEF Restart, Closes, userVars, TypeOK
<1>20. ASSUME NEW e \in Entries, Claim(e) PROVE TypeOK'
  <2>1. rows[e] \in Row
    BY <1>20, RowShape DEF Claim
  <2>2. [rows[e] EXCEPT !.state = "acquiring", !.leased = TRUE] \in Row
    BY <2>1 DEF Row, RowStates
  <2>3. rows' \in [Entries -> Row \cup {NoRow}]
    BY <1>20, <2>2 DEF Claim, TypeOK
  <2>4. <<e, rows[e].episode>> \in Intents /\ rows[e].job \in Nat
    BY <2>1 DEF Row, Intents
  <2>5. worker' \in Working
    BY <1>20, <2>4 DEF Claim, Working
  <2>6. QED BY <1>20, <2>3, <2>5 DEF Claim, WorkerOnly, userVars, historyVars, TypeOK
<1>21. ASSUME NEW e \in Entries, LeaseExpires(e) PROVE TypeOK'
  <2>1. rows[e] \in Row
    BY <1>21, RowShape DEF LeaseExpires
  <2>2. [rows[e] EXCEPT !.leased = FALSE] \in Row
    BY <2>1 DEF Row
  <2>3. rows' \in [Entries -> Row \cup {NoRow}]
    BY <1>21, <2>2 DEF LeaseExpires, TypeOK
  <2>4. QED BY <1>21, <2>3 DEF LeaseExpires, WorkerOnly, userVars, historyVars, TypeOK
<1>22. CASE UNCHANGED vars
  BY <1>22 DEF vars, userVars, historyVars, TypeOK
<1>23. QED
  BY <1>1, <1>2, <1>3, <1>4, <1>5, <1>6, <1>7, <1>8, <1>9, <1>10, <1>11, <1>12, <1>13, <1>14,
     <1>15, <1>16, <1>17, <1>18, <1>19, <1>20, <1>21, <1>22 DEF Next, Process

-----------------------------------------------------------------------------
(* What a step may do.                                                     *)

\* History only grows.
LEMMA HistoryGrows ==
  ASSUME Inv, [Next]_vars
  PROVE  admitted \subseteq admitted' /\ viewed \subseteq viewed' /\ ever \subseteq ever'
BY DEF Next, Process, vars, userVars, historyVars, ObserverOnly, WorkerOnly, AdvancerOnly,
       Snapshot, Policy, UpsertObservations, SyncFails, Claim, LeaseExpires, FindPublished, Submit,
       transitionJob, Get, Complete, ProcessFails, TakePlayback, CanAdvanceEpisode, AdvanceEpisode,
       AdvanceGivesUp, FinishJob, Edit, Play, Unpublish, Restart, Opens, Closes

\* Jobs keep their ids and their media; a new one is of the media that the worker is after.
LEMMA JobsStep ==
  ASSUME Inv, [Next]_vars
  PROVE  /\ \A id \in DOMAIN jobs : id \in DOMAIN jobs' /\ jobs'[id].intent = jobs[id].intent
         /\ \A id \in DOMAIN jobs' \ DOMAIN jobs :
              /\ worker.at = "submit"
              /\ jobs'[id] = [intent |-> worker.intent, state |-> "active"]
<1>1. jobs \in Seq(Job) /\ \A id \in DOMAIN jobs : jobs[id] \in Job
  BY JobShape DEF Inv, TypeOK
<1>2. CASE jobs' = jobs
  BY <1>2
<1>3. CASE worker.at = "submit" /\ jobs' = Append(jobs, [intent |-> worker.intent, state |-> "active"])
  <2> DEFINE new == [intent |-> worker.intent, state |-> "active"]
  <2>1. jobs' = Append(jobs, new)
    BY <1>3
  <2> HIDE DEF new
  <2>2. /\ DOMAIN jobs' = DOMAIN jobs \cup {Len(jobs) + 1}
        /\ \A id \in DOMAIN jobs : jobs'[id] = jobs[id]
        /\ jobs'[Len(jobs) + 1] = new
    BY <1>1, <2>1
  <2>3. QED BY <1>3, <2>2 DEF new
<1>4. CASE FinishJob
  <2>1. PICK id \in DOMAIN jobs, state \in {"succeeded", "failed"} :
          jobs' = [jobs EXCEPT ![id].state = state]
    BY <1>4 DEF FinishJob
  <2>2. jobs[id] \in Job
    BY <1>1
  <2>3. [jobs[id] EXCEPT !.state = state].intent = jobs[id].intent
    BY <2>2 DEF Job
  <2>4. QED BY <2>1, <2>3
<1>5. jobs' = jobs \/ Submit \/ FinishJob
  BY DEF Next, Process, vars, ObserverOnly, WorkerOnly, AdvancerOnly,
       Snapshot, Policy, UpsertObservations, SyncFails, Claim, LeaseExpires, FindPublished,
       transitionJob, Get, Complete, ProcessFails, TakePlayback, CanAdvanceEpisode, AdvanceEpisode,
       AdvanceGivesUp, Edit, Play, Unpublish, Restart
<1>6. Submit => \/ jobs' = jobs
                \/ worker.at = "submit" /\ jobs' = Append(jobs, [intent |-> worker.intent, state |-> "active"])
  BY Zenon DEF Submit
<1>7. QED BY <1>2, <1>3, <1>4, <1>5, <1>6

\* A row changes in one of four ways: it is made, leased or released, moved by the worker that
\* holds it, or moved on to the next episode.
RowMade(e) ==
  /\ rows[e] = NoRow
  /\ observer.at = "upsert" /\ e \in observer.items
  /\ rows'[e] = NewRow(e, observer.policy)
  /\ e \in open => e \in admitted'

RowKept(e) ==
  /\ rows[e] # NoRow /\ rows'[e] # NoRow
  /\ rows'[e].eligible = rows[e].eligible

RowLeased(e) ==
  /\ RowKept(e)
  /\ rows'[e].episode = rows[e].episode /\ rows'[e].job = rows[e].job /\ rows'[e].object = rows[e].object
  /\ rows'[e].state # rows[e].state => rows'[e].state = "acquiring"

RowWorked(e) ==
  /\ RowKept(e)
  /\ worker # Idle /\ worker.entry = e /\ worker' = Idle
  /\ rows'[e].episode = rows[e].episode
  /\ \/ /\ worker.at \in {"attach", "defer"}
        /\ rows'[e].job = worker.job /\ rows'[e].state = "acquiring"
     \/ /\ worker.at = "complete"
        /\ rows'[e].job = 0 /\ rows'[e].state = worker.state /\ rows'[e].object = worker.object

RowAdvanced(e) ==
  /\ RowKept(e)
  /\ advancer.at = "advance" /\ advancer.show = e
  /\ rows[e].state = "succeeded" /\ rows[e].episode = advancer.episode
  /\ rows'[e].episode = advancer.episode + 1 /\ rows'[e].job = 0 /\ rows'[e].state = "pending"

\* Every step does one of these to a row, or nothing.
LEMMA RowStep ==
  ASSUME Inv, [Next]_vars, NEW e \in Entries
  PROVE  rows'[e] = rows[e] \/ RowMade(e) \/ RowLeased(e) \/ RowWorked(e) \/ RowAdvanced(e)
<1> TypeOK /\ ClaimInv
  BY DEF Inv
<1>0. rows \in [Entries -> Row \cup {NoRow}] /\ (rows[e] # NoRow => rows[e] \in Row)
  BY RowShape DEF TypeOK
<1>1. CASE UpsertObservations
  BY <1>1 DEF UpsertObservations, Upserted, RowMade
<1>2. ASSUME NEW f \in Entries, Claim(f)
      PROVE  rows'[e] = rows[e] \/ RowLeased(e)
  <2>1. CASE e # f
    BY <1>0, <1>2, <2>1 DEF Claim
  <2>2. CASE e = f
    <3>1. rows[e] \in Row /\ rows'[e] = [rows[e] EXCEPT !.state = "acquiring", !.leased = TRUE]
      BY <1>0, <1>2, <2>2 DEF Claim
    <3>2. /\ rows'[e].eligible = rows[e].eligible /\ rows'[e].episode = rows[e].episode
          /\ rows'[e].job = rows[e].job /\ rows'[e].object = rows[e].object
          /\ rows'[e].state = "acquiring" /\ rows[e].state # "absent"
      BY <3>1 DEF Row, RowStates
    <3>3. rows[e] # NoRow /\ rows'[e] # NoRow
      BY <3>2 DEF NoRow
    <3>4. QED BY <3>2, <3>3 DEF RowLeased, RowKept
  <2>3. QED BY <2>1, <2>2
<1>3. ASSUME NEW f \in Entries, LeaseExpires(f)
      PROVE  rows'[e] = rows[e] \/ RowLeased(e)
  <2>1. CASE e # f
    BY <1>0, <1>3, <2>1 DEF LeaseExpires
  <2>2. CASE e = f
    <3>1. rows[e] \in Row /\ rows'[e] = [rows[e] EXCEPT !.leased = FALSE]
      BY <1>0, <1>3, <2>2 DEF LeaseExpires
    <3>2. /\ rows'[e].eligible = rows[e].eligible /\ rows'[e].episode = rows[e].episode
          /\ rows'[e].job = rows[e].job /\ rows'[e].object = rows[e].object
          /\ rows'[e].state = rows[e].state /\ rows[e].state # "absent"
      BY <3>1 DEF Row, RowStates
    <3>3. rows[e] # NoRow /\ rows'[e] # NoRow
      BY <3>2 DEF NoRow
    <3>4. QED BY <3>2, <3>3 DEF RowLeased, RowKept
  <2>3. QED BY <2>1, <2>2
<1>4. CASE transitionJob
  <2>1. worker # Idle /\ worker.entry \in Entries
    BY <1>4, Busy, WorkerShape DEF transitionJob
  <2>2. CASE e # worker.entry
    BY <1>0, <1>4, <2>1, <2>2 DEF transitionJob
  <2>3. CASE e = worker.entry
    <3>1. rows[e] \in Row /\ rows[e].state = "acquiring"
      BY <1>0, <2>1, <2>3 DEF ClaimInv, Owns
    <3>2. rows'[e] = [rows[e] EXCEPT !.job = worker.job, !.leased = FALSE]
      BY <1>0, <1>4, <2>1, <2>3 DEF transitionJob, ClaimInv
    <3>3. /\ rows'[e].eligible = rows[e].eligible /\ rows'[e].episode = rows[e].episode
          /\ rows'[e].job = worker.job /\ rows'[e].state = "acquiring"
      BY <3>1, <3>2 DEF Row
    <3>4. rows[e] # NoRow /\ rows'[e] # NoRow
      BY <3>1, <3>3 DEF NoRow
    <3>5. RowWorked(e)
      BY <1>4, <2>1, <2>3, <3>3, <3>4 DEF RowWorked, RowKept, transitionJob
    <3>6. QED BY <3>5
  <2>4. QED BY <2>2, <2>3
<1>5. CASE Complete
  <2>1. worker # Idle /\ worker.entry \in Entries /\ worker.state # "absent"
    BY <1>5, Busy, WorkerShape DEF Complete, Finishing
  <2>2. CASE e # worker.entry
    BY <1>0, <1>5, <2>1, <2>2 DEF Complete
  <2>3. CASE e = worker.entry
    <3>1. rows[e] \in Row /\ rows[e].state = "acquiring"
      BY <1>0, <2>1, <2>3 DEF ClaimInv, Owns
    <3>2. rows'[e] = [rows[e] EXCEPT !.state = worker.state, !.object = worker.object,
                                     !.job = 0, !.leased = FALSE]
      BY <1>0, <1>5, <2>1, <2>3 DEF Complete, ClaimInv
    <3>3. /\ rows'[e].eligible = rows[e].eligible /\ rows'[e].episode = rows[e].episode
          /\ rows'[e].job = 0 /\ rows'[e].state = worker.state /\ rows'[e].object = worker.object
      BY <3>1, <3>2 DEF Row
    <3>4. rows[e] # NoRow /\ rows'[e] # NoRow
      BY <2>1, <3>1, <3>3 DEF NoRow
    <3>5. RowWorked(e)
      BY <1>5, <2>1, <2>3, <3>3, <3>4 DEF RowWorked, RowKept, Complete
    <3>6. QED BY <3>5
  <2>4. QED BY <2>2, <2>3
<1>6. CASE AdvanceEpisode
  <2>1. CASE e # advancer.show \/ ~Frontier(advancer.show, advancer.episode)
    BY <1>0, <1>6, <2>1 DEF AdvanceEpisode
  <2>2. CASE e = advancer.show /\ Frontier(advancer.show, advancer.episode)
    <3>1. /\ rows[e] \in Row /\ rows[e] # NoRow
          /\ rows[e].state = "succeeded" /\ rows[e].episode = advancer.episode
      BY <1>0, <2>2 DEF Frontier
    <3>2. rows'[e] = [rows[e] EXCEPT !.state = "pending", !.leased = FALSE, !.job = 0,
                        !.object = NoIntent, !.episode = advancer.episode + 1]
      BY <1>0, <1>6, <2>2 DEF AdvanceEpisode
    <3>3. /\ rows'[e].eligible = rows[e].eligible /\ rows'[e].episode = advancer.episode + 1
          /\ rows'[e].job = 0 /\ rows'[e].state = "pending"
      BY <3>1, <3>2 DEF Row
    <3>4. rows'[e] # NoRow
      BY <3>3 DEF NoRow
    <3>5. RowAdvanced(e)
      BY <1>6, <2>2, <3>1, <3>3, <3>4 DEF RowAdvanced, RowKept, AdvanceEpisode
    <3>6. QED BY <3>5
  <2>3. QED BY <2>1, <2>2
<1>7. \/ rows' = rows \/ UpsertObservations \/ transitionJob \/ Complete \/ AdvanceEpisode
      \/ \E f \in Entries : Claim(f) \/ LeaseExpires(f)
  BY DEF Next, Process, vars, ObserverOnly, WorkerOnly, AdvancerOnly,
       Snapshot, Policy, SyncFails, FindPublished, Submit, Get, ProcessFails, TakePlayback,
       CanAdvanceEpisode, AdvanceGivesUp, FinishJob, Edit, Play, Unpublish, Restart
<1>8. QED BY <1>1, <1>2, <1>3, <1>4, <1>5, <1>6, <1>7

\* While the worker goes on with a row it keeps its media, and the row stays as it is.
LEMMA WorkerStep ==
  ASSUME Inv, [Next]_vars, worker' # Idle
  PROVE  \/ \E e \in Entries : Claim(e)
         \/ /\ worker # Idle
            /\ worker'.entry = worker.entry /\ worker'.intent = worker.intent
            /\ rows'[worker.entry] = rows[worker.entry]
<1> TypeOK /\ ClaimInv
  BY DEF Inv
<1>1. CASE UNCHANGED worker
  <2>1. CASE UpsertObservations
    BY <1>1, <2>1, WorkerShape DEF UpsertObservations, Upserted, ClaimInv
  <2>2. CASE AdvanceEpisode
    <3>1. worker.entry \in Entries /\ rows[worker.entry].state = "acquiring"
      BY <1>1, WorkerShape DEF ClaimInv, Owns
    <3>2. CASE advancer.show = worker.entry
      BY <2>2, <3>1, <3>2, <1>1 DEF AdvanceEpisode, Frontier
    <3>3. CASE advancer.show # worker.entry
      BY <2>2, <3>1, <3>3, <1>1 DEF AdvanceEpisode, TypeOK
    <3>4. QED BY <3>2, <3>3
  <2>3. ASSUME NEW e \in Entries, LeaseExpires(e)
        PROVE  rows'[worker.entry] = rows[worker.entry]
    BY <1>1, <2>3, WorkerShape DEF LeaseExpires, TypeOK
  <2>4. CASE transitionJob \/ Complete
    BY <1>1, <2>4 DEF transitionJob, Complete
  <2>5. \/ rows' = rows \/ UpsertObservations \/ AdvanceEpisode \/ transitionJob \/ Complete
        \/ \E e \in Entries : Claim(e) \/ LeaseExpires(e)
    BY DEF Next, Process, vars, ObserverOnly, WorkerOnly, AdvancerOnly,
       Snapshot, Policy, SyncFails, FindPublished, Submit, Get, ProcessFails, TakePlayback,
       CanAdvanceEpisode, AdvanceGivesUp, FinishJob, Edit, Play, Unpublish, Restart
  <2>6. QED BY <1>1, <2>1, <2>2, <2>3, <2>4, <2>5
<1>2. CASE FindPublished
  <2>1. worker \in Working
    BY <1>2, Busy, WorkerShape DEF FindPublished
  <2>2. worker'.entry = worker.entry /\ worker'.intent = worker.intent
    BY <1>2, <2>1 DEF FindPublished, Completing, Working
  <2>3. QED BY <1>2, <2>2, Busy DEF FindPublished
<1>3. CASE Submit
  <2>1. worker \in Working
    BY <1>3, Busy, WorkerShape DEF Submit
  <2>2. \E id : worker' = [worker EXCEPT !.at = "attach", !.job = id]
    BY <1>3, Zenon DEF Submit
  <2>3. worker'.entry = worker.entry /\ worker'.intent = worker.intent
    BY <2>1, <2>2 DEF Working
  <2>4. QED BY <1>3, <2>3, Busy DEF Submit
<1>4. CASE Get
  <2>1. worker \in Working
    BY <1>4, Busy, WorkerShape DEF Get
  <2>2. worker'.entry = worker.entry /\ worker'.intent = worker.intent
    BY <1>4, <2>1 DEF Get, Completing, Working
  <2>3. QED BY <1>4, <2>2, Busy DEF Get
<1>5. \/ UNCHANGED worker \/ worker' = Idle \/ FindPublished \/ Submit \/ Get
      \/ \E e \in Entries : Claim(e)
  BY DEF Next, Process, vars, ObserverOnly, WorkerOnly, AdvancerOnly,
       Snapshot, Policy, UpsertObservations, SyncFails, LeaseExpires, transitionJob, Complete,
       ProcessFails, TakePlayback, CanAdvanceEpisode, AdvanceEpisode, AdvanceGivesUp, FinishJob,
       Edit, Play, Unpublish, Restart
<1>6. QED BY <1>1, <1>2, <1>3, <1>4, <1>5

-----------------------------------------------------------------------------
(* The conjuncts of the invariant.                                         *)

\* PolicyInv is kept.
LEMMA PolicyStep ==
  ASSUME Inv, [Next]_vars
  PROVE  PolicyInv'
<1> TypeOK /\ PolicyInv
  BY DEF Inv
<1>1. (worker # Idle => worker.entry \in admitted)'
  <2>1. ASSUME NEW e \in Entries, Claim(e) PROVE worker'.entry \in admitted
    BY <2>1 DEF Claim, Inv, NonRetroactive
  <2>2. QED BY <2>1, HistoryGrows, WorkerStep DEF PolicyInv
<1> DEFINE Known ==
      /\ Admissible \subseteq open
      /\ observer.at = "upsert" /\ baseline =>
           \A e \in observer.items :
             rows[e] = NoRow /\ Permits(observer.policy, e) => e \in open
<1>2. ASSUME Snapshot PROVE Known'
  BY <1>2 DEF Snapshot, Opens
<1>3. ASSUME Policy PROVE Known'
  <2>1. observer # Idle /\ observer.at = "policy"
    BY <1>3, Busy DEF Policy
  <2>2. /\ observer'.items = observer.items /\ observer'.policy = policy /\ observer' # Idle
        /\ UNCHANGED <<rows, policy, baseline, open>>
    BY <1>3 DEF Policy, ObserverOnly, userVars, Idle
  <2>3. Admissible' = Admissible
    BY <2>1, <2>2 DEF Admissible, Permits
  <2>4. \A e \in observer.items : baseline /\ rows[e] = NoRow /\ Permits(policy, e) => e \in open
    BY <2>1 DEF Admissible, PolicyInv
  <2>5. \A e \in Entries : Permits(observer.policy, e)' = Permits(policy, e)
    BY <2>2 DEF Permits
  <2>6. QED BY <2>1, <2>2, <2>3, <2>4, <2>5, ObserverShape DEF PolicyInv
<1>4. ASSUME Edit PROVE Known'
  <2>1. /\ open \subseteq open' /\ Admissible' \subseteq open'
        /\ UNCHANGED <<observer, rows, baseline>>
    BY <1>4 DEF Edit
  <2>2. QED BY <2>1 DEF PolicyInv, Permits
<1>5. ASSUME observer' = Idle PROVE Known'
  BY <1>5 DEF Admissible, Idle
<1>6. ASSUME UNCHANGED <<policy, observer, baseline, open>>,
             \A e \in Entries : rows'[e] = NoRow => rows[e] = NoRow
      PROVE  Known'
  <2>1. Admissible' \subseteq Admissible
    BY <1>6, ObserverShape DEF Admissible, Permits
  <2>2. QED BY <1>6, <2>1, Busy, ObserverShape DEF PolicyInv, Permits
<1>7. \/ Snapshot \/ Policy \/ Edit \/ observer' = Idle
      \/ UNCHANGED <<policy, observer, baseline, open>>
  BY DEF Next, Process, vars, userVars, historyVars, ObserverOnly, WorkerOnly, AdvancerOnly,
       UpsertObservations, SyncFails, Claim, LeaseExpires, FindPublished, Submit,
       transitionJob, Get, Complete, ProcessFails, TakePlayback, CanAdvanceEpisode, AdvanceEpisode,
       AdvanceGivesUp, FinishJob, Play, Unpublish, Restart
<1>8. \A e \in Entries : rows'[e] = NoRow => rows[e] = NoRow
  BY RowStep DEF RowMade, RowLeased, RowWorked, RowAdvanced, RowKept
<1>9. Known'
  BY <1>2, <1>3, <1>4, <1>5, <1>6, <1>7, <1>8
<1>10. QED BY <1>1, <1>9 DEF PolicyInv

\* NonRetroactive is kept: a row becomes eligible only when it is made, and the worker makes
\* jobs only for the row that it holds.
LEMMA NonRetroactiveStep ==
  ASSUME Inv, [Next]_vars
  PROVE  NonRetroactive'
<1>1. admitted \subseteq admitted'
  BY HistoryGrows
<1>2. ASSUME NEW e \in Entries, (rows[e] # NoRow /\ rows[e].eligible)'
      PROVE  e \in admitted'
  <2>1. CASE rows'[e] = rows[e]
    BY <1>1, <1>2, <2>1 DEF Inv, NonRetroactive, NoRow
  <2>2. CASE RowMade(e)
    <3>1. observer # Idle /\ observer.policy \in Policies /\ rows[e] = NoRow /\ e \in observer.items
      BY <2>2, Busy, ObserverShape DEF RowMade, Inv
    <3>2. baseline /\ Permits(observer.policy, e)
      BY <1>2, <2>2, <3>1, NewRowType DEF RowMade, Inv
    <3>3. e \in open
      BY <2>2, <3>1, <3>2 DEF RowMade, Inv, PolicyInv
    <3>4. QED BY <2>2, <3>3 DEF RowMade
  <2>3. CASE RowKept(e)
    BY <1>1, <1>2, <2>3 DEF RowKept, Inv, NonRetroactive
  <2>4. QED BY <2>1, <2>2, <2>3, RowStep DEF RowLeased, RowWorked, RowAdvanced
<1>3. ASSUME NEW id \in DOMAIN jobs' PROVE jobs'[id].intent[1] \in admitted'
  <2>1. CASE id \in DOMAIN jobs
    BY <1>1, <2>1, JobsStep DEF Inv, NonRetroactive
  <2>2. CASE id \notin DOMAIN jobs
    <3>1. worker # Idle /\ jobs'[id].intent = worker.intent
      BY <1>3, <2>2, JobsStep, Busy DEF Inv
    <3>2. worker.intent[1] = worker.entry /\ worker.entry \in admitted
      BY <3>1 DEF Inv, ClaimInv, PolicyInv
    <3>3. QED BY <1>1, <3>1, <3>2
  <2>3. QED BY <2>1, <2>2
<1>4. QED BY <1>2, <1>3 DEF NonRetroactive

\* EverInv is kept.
LEMMA EverStep ==
  ASSUME Inv, [Next]_vars
  PROVE  EverInv'
<1> TypeOK /\ EverInv
  BY DEF Inv
<1>1. CASE FinishJob
  <2>1. PICK id \in DOMAIN jobs, state \in {"succeeded", "failed"} :
          /\ jobs' = [jobs EXCEPT ![id].state = state]
          /\ published' = IF state = "succeeded" THEN published \cup {jobs[id].intent} ELSE published
    BY <1>1 DEF FinishJob
  <2>2. ever' = ever \cup published'
    BY <1>1 DEF FinishJob
  <2>3. jobs[id] \in Job /\ DOMAIN jobs' = DOMAIN jobs
    BY <2>1, JobShape
  <2>4. jobs'[id].intent = jobs[id].intent /\ jobs'[id].state = state
    BY <2>1, <2>3 DEF Job
  <2>5. ASSUME NEW k \in DOMAIN jobs', jobs'[k].state = "succeeded"
        PROVE  jobs'[k].intent \in ever'
    <3>1. CASE k = id
      BY <2>1, <2>2, <2>4, <2>5, <3>1
    <3>2. CASE k # id
      BY <2>1, <2>2, <2>3, <2>5, <3>2 DEF EverInv
    <3>3. QED BY <3>1, <3>2
  <2>6. QED BY <2>2, <2>5 DEF EverInv
<1>2. CASE Submit
  <2>1. ASSUME NEW id \in DOMAIN jobs', jobs'[id].state = "succeeded"
        PROVE  id \in DOMAIN jobs /\ jobs'[id] = jobs[id]
    <3>1. id \in DOMAIN jobs
      BY <2>1, JobsStep
    <3>2. jobs \in Seq(Job)
      BY DEF TypeOK
    <3>3. jobs' = jobs \/ \E new : jobs' = Append(jobs, new)
      BY <1>2, Zenon DEF Submit
    <3>4. QED BY <3>1, <3>2, <3>3
  <2>2. published' = published /\ ever' = ever
    BY <1>2 DEF Submit, WorkerOnly, historyVars
  <2>3. QED BY <2>1, <2>2 DEF EverInv
<1>3. CASE UNCHANGED <<jobs, ever>> /\ published' \subseteq published
  BY <1>3 DEF EverInv
<1>4. FinishJob \/ Submit \/ (UNCHANGED <<jobs, ever>> /\ published' \subseteq published)
  BY DEF Next, Process, vars, userVars, historyVars, ObserverOnly, WorkerOnly, AdvancerOnly,
       Snapshot, Policy, UpsertObservations, SyncFails, Claim, LeaseExpires, FindPublished,
       transitionJob, Get, Complete, ProcessFails, TakePlayback, CanAdvanceEpisode, AdvanceEpisode,
       AdvanceGivesUp, Edit, Play, Unpublish, Restart
<1>5. QED BY <1>1, <1>2, <1>3, <1>4

\* RowJobInv is kept: a row gets the job of the worker that holds it, and loses its job when
\* it comes to another episode.
LEMMA RowJobStep ==
  ASSUME Inv, [Next]_vars
  PROVE  RowJobInv'
<1> SUFFICES ASSUME NEW e \in Entries, (rows[e] # NoRow /\ rows[e].job # 0)'
             PROVE  /\ rows'[e].job \in DOMAIN jobs'
                    /\ jobs'[rows'[e].job].intent = <<e, rows'[e].episode>>
  BY DEF RowJobInv
<1>1. \A id \in DOMAIN jobs : id \in DOMAIN jobs' /\ jobs'[id].intent = jobs[id].intent
  BY JobsStep
<1>2. CASE rows'[e] = rows[e] \/ RowLeased(e)
  BY <1>1, <1>2 DEF RowLeased, RowKept, Inv, RowJobInv, NoRow
<1>3. CASE RowMade(e)
  BY <1>3, Busy, ObserverShape, NewRowType DEF RowMade, Inv
<1>4. CASE RowWorked(e)
  BY <1>1, <1>4 DEF RowWorked, RowKept, Inv, ClaimInv, CarryInv
<1>5. CASE RowAdvanced(e)
  BY <1>5 DEF RowAdvanced
<1>6. QED BY <1>2, <1>3, <1>4, <1>5, RowStep

\* ClaimInv is kept.
LEMMA ClaimStep ==
  ASSUME Inv, [Next]_vars
  PROVE  ClaimInv'
<1> SUFFICES ASSUME worker' # Idle
             PROVE  /\ rows'[worker'.entry] # NoRow
                    /\ rows'[worker'.entry].state = "acquiring" /\ rows'[worker'.entry].leased
                    /\ worker'.intent = <<worker'.entry, rows'[worker'.entry].episode>>
  BY DEF ClaimInv, Owns, NoRow, Idle
<1>1. ASSUME NEW e \in Entries, Claim(e)
      PROVE  /\ worker'.entry = e /\ worker'.intent = <<e, rows'[e].episode>>
             /\ rows'[e] # NoRow /\ rows'[e].state = "acquiring" /\ rows'[e].leased
  <2>1. rows[e] \in Row /\ rows \in [Entries -> Row \cup {NoRow}]
    BY <1>1, RowShape DEF Claim, Inv, TypeOK
  <2>2. rows'[e] = [rows[e] EXCEPT !.state = "acquiring", !.leased = TRUE]
    BY <1>1, <2>1 DEF Claim
  <2>3. rows'[e].state = "acquiring" /\ rows'[e].leased /\ rows'[e].episode = rows[e].episode
    BY <2>1, <2>2 DEF Row
  <2>4. rows'[e] # NoRow
    BY <2>3 DEF NoRow
  <2>5. worker'.entry = e /\ worker'.intent = <<e, rows[e].episode>>
    BY <1>1 DEF Claim
  <2>6. QED BY <2>3, <2>4, <2>5
<1>2. CASE /\ worker # Idle
           /\ worker'.entry = worker.entry /\ worker'.intent = worker.intent
           /\ rows'[worker.entry] = rows[worker.entry]
  BY <1>2 DEF Inv, ClaimInv, Owns
<1>3. QED BY <1>1, <1>2, WorkerStep

\* CarryInv is kept.
LEMMA CarryStep ==
  ASSUME Inv, [Next]_vars
  PROVE  CarryInv'
<1> TypeOK /\ CarryInv
  BY DEF Inv
<1>0. /\ \A id \in DOMAIN jobs : id \in DOMAIN jobs' /\ jobs'[id].intent = jobs[id].intent
      /\ ever \subseteq ever'
  BY JobsStep, HistoryGrows
<1>1. CASE worker' = Idle
  BY <1>1 DEF CarryInv, Idle
<1>2. CASE UNCHANGED worker
  BY <1>0, <1>2 DEF CarryInv
<1>3. CASE FindPublished
  <2>1. worker \in Working
    BY <1>3, Busy, WorkerShape DEF FindPublished
  <2>2. CASE worker.intent \in published
    <3>1. worker'.at = "complete" /\ worker'.intent = worker.intent /\ worker'.object = worker.intent
      BY <1>3, <2>2 DEF FindPublished, Completing
    <3>2. worker.intent \in ever
      BY <2>2 DEF Inv, EverInv
    <3>3. QED BY <1>0, <3>1, <3>2 DEF CarryInv
  <2>3. CASE worker.intent \notin published
    <3>1. worker'.at = "submit"
      BY <1>3, <2>1, <2>3 DEF FindPublished, Working
    <3>2. QED BY <3>1 DEF CarryInv
  <2>4. QED BY <2>2, <2>3
<1>4. CASE Submit /\ worker' # Idle
  <2>1. worker \in Working /\ jobs \in Seq(Job)
    BY <1>4, Busy, WorkerShape DEF Submit, TypeOK
  <2>2. CASE \E id \in DOMAIN jobs : /\ jobs[id] = [intent |-> worker.intent, state |-> "active"]
                                     /\ worker' = [worker EXCEPT !.at = "attach", !.job = id]
    <3>1. PICK id \in DOMAIN jobs : /\ jobs[id] = [intent |-> worker.intent, state |-> "active"]
                                    /\ worker' = [worker EXCEPT !.at = "attach", !.job = id]
      BY <2>2
    <3>2. worker'.at = "attach" /\ worker'.job = id /\ worker'.intent = worker.intent
      BY <2>1, <3>1 DEF Working
    <3>3. jobs[id].intent = worker.intent
      BY <3>1
    <3>4. QED BY <1>0, <3>2, <3>3 DEF CarryInv
  <2>3. CASE /\ jobs' = Append(jobs, [intent |-> worker.intent, state |-> "active"])
             /\ worker' = [worker EXCEPT !.at = "attach", !.job = Len(jobs) + 1]
    <3>1. worker'.at = "attach" /\ worker'.job = Len(jobs) + 1 /\ worker'.intent = worker.intent
      BY <2>1, <2>3 DEF Working
    <3>2. Len(jobs) + 1 \in DOMAIN jobs' /\ Len(jobs) + 1 \notin DOMAIN jobs
      BY <2>1, <2>3
    <3>3. jobs'[Len(jobs) + 1].intent = worker.intent
      BY <3>2, JobsStep
    <3>4. QED BY <3>1, <3>2, <3>3 DEF CarryInv
  <2>4. QED BY <1>4, <2>2, <2>3, Zenon DEF Submit
<1>5. CASE Get
  <2>1. worker \in Working /\ worker.job \in DOMAIN jobs /\ jobs[worker.job].intent = worker.intent
    BY <1>5, Busy, WorkerShape DEF Get, CarryInv
  <2>2. CASE worker' = [worker EXCEPT !.at = "defer"]
    <3>1. worker'.at = "defer" /\ worker'.job = worker.job /\ worker'.intent = worker.intent
      BY <2>1, <2>2 DEF Working
    <3>2. QED BY <1>0, <2>1, <3>1 DEF CarryInv
  <2>3. CASE jobs[worker.job].state = "succeeded" /\ Completing("succeeded", jobs[worker.job].intent)
    <3>1. worker'.at = "complete" /\ worker'.intent = worker.intent /\ worker'.object = worker.intent
      BY <2>1, <2>3 DEF Completing
    <3>2. worker.intent \in ever
      BY <2>1, <2>3 DEF Inv, EverInv
    <3>3. QED BY <1>0, <3>1, <3>2 DEF CarryInv
  <2>4. CASE \E state \in {"not_cached", "retryable", "manual_review"} : Completing(state, NoIntent)
    <3>1. worker'.at = "complete" /\ worker'.state # "succeeded"
      BY <2>4 DEF Completing
    <3>2. QED BY <3>1 DEF CarryInv
  <2>5. QED BY <1>5, <2>2, <2>3, <2>4 DEF Get
<1>6. ASSUME NEW e \in Entries, Claim(e)
      PROVE  CarryInv'
  <2>1. /\ worker'.at = IF rows[e].job = 0 THEN "find" ELSE "get"
        /\ worker'.intent = <<e, rows[e].episode>> /\ worker'.job = rows[e].job
    BY <1>6 DEF Claim
  <2>2. rows[e].job # 0 => /\ rows[e].job \in DOMAIN jobs
                           /\ jobs[rows[e].job].intent = <<e, rows[e].episode>>
    BY <1>6 DEF Claim, Inv, RowJobInv
  <2>3. QED BY <1>0, <2>1, <2>2 DEF CarryInv
<1>7. \/ worker' = Idle \/ UNCHANGED worker \/ FindPublished \/ (Submit /\ worker' # Idle) \/ Get
      \/ \E e \in Entries : Claim(e)
  BY DEF Next, Process, vars, ObserverOnly, WorkerOnly, AdvancerOnly,
       Snapshot, Policy, UpsertObservations, SyncFails, LeaseExpires, transitionJob, Complete,
       ProcessFails, TakePlayback, CanAdvanceEpisode, AdvanceEpisode, AdvanceGivesUp, FinishJob,
       Edit, Play, Unpublish, Restart
<1>8. QED BY <1>1, <1>2, <1>3, <1>4, <1>5, <1>6, <1>7

\* SucceededIsPublished is kept.
LEMMA SucceededStep ==
  ASSUME Inv, [Next]_vars
  PROVE  SucceededIsPublished'
<1> SUFFICES ASSUME NEW e \in Entries, (rows[e] # NoRow /\ rows[e].state = "succeeded")'
             PROVE  rows'[e].object = <<e, rows'[e].episode>> /\ rows'[e].object \in ever'
  BY DEF SucceededIsPublished
<1>1. ever \subseteq ever'
  BY HistoryGrows
<1>2. CASE rows'[e] = rows[e] \/ RowLeased(e)
  BY <1>1, <1>2 DEF RowLeased, RowKept, Inv, SucceededIsPublished, NoRow
<1>3. CASE RowMade(e)
  BY <1>3, Busy, ObserverShape, NewRowType DEF RowMade, Inv
<1>4. CASE RowWorked(e)
  BY <1>1, <1>4 DEF RowWorked, RowKept, Inv, ClaimInv, CarryInv
<1>5. CASE RowAdvanced(e)
  BY <1>5 DEF RowAdvanced
<1>6. QED BY <1>2, <1>3, <1>4, <1>5, RowStep

\* ViewedInv is kept.
LEMMA ViewedStep ==
  ASSUME Inv, [Next]_vars
  PROVE  ViewedInv'
<1> TypeOK /\ ViewedInv
  BY DEF Inv
<1>1. viewed \subseteq viewed'
  BY HistoryGrows
<1>2. /\ playing' # Nobody => playing'.what \in Intents /\ playing'.what[1] \in Shows
      /\ playing'.enough => playing'.what \in viewed'
  <2>1. CASE UNCHANGED playing
    BY <1>1, <2>1 DEF ViewedInv
  <2>2. CASE Play
    <3>1. CASE \E i \in published : i[1] \in Shows /\ playing' = [what |-> i, enough |-> FALSE]
      BY <3>1 DEF TypeOK
    <3>2. CASE playing # Nobody /\ playing' = [playing EXCEPT !.enough = TRUE]
      <4>1. playing'.what = playing.what /\ playing'.enough
        BY <3>2 DEF TypeOK
      <4>2. QED BY <2>2, <3>2, <4>1 DEF Play, ViewedInv
    <3>3. QED BY <2>2, <3>1, <3>2 DEF Play
  <2>3. UNCHANGED playing \/ Play
    BY DEF Next, Process, vars, userVars, historyVars, ObserverOnly, WorkerOnly, AdvancerOnly,
       Snapshot, Policy, UpsertObservations, SyncFails, Claim, LeaseExpires, FindPublished, Submit,
       transitionJob, Get, Complete, ProcessFails, TakePlayback, CanAdvanceEpisode, AdvanceEpisode,
       AdvanceGivesUp, FinishJob, Edit, Unpublish, Restart
  <2>4. QED BY <2>1, <2>2, <2>3
<1>3. /\ advancer' # Idle => <<advancer'.show, advancer'.episode>> \in viewed'
      /\ advancer'.at = "advance" => advancer'.episode < MaxEpisode
  <2>1. CASE UNCHANGED advancer
    BY <1>1, <2>1 DEF ViewedInv
  <2>2. CASE advancer' = Idle
    BY <2>2 DEF Idle
  <2>3. CASE TakePlayback
    <3>1. playing.what \in Intents /\ playing.what \in viewed
      BY <2>3 DEF TakePlayback, Qualifies, ViewedInv, TypeOK
    <3>2. playing.what = <<playing.what[1], playing.what[2]>>
      BY <3>1 DEF Intents
    <3>3. advancer' = [at |-> "check", show |-> playing.what[1], episode |-> playing.what[2]]
      BY <2>3 DEF TakePlayback
    <3>4. QED BY <1>1, <3>1, <3>2, <3>3
  <2>4. CASE CanAdvanceEpisode
    <3>1. advancer \in Advancing /\ <<advancer.show, advancer.episode>> \in viewed
      BY <2>4, Busy, AdvancerShape DEF CanAdvanceEpisode, ViewedInv
    <3>2. CASE advancer' = [advancer EXCEPT !.at = "advance"] /\ advancer.episode < MaxEpisode
      <4>1. advancer'.show = advancer.show /\ advancer'.episode = advancer.episode
        BY <3>1, <3>2 DEF Advancing
      <4>2. QED BY <1>1, <3>1, <3>2, <4>1
    <3>3. QED BY <2>2, <2>4, <3>2 DEF CanAdvanceEpisode
  <2>5. UNCHANGED advancer \/ advancer' = Idle \/ TakePlayback \/ CanAdvanceEpisode
    BY DEF Next, Process, vars, userVars, historyVars, ObserverOnly, WorkerOnly, AdvancerOnly,
       Snapshot, Policy, UpsertObservations, SyncFails, Claim, LeaseExpires, FindPublished, Submit,
       transitionJob, Get, Complete, ProcessFails, AdvanceEpisode, AdvanceGivesUp, FinishJob,
       Edit, Play, Unpublish, Restart
  <2>6. QED BY <2>1, <2>2, <2>3, <2>4, <2>5
<1>4. ASSUME NEW m \in Entries \ Shows, rows'[m] # NoRow PROVE rows'[m].episode = 0
  <2>1. CASE rows'[m] = rows[m]
    BY <1>4, <2>1 DEF ViewedInv
  <2>2. CASE RowMade(m)
    BY <2>2, Busy, ObserverShape, NewRowType DEF RowMade
  <2>3. CASE RowLeased(m) \/ RowWorked(m)
    BY <2>3 DEF RowLeased, RowWorked, RowKept, ViewedInv
  <2>4. CASE RowAdvanced(m)
    BY <2>4, Busy, AdvancerShape DEF RowAdvanced
  <2>5. QED BY <2>1, <2>2, <2>3, <2>4, RowStep
<1>5. QED BY <1>2, <1>3, <1>4 DEF ViewedInv, NoRow, Nobody, Idle

\* OneEpisodeAhead is kept.
LEMMA OneEpisodeStep ==
  ASSUME Inv, [Next]_vars
  PROVE  OneEpisodeAhead'
<1> TypeOK /\ OneEpisodeAhead /\ ViewedInv
  BY DEF Inv
<1>1. viewed \subseteq viewed'
  BY HistoryGrows
<1>2. ASSUME NEW s \in Shows, rows'[s] # NoRow, NEW n \in 1..(rows'[s].episode - 1)
      PROVE  <<s, n>> \in viewed'
  <2>0. s \in Entries
    BY DEF Entries
  <2>1. CASE rows'[s] = rows[s] \/ RowLeased(s) \/ RowWorked(s)
    BY <1>1, <1>2, <2>1 DEF RowLeased, RowWorked, RowKept, OneEpisodeAhead
  <2>2. CASE RowMade(s)
    BY <1>2, <2>0, <2>2, Busy, ObserverShape, NewRowType DEF RowMade
  <2>3. CASE RowAdvanced(s)
    <3>1. /\ rows[s] # NoRow /\ rows[s].episode = advancer.episode /\ advancer.episode \in Nat
          /\ rows'[s].episode = advancer.episode + 1
          /\ <<s, advancer.episode>> \in viewed
      BY <2>3, Busy, AdvancerShape, WatchlistAssumption DEF RowAdvanced, RowKept, ViewedInv
    <3>2. n = advancer.episode \/ n \in 1..(rows[s].episode - 1)
      BY <3>1
    <3>3. QED BY <1>1, <3>1, <3>2 DEF OneEpisodeAhead
  <2>4. QED BY <2>0, <2>1, <2>2, <2>3, RowStep
<1>3. ASSUME NEW id \in DOMAIN jobs', jobs'[id].intent[2] > 1
      PROVE  <<jobs'[id].intent[1], jobs'[id].intent[2] - 1>> \in viewed'
  <2>1. CASE id \in DOMAIN jobs
    BY <1>1, <1>3, <2>1, JobsStep DEF OneEpisodeAhead
  <2>2. CASE id \notin DOMAIN jobs
    <3>1. worker.at = "submit" /\ jobs'[id].intent = worker.intent
      BY <2>2, JobsStep
    <3>2. /\ worker.entry \in Entries /\ rows[worker.entry] # NoRow
          /\ worker.intent = <<worker.entry, rows[worker.entry].episode>>
      BY <3>1, Busy, WorkerShape DEF Inv, ClaimInv
    <3>3. rows[worker.entry].episode \in Nat
      BY <3>2, RowShape, WatchlistAssumption DEF Row
    <3>4. worker.entry \in Shows
      BY <1>3, <3>1, <3>2 DEF ViewedInv
    <3>5. rows[worker.entry].episode - 1 \in 1..(rows[worker.entry].episode - 1)
      BY <1>3, <3>1, <3>2, <3>3
    <3>6. QED BY <1>1, <3>1, <3>2, <3>4, <3>5 DEF OneEpisodeAhead
  <2>3. QED BY <2>1, <2>2
<1>4. QED BY <1>2, <1>3 DEF OneEpisodeAhead, NoRow

-----------------------------------------------------------------------------
(* The theorems.                                                           *)

\* The invariant holds at the start.
LEMMA InvInit == Init => Inv
<1> SUFFICES ASSUME Init PROVE Inv
  OBVIOUS
<1>1. TypeOK
  <2>1. policy \in Policies
    <3>1. \A b \in BOOLEAN : [auto |-> b, show |-> "pilot"] \in Policies
      BY DEF Policies
    <3>2. QED BY <3>1 DEF Init
  <2>2. playing \in [what : Objects, enough : BOOLEAN]
    BY DEF Init, Objects, Nobody
  <2>3. jobs \in Seq(Job) /\ used \in [edits : Nat, faults : Nat]
    BY DEF Init
  <2>4. rows \in [Entries -> Row \cup {NoRow}]
    BY DEF Init
  <2>5. QED BY <2>1, <2>2, <2>3, <2>4 DEF Init, TypeOK
<1>2. PolicyInv /\ NonRetroactive /\ EverInv /\ RowJobInv /\ ClaimInv /\ CarryInv /\ SucceededIsPublished
  BY DEF Init, PolicyInv, Admissible, NonRetroactive, EverInv, RowJobInv, ClaimInv, CarryInv,
         SucceededIsPublished, Idle
<1>3. ViewedInv
  BY DEF Init, ViewedInv, Idle, Nobody
<1>4. OneEpisodeAhead
  <2>1. DOMAIN jobs = {}
    BY DEF Init
  <2>2. \A s \in Shows : rows[s] = NoRow
    BY DEF Init, Entries
  <2>3. QED BY <2>1, <2>2 DEF OneEpisodeAhead
<1>5. QED BY <1>1, <1>2, <1>3, <1>4 DEF Inv

\* Every step keeps the invariant.
LEMMA InvStep == Inv /\ [Next]_vars => Inv'
BY TypeStep, PolicyStep, NonRetroactiveStep, EverStep, RowJobStep, ClaimStep, CarryStep,
   SucceededStep, ViewedStep, OneEpisodeStep DEF Inv

\* The variables keep their types, whatever the observer, the worker, the advancer and the
\* user do.
THEOREM WatchlistTypes == Spec => []TypeOK
<1>1. Inv => TypeOK
  BY DEF Inv
<1>2. QED BY <1>1, InvInit, InvStep, PTL DEF Spec

\* The worker always holds the row that it works on, for the media that the row asks for
\* (Claim, transitionJob, Complete, AdvanceEpisode).
THEOREM ClaimHeld == Spec => []ClaimInv
<1>1. Inv => ClaimInv
  BY DEF Inv
<1>2. QED BY <1>1, InvInit, InvStep, PTL DEF Spec

\* Switching the policy on does not drain the backlog: nothing is acquired but what was first
\* recorded by a sync after the baseline of its process, during which the policy permitted it
\* (Observer.Sync, UpsertObservations).
THEOREM NeverRetroactive == Spec => []NonRetroactive
<1>1. Inv => NonRetroactive
  BY DEF Inv
<1>2. QED BY <1>1, InvInit, InvStep, PTL DEF Spec

\* A show goes on by one episode at a time, past episodes that somebody watched
\* (playbackadvance.Process, AdvanceEpisode).
THEOREM OneAhead == Spec => []OneEpisodeAhead
<1>1. Inv => OneEpisodeAhead
  BY DEF Inv
<1>2. QED BY <1>1, InvInit, InvStep, PTL DEF Spec

\* A row that says "succeeded" names an object of its media, which was published (submit,
\* reconcile, Complete).
THEOREM SucceededPublished == Spec => []SucceededIsPublished
<1>1. Inv => SucceededIsPublished
  BY DEF Inv
<1>2. QED BY <1>1, InvInit, InvStep, PTL DEF Spec

\* The episode that an entry has come to is never taken back (UpsertObservations,
\* AdvanceEpisode).
THEOREM NeverBack == Spec => FrontierNeverBack
<1>1. ASSUME Inv, [Next]_vars
      PROVE  [\A e \in Entries : rows[e] # NoRow => rows'[e].episode >= rows[e].episode]_vars
  <2> SUFFICES ASSUME NEW e \in Entries, rows[e] # NoRow
               PROVE  rows'[e].episode >= rows[e].episode
    OBVIOUS
  <2>1. rows[e].episode \in Int
    BY <1>1, RowShape, WatchlistAssumption DEF Row, Inv
  <2>2. CASE rows'[e] = rows[e] \/ RowLeased(e) \/ RowWorked(e)
    BY <2>1, <2>2 DEF RowLeased, RowWorked
  <2>3. CASE RowAdvanced(e)
    BY <2>1, <2>3 DEF RowAdvanced
  <2>4. QED BY <1>1, <2>2, <2>3, RowStep DEF RowMade
<1>2. QED BY <1>1, InvInit, InvStep, PTL DEF Spec, FrontierNeverBack
=============================================================================
