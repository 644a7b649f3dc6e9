----------------------------- MODULE Watchlist -----------------------------
(***************************************************************************)
(* The Plex watchlist: the observer and the worker of service/watchlist    *)
(* and the worker of service/playbackadvance over the queue of             *)
(* repository/watchlist, beside background jobs, a user and Plex.          *)
(*                                                                         *)
(* Each of the three runs in a goroutine of its own and makes its calls    *)
(* one after the other; any call may fail and the process may stop between *)
(* two.  A statement on the queue is one step.  Times are left out: a next *)
(* attempt is always due, a lease runs out when its owner is gone (it is   *)
(* longer than an operation of the worker may take).                       *)
(***************************************************************************)
EXTENDS Integers, Sequences

CONSTANTS
  Movies, Shows,
  MaxEpisode,  \* episodes that a show has
  MaxJobs,     \* bound: background jobs ever made
  MaxEdits,    \* bound: changes of the list or the policy by the user
  MaxFaults    \* bound: calls that fail and restarts of the process

ASSUME WatchlistAssumption ==
  /\ Movies \cap Shows = {}
  /\ MaxEpisode \in Nat \ {0}
  /\ {MaxJobs, MaxEdits, MaxFaults} \subseteq Nat

VARIABLES
  list,      \* the user's watchlist in Plex
  policy,    \* watchlist_settings
  rows,      \* watchlist_queue
  jobs,      \* background acquisition jobs, by id
  published, \* media of the manifest
  playing,   \* what is played in Plex, and whether enough of it
  baseline,  \* Observer.baselineComplete
  observer, worker, advancer,  \* the goroutines
  open, admitted, viewed, ever, \* history: see the properties
  used       \* bounds used up

userVars == <<list, policy, playing>>
historyVars == <<open, admitted, viewed, ever>>
vars == <<userVars, rows, jobs, published, baseline, observer, worker, advancer, historyVars, used>>

Entries == Movies \cup Shows

\* What is acquired for an entry: the movie (0) or an episode.
Intents == Entries \X (0..MaxEpisode)
NoIntent == <<"none", 0>>

Idle == [at |-> "idle"]
NoRow == [state |-> "absent"]
Claimable == {"pending", "not_cached", "retryable"}
Nobody == [what |-> NoIntent, enough |-> FALSE]

Permits(p, e) == p.auto /\ (e \in Shows => p.show = "pilot")

\* What the sync that is under way may record as eligible, as things are: entries that no
\* sync has recorded, in a process that has its baseline, when the policy permits them.
Admissible ==
  IF observer = Idle THEN {}
  ELSE {e \in observer.items : baseline /\ rows[e] = NoRow /\ Permits(policy, e)}

\* A call fails.
Fault == used.faults < MaxFaults /\ used' = [used EXCEPT !.faults = @ + 1]

-----------------------------------------------------------------------------
(* The observer.                                                           *)

ObserverOnly == UNCHANGED <<userVars, jobs, published, worker, advancer, viewed, ever>>

\* A sync begins, with history of what it has been able to record as eligible; or it ends.
Opens == open' = Admissible' /\ UNCHANGED admitted
Closes == open' = {} /\ UNCHANGED admitted

Snapshot ==
  /\ observer.at = "idle"
  /\ observer' = [at |-> "policy", items |-> list]
  /\ ObserverOnly /\ UNCHANGED <<rows, baseline, used>> /\ Opens

Policy ==
  /\ observer.at = "policy"
  /\ observer' = [at |-> "upsert", items |-> observer.items, policy |-> policy]
  /\ ObserverOnly /\ UNCHANGED <<rows, baseline, open, admitted, used>>

\* Only entries that are new are eligible, and none of the first snapshot of a process.
NewRow(e, p) ==
  LET eligible == baseline /\ Permits(p, e)
  IN [state |-> "pending", eligible |-> eligible,
      episode |-> IF e \in Shows /\ eligible THEN 1 ELSE 0,
      leased |-> FALSE, job |-> 0, object |-> NoIntent]

\* Mutants: a row that exists is written again with the intent, or with the eligibility, of
\* the observation.
IntentOverwritten(row, new) == IF row = NoRow THEN new ELSE [row EXCEPT !.episode = new.episode]
EligibleOverwritten(row, new) == IF row = NoRow THEN new ELSE [row EXCEPT !.eligible = new.eligible]

\* ON CONFLICT: a row that exists keeps everything but what describes its media.
Upserted(row, new) == IF row = NoRow THEN new ELSE row

\* UpsertObservations, and the end of the sync: this process has its baseline.  History is
\* kept of what was recorded for the first time while it was admissible.
UpsertObservations ==
  /\ observer.at = "upsert"
  /\ rows' = [e \in Entries |->
                IF e \in observer.items THEN Upserted(rows[e], NewRow(e, observer.policy))
                ELSE rows[e]]
  /\ baseline' = TRUE
  /\ observer' = Idle
  /\ admitted' = admitted \cup {e \in open : rows[e] = NoRow}
  /\ open' = {}
  /\ ObserverOnly /\ UNCHANGED used

\* The sync is given up until the next one.
SyncFails ==
  /\ observer # Idle
  /\ Fault
  /\ observer' = Idle
  /\ ObserverOnly /\ UNCHANGED <<rows, baseline>> /\ Closes

-----------------------------------------------------------------------------
(* The worker.                                                             *)

WorkerOnly == UNCHANGED <<userVars, published, baseline, observer, advancer, historyVars>>

\* Claim: one row that may be worked on is leased; its job, if it has one, is looked at.
Claim(e) ==
  /\ worker = Idle
  /\ rows[e] # NoRow
  /\ rows[e].eligible /\ Permits(policy, e)
  /\ rows[e].state \in Claimable \/ (rows[e].state = "acquiring" /\ ~rows[e].leased)
  /\ rows' = [rows EXCEPT ![e].state = "acquiring", ![e].leased = TRUE]
  /\ worker' = [at |-> IF rows[e].job = 0 THEN "find" ELSE "get",
                entry |-> e, intent |-> <<e, rows[e].episode>>, job |-> rows[e].job]
  /\ WorkerOnly /\ UNCHANGED <<jobs, used>>

\* The worker is about to complete its row.
Completing(state, object) ==
  worker' = [at |-> "complete", entry |-> worker.entry, intent |-> worker.intent,
             job |-> worker.job, state |-> state, object |-> object]

\* Mutant: any media of the entry that is published will do.
FindPublishedOfEntry ==
  /\ worker.at = "find"
  /\ \/ \E i \in published : i[1] = worker.entry /\ Completing("succeeded", i)
     \/ /\ \A i \in published : i[1] # worker.entry
        /\ worker' = [worker EXCEPT !.at = "submit"]
  /\ WorkerOnly /\ UNCHANGED <<rows, jobs, used>>

\* submit: media that is published already needs no job.
FindPublished ==
  /\ worker.at = "find"
  /\ IF worker.intent \in published THEN Completing("succeeded", worker.intent)
     ELSE worker' = [worker EXCEPT !.at = "submit"]
  /\ WorkerOnly /\ UNCHANGED <<rows, jobs, used>>

\* JobManager.Submit: the active job of the intent, or a new one; beyond the bound it fails.
Submit ==
  /\ worker.at = "submit"
  /\ LET same == {id \in DOMAIN jobs : jobs[id] = [intent |-> worker.intent, state |-> "active"]}
     IN \/ /\ same # {}
           /\ \E id \in same : worker' = [worker EXCEPT !.at = "attach", !.job = id]
           /\ UNCHANGED jobs
        \/ /\ same = {} /\ Len(jobs) < MaxJobs
           /\ jobs' = Append(jobs, [intent |-> worker.intent, state |-> "active"])
           /\ worker' = [worker EXCEPT !.at = "attach", !.job = Len(jobs) + 1]
        \/ /\ same = {} /\ Len(jobs) = MaxJobs
           /\ worker' = Idle
           /\ UNCHANGED jobs
  /\ WorkerOnly /\ UNCHANGED <<rows, used>>

\* The claim still holds its row.
Owns == rows[worker.entry].state = "acquiring" /\ rows[worker.entry].leased

\* AttachJob, and DeferJob with the job that the row has.
transitionJob ==
  /\ worker.at \in {"attach", "defer"}
  /\ rows' = IF Owns THEN [rows EXCEPT ![worker.entry].job = worker.job, ![worker.entry].leased = FALSE]
             ELSE rows
  /\ worker' = Idle
  /\ WorkerOnly /\ UNCHANGED <<jobs, used>>

\* reconcile: the row follows its job.  Nothing removes jobs, so that it is always found.
Get ==
  /\ worker.at = "get"
  /\ LET job == jobs[worker.job] IN
     \/ job.state = "active" /\ worker' = [worker EXCEPT !.at = "defer"]
     \/ job.state = "succeeded" /\ Completing("succeeded", job.intent)
     \/ /\ job.state = "failed"
        /\ \E state \in {"not_cached", "retryable", "manual_review"} : Completing(state, NoIntent)
  /\ WorkerOnly /\ UNCHANGED <<rows, jobs, used>>

Complete ==
  /\ worker.at = "complete"
  /\ rows' = IF Owns THEN [rows EXCEPT ![worker.entry].state = worker.state,
                             ![worker.entry].object = worker.object,
                             ![worker.entry].job = 0, ![worker.entry].leased = FALSE]
             ELSE rows
  /\ worker' = Idle
  /\ WorkerOnly /\ UNCHANGED <<jobs, used>>

\* A call fails: the row stays as it is until its lease runs out.
ProcessFails ==
  /\ worker # Idle
  /\ Fault
  /\ worker' = Idle
  /\ WorkerOnly /\ UNCHANGED <<rows, jobs>>

\* Mutant: a lease ends only with the transition of its owner.
LeaseNeverExpires(e) == FALSE /\ UNCHANGED vars

LeaseExpires(e) ==
  /\ rows[e] # NoRow /\ rows[e].leased
  /\ ~(worker # Idle /\ worker.entry = e)
  /\ rows' = [rows EXCEPT ![e].leased = FALSE]
  /\ WorkerOnly /\ UNCHANGED <<worker, jobs, used>>

-----------------------------------------------------------------------------
(* Playback.                                                               *)

AdvancerOnly == UNCHANGED <<userVars, jobs, published, baseline, observer, worker, historyVars, used>>

\* Mutant: any playback counts.
QualifiesAlways(playback) == playback # Nobody

\* Playback.Qualifies: long enough, and far enough.
Qualifies(playback) == playback.enough

\* The playback of a published episode is taken from the snapshot.
TakePlayback ==
  /\ advancer = Idle
  /\ Qualifies(playing) /\ playing.what \in published
  /\ advancer' = [at |-> "check", show |-> playing.what[1], episode |-> playing.what[2]]
  /\ AdvancerOnly /\ UNCHANGED rows

\* The row of a show is at an episode that was acquired, and may go on from it.  It must
\* also have been observed of late, which may fail at any time (AdvanceGivesUp).
Frontier(show, episode) ==
  /\ rows[show] # NoRow
  /\ rows[show].eligible /\ Permits(policy, show)
  /\ rows[show].state = "succeeded"
  /\ rows[show].object = <<show, episode>>
  /\ rows[show].episode = episode

CanAdvanceEpisode ==
  /\ advancer.at = "check"
  /\ advancer' = IF Frontier(advancer.show, advancer.episode) /\ advancer.episode < MaxEpisode
                   THEN [advancer EXCEPT !.at = "advance"] ELSE Idle
  /\ AdvancerOnly /\ UNCHANGED rows

\* The row is looked at again in the statement that moves it on.
AdvanceEpisode ==
  /\ advancer.at = "advance"
  /\ rows' = IF Frontier(advancer.show, advancer.episode)
               THEN [rows EXCEPT ![advancer.show] =
                       [@ EXCEPT !.state = "pending", !.leased = FALSE, !.job = 0,
                                 !.object = NoIntent, !.episode = advancer.episode + 1]]
               ELSE rows
  /\ advancer' = Idle
  /\ AdvancerOnly

AdvanceGivesUp ==
  /\ advancer # Idle
  /\ advancer' = Idle
  /\ AdvancerOnly /\ UNCHANGED rows

-----------------------------------------------------------------------------
(* Jobs, the user and the process.                                         *)

FinishJob ==
  /\ \E id \in DOMAIN jobs, state \in {"succeeded", "failed"} :
       /\ jobs[id].state = "active"
       /\ jobs' = [jobs EXCEPT ![id].state = state]
       /\ published' = IF state = "succeeded" THEN published \cup {jobs[id].intent} ELSE published
  /\ ever' = ever \cup published'
  /\ UNCHANGED <<userVars, rows, baseline, observer, worker, advancer, open, admitted, viewed,
                 used>>

\* The user changes the list or the policy, perhaps while a sync is under way.
Edit ==
  /\ used.edits < MaxEdits
  /\ used' = [used EXCEPT !.edits = @ + 1]
  /\ \/ \E e \in Entries : list' \in {list \cup {e}, list \ {e}} \ {list} /\ UNCHANGED policy
     \/ policy' \in [auto : BOOLEAN, show : {"off", "pilot"}] \ {policy} /\ UNCHANGED list
  /\ UNCHANGED <<playing, rows, jobs, published, baseline, observer, worker, advancer, admitted, viewed,
                 ever>>
  /\ open' = open \cup Admissible'

\* Somebody starts to watch an episode, and goes on for long enough.
Play ==
  /\ \/ \E i \in published :
          /\ i[1] \in Shows
          /\ playing' = [what |-> i, enough |-> FALSE]
     \/ playing # Nobody /\ playing' = [playing EXCEPT !.enough = TRUE]
  /\ playing' # playing
  /\ viewed' = IF playing'.enough THEN viewed \cup {playing'.what} ELSE viewed
  /\ UNCHANGED <<list, policy, rows, jobs, published, baseline, observer, worker, advancer,
                 open, admitted, ever, used>>

\* The user applies a manifest without one of its items.
Unpublish ==
  /\ used.edits < MaxEdits
  /\ used' = [used EXCEPT !.edits = @ + 1]
  /\ \E i \in published : published' = published \ {i}
  /\ UNCHANGED <<userVars, rows, jobs, baseline, observer, worker, advancer, historyVars>>

Restart ==
  /\ Fault
  /\ baseline' = FALSE
  /\ observer' = Idle /\ worker' = Idle /\ advancer' = Idle
  /\ UNCHANGED <<userVars, rows, jobs, published, viewed, ever>> /\ Closes

Init ==
  /\ list \in SUBSET Entries
  /\ policy \in {[auto |-> TRUE, show |-> "pilot"], [auto |-> FALSE, show |-> "pilot"]}
  /\ playing = Nobody
  /\ rows = [e \in Entries |-> NoRow]
  /\ jobs = <<>> /\ published = {}
  /\ baseline = FALSE
  /\ observer = Idle /\ worker = Idle /\ advancer = Idle
  /\ open = {} /\ admitted = {} /\ viewed = {} /\ ever = {}
  /\ used = [edits |-> 0, faults |-> 0]

\* The worker goes on with the row that it has claimed.
Process == FindPublished \/ Submit \/ transitionJob \/ Get \/ Complete

Next ==
  \/ Snapshot \/ Policy \/ UpsertObservations \/ SyncFails
  \/ \E e \in Entries : Claim(e) \/ LeaseExpires(e)
  \/ Process \/ ProcessFails
  \/ TakePlayback \/ CanAdvanceEpisode \/ AdvanceEpisode \/ AdvanceGivesUp
  \/ FinishJob \/ Edit \/ Play \/ Unpublish \/ Restart

\* The worker runs and leases run out.  A row that is ready again and again is claimed in the
\* end: Run claims row after row until none is due, and every row that it has left, with a job
\* (ReconcileInterval) or a cooldown, is due again only some seconds later.  Going through the
\* rows that are due is assumed to take less time than that, so that it comes to all of them,
\* whatever their order in Claim.
Fairness ==
  /\ WF_vars(Process)
  /\ \A e \in Entries : SF_vars(Claim(e)) /\ WF_vars(LeaseExpires(e))

Spec == Init /\ [][Next]_vars /\ Fairness

-----------------------------------------------------------------------------
(* Properties.                                                             *)

\* Switching the policy on does not drain the backlog: an entry is acquired only if the sync
\* that recorded it first was not the first sync of its process, and the policy permitted the
\* entry at some moment of that very sync.  Whatever was recorded otherwise is never eligible
\* and never gets a job, however often it is observed again and whatever the policy becomes
\* (Observer.Sync, UpsertObservations: "non-retroactive").
NonRetroactive ==
  /\ \A e \in Entries : rows[e] # NoRow /\ rows[e].eligible => e \in admitted
  /\ \A id \in DOMAIN jobs : jobs[id].intent[1] \in admitted

\* A show goes on by one episode at a time, and only past episodes that somebody watched: no
\* job is made for any other (playbackadvance.Process, CanAdvanceEpisode, AdvanceEpisode).
OneEpisodeAhead ==
  /\ \A s \in Shows :
       rows[s] # NoRow => \A n \in 1..(rows[s].episode - 1) : <<s, n>> \in viewed
  /\ \A id \in DOMAIN jobs :
       jobs[id].intent[2] > 1 => <<jobs[id].intent[1], jobs[id].intent[2] - 1>> \in viewed

\* A row that says "succeeded" names an object of the media that it asks for, which was
\* published: the result of a job of an earlier episode is never taken for a later one, also
\* when the process stops between two of the worker's calls (submit, reconcile, Complete).
SucceededIsPublished ==
  \A e \in Entries :
    rows[e] # NoRow /\ rows[e].state = "succeeded"
      => rows[e].object = <<e, rows[e].episode>> /\ rows[e].object \in ever

\* The episode that a show has come to is never forgotten: neither a sync, nor a restart, nor
\* an earlier episode watched again takes it back (UpsertObservations, AdvanceEpisode).
FrontierNeverBack ==
  [][\A e \in Entries : rows[e] # NoRow => rows'[e].episode >= rows[e].episode]_vars

\* An entry whose job is over learns of it in the end, unless the policy stops the worker:
\* also when a call failed, or the process stopped, while it held the row (LeaseExpires).
JobReconciled ==
  \A e \in Entries :
    /\ rows[e] # NoRow /\ rows[e].state = "acquiring"
    /\ rows[e].job # 0 /\ jobs[rows[e].job].state # "active"
    ~> \/ rows[e].state # "acquiring"
       \/ ~Permits(policy, e)
=============================================================================
