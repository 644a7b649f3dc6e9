---------------------------- MODULE SetupServer ----------------------------
(***************************************************************************)
(* The control plane as a browser sees it: the handlers of internal/       *)
(* handler/setup over the setup service, the acquisition services and the  *)
(* watchlist.  What the process keeps on disk outlives it; the runtime     *)
(* state and the CSRF token do not.                                        *)
(*                                                                         *)
(* A handler is the set of its outcomes, [disk, srv, ans]: the state that  *)
(* it leaves and the answer that it writes.  A provider, a database or the *)
(* client's connection may fail in any of them.                            *)
(***************************************************************************)
EXTENDS Integers, Sequences, FiniteSets

CONSTANTS
  Objects,      \* provider objects
  Tokens,       \* provider tokens
  Account,      \* [Tokens -> SUBSET Objects]: the files of each account
  Intents,      \* media that can be asked for
  ObjectOf,     \* [Intents -> Objects]: what an acquisition of the intent publishes
  MediaOf,      \* [Intents -> Media]
  MaxItems,     \* MaximumSetupManifestItems, maximumManifestItems
  MaxJobs       \* bound: background jobs ever made

VARIABLES
  disk,   \* token, manifest, watchlist policy, Prowlarr settings, background jobs
  srv     \* the process: its CSRF token and the runtime state of the setup service

serverVars == <<disk, srv>>

None == "none"

\* Metadata of a manifest item: a movie, an episode of a season from 1 on, an episode of
\* season 0 (a special).
Media == {"movie", "episode", "special"}

Manifests == [Objects -> Media \cup {None}]
Empty == [o \in Objects |-> None]
Chosen(items) == {o \in Objects : items[o] # None}

ShowPolicies == {"off", "pilot"}
Policies == [auto : BOOLEAN, show : ShowPolicies]

\* The states of a job, as far as the browser tells them apart: queued, selected and
\* preparing are active, failed and manual_review are failed.
JobStates == {"active", "succeeded", "failed"}
Job == [intent : Intents, state : JobStates]

Disks == [token : Tokens \cup {None}, items : Manifests, policy : Policies,
          search : BOOLEAN, jobs : UNION {[1..n -> Job] : n \in 0..MaxJobs}]

\* manifest: the active manifest, Empty before one is published; saved: savedItemCount.
Servers == [csrf : Nat, tokenConfigured : BOOLEAN, manifest : Manifests,
            saved : 0..MaxItems, restoring : BOOLEAN]

ASSUME ServerAssumption ==
  /\ IsFiniteSet(Objects)
  /\ Account \in [Tokens -> SUBSET Objects]
  /\ ObjectOf \in [Intents -> Objects]
  /\ MediaOf \in [Intents -> Media]
  /\ MaxItems \in Nat \ {0}
  /\ MaxJobs \in Nat

-----------------------------------------------------------------------------
(* Answers.                                                                *)

Error(code) == [ok |-> FALSE, code |-> code]
Outcome(d, s, ans) == [disk |-> d, srv |-> s, ans |-> ans]

\* A season of 0 is left out of the JSON of an item and of a job (season,omitempty).
Wire(media) == IF media = "special" THEN "seasonless" ELSE media
WireItems(items) == [o \in Objects |-> Wire(items[o])]
WireJob(id, jobs) ==
  [id |-> id, media |-> Wire(MediaOf[jobs[id].intent]), state |-> jobs[id].state]

-----------------------------------------------------------------------------
(* The setup service.                                                      *)

\* AuthorizeSetup: the launcher's bootstrap secret with a token before anything is saved;
\* afterwards the bootstrap secret, the session of the saved token, or that token itself.
\* A session stands for the token that it is derived from.
AuthorizeSetup(token, auth) ==
  IF disk.token = None
    THEN token # None /\ auth.bootstrap
    ELSE auth.bootstrap \/ auth.session = disk.token \/ token = disk.token

\* AuthorizeSetup and resolveToken note that a token is saved.
Marked == [srv EXCEPT !.tokenConfigured = @ \/ disk.token # None]

resolveToken(token) == IF token # None THEN token ELSE disk.token

\* IssueSession for the saved token, or for the supplied one while none is saved.
IssuedSession(token) == IF disk.token # None THEN disk.token ELSE token

\* The runtime state after a commit of the whole manifest.
Published(items) ==
  [srv EXCEPT !.tokenConfigured = TRUE, !.manifest = items, !.saved = Cardinality(Chosen(items))]

\* Apply: every item must be in the account of the resolved token; the manifest and the
\* token are replaced as one transaction.
CanApply(token, items) ==
  /\ Chosen(items) # {}
  /\ Chosen(items) \subseteq Account[token]
  /\ Cardinality(Chosen(items)) <= MaxItems

\* PublishAcquired: one item is added to the saved manifest, or replaced in it.
CanPublish(i) ==
  /\ disk.token # None
  /\ Cardinality(Chosen(disk.items) \cup {ObjectOf[i]}) <= MaxItems
WithAcquired(i) == [disk.items EXCEPT ![ObjectOf[i]] = MediaOf[i]]

-----------------------------------------------------------------------------
(* The handlers.                                                           *)

\* A handler behind the CSRF check and AuthorizeSetup, with what it may do once it is let
\* in; any of its calls may fail before it changes anything, and a failure after that is
\* an answer that does not arrive (Results).
Paired(c, token, outcomes) ==
  IF c.csrf # srv.csrf THEN {Outcome(disk, srv, Error("forbidden"))}
  ELSE IF ~AuthorizeSetup(token, c.auth)
    THEN {Outcome(disk, Marked, Error("setup_not_paired"))}
    ELSE outcomes \cup {Outcome(disk, Marked, Error("unavailable"))}

serveStatus ==
  {Outcome(disk, srv,
     [ok |-> TRUE, csrf |-> srv.csrf, tokenConfigured |-> srv.tokenConfigured,
      setupRequired |-> Chosen(srv.manifest) = {}, items |-> WireItems(srv.manifest),
      saved |-> srv.saved, active |-> Cardinality(Chosen(srv.manifest))]),
   Outcome(disk, srv, Error("unavailable"))}

\* Which files of the account are ready and eligible changes all the time.
serveDiscover(c) ==
  Paired(c, c.token,
    {Outcome(disk, Marked,
       [ok |-> TRUE, candidates |-> files, session |-> IssuedSession(c.token)]) :
       files \in SUBSET Account[resolveToken(c.token)]})

\* Mutant: the session is issued before the new token is saved.
serveConfigurationEarly(c) ==
  Paired(c, c.token,
    LET token == resolveToken(c.token)
        applied == Outcome([disk EXCEPT !.token = token, !.items = c.items], Published(c.items),
                     [ok |-> TRUE, items |-> WireItems(c.items), session |-> IssuedSession(token)])
    IN IF CanApply(token, c.items) THEN {applied} ELSE {})

serveConfiguration(c) ==
  Paired(c, c.token,
    LET token == resolveToken(c.token)
        applied == Outcome([disk EXCEPT !.token = token, !.items = c.items], Published(c.items),
                     [ok |-> TRUE, items |-> WireItems(c.items), session |-> token])
    IN IF CanApply(token, c.items) THEN {applied} ELSE {})

serveAcquisitionStatus ==
  {Outcome(disk, srv, [ok |-> TRUE, configured |-> disk.search]),
   Outcome(disk, srv, Error("unavailable"))}

serveAcquisitionSettings(c) ==
  Paired(c, None,
    {Outcome([disk EXCEPT !.search = TRUE], Marked,
       [ok |-> TRUE, configured |-> TRUE, session |-> IssuedSession(None)])})

\* Acquire publishes a cached copy at once, or finds that there is none.
serveAcquisition(c) ==
  Paired(c, None,
    LET items == WithAcquired(c.intent)
        added == Outcome([disk EXCEPT !.items = items], Published(items),
                   [ok |-> TRUE, items |-> WireItems(items), session |-> IssuedSession(None)])
    IN IF ~disk.search THEN {}
       ELSE {Outcome(disk, Marked, Error("not_cached"))}
              \cup IF CanPublish(c.intent) THEN {added} ELSE {})

\* Submit returns the active job of the same intent, or makes one.
submitAcquisitionJob(c) ==
  Paired(c, None,
    LET same == {id \in DOMAIN disk.jobs :
                   disk.jobs[id] = [intent |-> c.intent, state |-> "active"]}
        jobs == IF same # {} THEN disk.jobs
                ELSE Append(disk.jobs, [intent |-> c.intent, state |-> "active"])
    IN {Outcome([disk EXCEPT !.jobs = jobs], Marked,
          [ok |-> TRUE, job |-> WireJob(id, jobs), session |-> IssuedSession(None)]) :
          id \in IF same # {} THEN same ELSE {Len(jobs)} \cap (1..MaxJobs)})

listAcquisitionJobs(c) ==
  Paired(c, None,
    {Outcome(disk, Marked,
       [ok |-> TRUE, jobs |-> {WireJob(id, disk.jobs) : id \in DOMAIN disk.jobs}])})

serveAcquisitionJob(c) ==
  Paired(c, None,
    {Outcome(disk, Marked, [ok |-> TRUE, job |-> WireJob(c.id, disk.jobs)])})

serveWatchlistStatus(c) ==
  Paired(c, None, {Outcome(disk, Marked, [ok |-> TRUE, policy |-> disk.policy])})

\* The policy is saved first; reading the status back may still fail.
serveWatchlistSettings(c) ==
  Paired(c, None,
    LET saved == [disk EXCEPT !.policy = c.policy] IN
    {Outcome(saved, Marked, [ok |-> TRUE, policy |-> c.policy, session |-> IssuedSession(None)]),
     Outcome(saved, Marked, Error("unavailable"))})

ServeHTTP(c) ==
  CASE c.path = "setup/status"        -> serveStatus
    [] c.path = "setup/discover"      -> serveDiscover(c)
    [] c.path = "setup/configuration" -> serveConfiguration(c)
    [] c.path = "acquisition/status"  -> serveAcquisitionStatus
    [] c.path = "acquisition/settings" -> serveAcquisitionSettings(c)
    [] c.path = "acquisition/acquire" -> serveAcquisition(c)
    [] c.path = "acquisition/jobs"    -> submitAcquisitionJob(c)
    [] c.path = "acquisition/jobs?"   -> listAcquisitionJobs(c)
    [] c.path = "acquisition/jobs/id" -> serveAcquisitionJob(c)
    [] c.path = "watchlist/status"    -> serveWatchlistStatus(c)
    [] c.path = "watchlist/settings"  -> serveWatchlistSettings(c)

-----------------------------------------------------------------------------
(* What the process does on its own.                                       *)

\* A process that has just started; its CSRF token is one that no other has.
Fresh(csrf) ==
  [csrf |-> csrf, tokenConfigured |-> FALSE, manifest |-> Empty, saved |-> 0, restoring |-> TRUE]

\* The process stops and another one starts.
Restart ==
  /\ srv' = Fresh(srv.csrf + 1)
  /\ UNCHANGED disk

\* restoreSavedSetup: one attempt of Restore.  What can be reached is published, unless a
\* manifest is active already and something is missing; attempts end with the first that
\* restores everything, finds nothing saved, or fails for good.
Restore ==
  /\ srv.restoring
  /\ LET noted == [srv EXCEPT !.tokenConfigured = TRUE, !.saved = Cardinality(Chosen(disk.items))]
     IN \/ /\ disk.token = None
           /\ srv' = [srv EXCEPT !.restoring = FALSE]
        \/ /\ disk.token # None
           /\ srv' = [noted EXCEPT !.manifest = disk.items, !.restoring = FALSE]
        \/ /\ disk.token # None
           /\ Chosen(srv.manifest) = {}
           /\ \E up \in SUBSET Chosen(disk.items) \ {{}, Chosen(disk.items)} :
                srv' = [noted EXCEPT
                          !.manifest = [o \in Objects |-> IF o \in up THEN disk.items[o] ELSE None]]
        \/ /\ disk.token # None
           /\ \E again \in BOOLEAN : srv' = [noted EXCEPT !.restoring = again]
  /\ UNCHANGED disk

\* The worker publishes what a job prepared, or gives the job up.
FinishJob ==
  \E id \in DOMAIN disk.jobs :
    /\ disk.jobs[id].state = "active"
    /\ \/ /\ CanPublish(disk.jobs[id].intent)
          /\ disk' = [disk EXCEPT !.jobs[id].state = "succeeded",
                                  !.items = WithAcquired(disk.jobs[id].intent)]
          /\ srv' = Published(disk'.items)
       \/ /\ disk' = [disk EXCEPT !.jobs[id].state = "failed"]
          /\ UNCHANGED srv
=============================================================================
