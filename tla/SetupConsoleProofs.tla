------------------------- MODULE SetupConsoleProofs -------------------------
(***************************************************************************)
(* Theorems about SetupConsole, for all accounts, intents, scenarios and   *)
(* bounds.                                                                 *)
(***************************************************************************)
EXTENDS SetupConsole, FiniteSetTheorems, TLAPS

-----------------------------------------------------------------------------
(* The inductive invariant.                                                *)

WireManifests == [Objects -> Media \cup {"seasonless", None}]
Drafts == [Objects -> MovieDrafts \cup EpisodeDrafts \cup {None}]
ShownJobs == [id : Nat, media : Media \cup {"seasonless", None}, state : JobStates \cup {None}]

\* The states of the React component.
Pages ==
  [phase : {"loading", "credentials", "select", "ready"}, csrf : Nat,
   tokenConfigured : BOOLEAN, token : Tokens \cup {None},
   session : Tokens \cup {None}, bootstrap : BOOLEAN,
   candidates : SUBSET Objects, drafts : Drafts, kept : BOOLEAN, items : WireManifests,
   degraded : BOOLEAN, view : {"closed", "loading", "settings", "search"},
   offer : Intents \cup {None}, job : ShownJobs,
   timer : {"off", "armed", "spent", "failed"},
   watch : Policies \cup {NoPolicy}, watchLoading : BOOLEAN, watchError : BOOLEAN,
   pending : BOOLEAN]

\* A manifest that fits into the limit.
Fits(items) == Cardinality(Chosen(items)) <= MaxItems

\* What the server keeps, typed and within the limit.
ServerOK(d, s) == d \in Disks /\ s \in Servers /\ Fits(d.items) /\ Fits(s.manifest)

\* What is shown fits into a manifest, and the page knows no CSRF token and no job that the
\* server has not given out.
PageOK(u, d, s) ==
  /\ u \in Pages
  /\ u.csrf <= s.csrf
  /\ Fits(u.items)
  /\ u.job # NoJob => u.job.id \in DOMAIN d.jobs
  /\ u.timer = "armed" => u.job # NoJob

TypeInv ==
  /\ ServerOK(disk, srv)
  /\ PageOK(ui, disk, srv)
  /\ store \in Authorizations
  /\ DOMAIN calls = Ops
  /\ reloads \in Nat

\* The requests that a handler makes.
PathsOf(op) ==
  CASE op = "findVideos"            -> {"setup/discover"}
    [] op = "apply"                 -> {"setup/configuration"}
    [] op = "openAcquisition"       -> {"acquisition/status", "acquisition/jobs?"}
    [] op = "connectProwlarr"       -> {"acquisition/settings"}
    [] op = "addRequestedMedia"     -> {"acquisition/acquire"}
    [] op = "prepareRequestedMedia" -> {"acquisition/jobs"}
    [] op = "refreshAcquisitionJob" -> {"acquisition/jobs/id", "setup/status"}
    [] op = "poll"                  -> {"acquisition/jobs/id", "setup/status"}
    [] op = "refreshWatchlist"      -> {"watchlist/status"}
    [] op = "changeWatchlistPolicy" -> {"watchlist/settings"}
    [] op = "load"                  -> {"setup/status", "watchlist/status"}

GoodRequest(q, d) ==
  /\ q.path \in {"setup/discover", "setup/configuration"} => q.token \in Tokens \cup {None}
  /\ q.path = "setup/configuration" => q.items \in Manifests
  /\ q.path \in {"acquisition/acquire", "acquisition/jobs"} => q.intent \in Intents
  /\ q.path = "acquisition/jobs/id" => q.id \in DOMAIN d.jobs
  /\ q.path = "watchlist/settings" => q.policy \in Policies

\* A job as the server reports it.
GoodJob(job, d) == job \in ShownJobs /\ job.id \in DOMAIN d.jobs

\* An answer of a server that keeps d on disk and is in state s.
GoodAnswer(path, ans, d, s) ==
  ans.ok =>
    /\ path = "setup/status" =>
         /\ ans.csrf \in Nat /\ ans.csrf <= s.csrf /\ ans.tokenConfigured \in BOOLEAN
         /\ ans.active \in Nat /\ ans.saved \in Nat
    /\ path \in {"setup/status", "setup/configuration", "acquisition/acquire"} =>
         ans.items \in WireManifests /\ Fits(ans.items)
    /\ path \in {"acquisition/jobs", "acquisition/jobs/id"} => GoodJob(ans.job, d)
    /\ path = "acquisition/jobs?" => \A job \in ans.jobs : GoodJob(job, d)

\* What a handler holds on to besides its request.
GoodHeld(op, held) ==
  op = "findVideos" =>
    held.useSaved \in BOOLEAN /\ held.selected \in WireManifests /\ Fits(held.selected)

CallOK(op, call, d, s) ==
  /\ call.at \in {"idle", "sent", "answered", "orphan"}
  /\ call.at # "idle" => call.request.path \in PathsOf(op) /\ GoodRequest(call.request, d)
  /\ call.at \in {"sent", "answered"} => GoodHeld(op, call.held)
  /\ call.at = "answered" => GoodAnswer(call.request.path, call.ans, d, s)

CallsInv == \A op \in Ops : CallOK(op, calls[op], disk, srv)

\* The two groups of requests that exclude each other: those of the buttons, and those that
\* read or set the policy, the one with which the page is loaded included.
Busy(op) == calls[op].at \in {"sent", "answered"}
WatchLane == WatchOps \cup {"load"}
WatchBusy(op) == Busy(op) /\ calls[op].request.path # "setup/status"

ButtonInv ==
  /\ \A a, b \in ButtonOps : Busy(a) /\ Busy(b) => a = b
  /\ ui.pending <=> \E op \in ButtonOps : Busy(op)

WatchInv ==
  /\ \A a, b \in WatchLane : WatchBusy(a) /\ WatchBusy(b) => a = b
  /\ ui.watchLoading <=> \E op \in WatchLane : WatchBusy(op)

\* A page that is being loaded has asked for the status only.
LoadInv ==
  /\ ui.phase = "loading" => ~ui.pending /\ ~ui.watchLoading
  /\ Busy("load") /\ ~WatchBusy("load") => ui.phase = "loading"

\* Until the page is loaded again nobody's request is forgotten, and an answer that is there
\* tells the policy, or the token, that is saved.
SessionPaths == {"setup/discover", "setup/configuration", "acquisition/settings",
                 "acquisition/acquire", "acquisition/jobs"}

FreshInv ==
  reloads = 0 =>
    /\ \A op \in Ops : calls[op].at # "orphan"
    /\ \A op \in WatchLane :
         WatchBusy(op) /\ calls[op].at = "answered" /\ calls[op].ans.ok
           => calls[op].ans.policy = disk.policy
    /\ \A op \in ButtonOps :
         /\ calls[op].at = "answered" /\ calls[op].ans.ok
         /\ calls[op].request.path \in SessionPaths /\ disk.token # None
         => calls[op].ans.session = disk.token

\* Nothing is selected while videos are looked for.
SearchInv == Busy("findVideos") => ui.phase # "select"

LaneInv == CallsInv /\ ButtonInv /\ WatchInv /\ LoadInv /\ FreshInv

\* The inductive invariant.
Inv ==
  /\ TypeInv /\ LaneInv
  /\ SearchInv /\ SelectionDiscovered
  /\ ReloadKeepsPairing
  /\ PanelHonest

-----------------------------------------------------------------------------
(* The server.                                                             *)

\* What is chosen of a manifest is a finite set.
LEMMA ChosenFinite ==
  ASSUME NEW items
  PROVE  IsFiniteSet(Chosen(items)) /\ Cardinality(Chosen(items)) \in Nat
<1>1. Chosen(items) \subseteq Objects
  BY DEF Chosen
<1>2. QED BY <1>1, ServerAssumption, FS_Subset, FS_CardinalityType

\* A manifest that has less than another one fits where that one does.
LEMMA FewerFit ==
  ASSUME NEW a, NEW b, Chosen(a) \subseteq Chosen(b), Fits(b)
  PROVE  Fits(a)
<1>1. Cardinality(Chosen(a)) <= Cardinality(Chosen(b))
  BY ChosenFinite, FS_Subset
<1>2. QED BY <1>1, ChosenFinite, ServerAssumption DEF Fits

\* The wire keeps what is chosen.
LEMMA WireFits ==
  ASSUME NEW items \in Manifests
  PROVE  /\ WireItems(items) \in WireManifests
         /\ Chosen(WireItems(items)) = Chosen(items)
         /\ Fits(items) => Fits(WireItems(items))
<1>1. \A m \in Media \cup {None} :
        Wire(m) \in Media \cup {"seasonless", None} /\ (Wire(m) = None <=> m = None)
  BY DEF Wire, Media, None
<1>2. WireItems(items) \in WireManifests
  BY <1>1 DEF WireItems, WireManifests, Manifests
<1>3. Chosen(WireItems(items)) = Chosen(items)
  BY <1>1 DEF WireItems, Chosen, Manifests
<1>4. QED BY <1>2, <1>3 DEF Fits

\* The jobs are a sequence of at most MaxJobs.
JobLists == UNION {[1..n -> Job] : n \in 0..MaxJobs}

LEMMA JobListIsSeq ==
  ASSUME NEW jobs \in JobLists
  PROVE  jobs \in Seq(Job) /\ Len(jobs) <= MaxJobs /\ DOMAIN jobs = 1..Len(jobs)
<1>1. PICK n \in 0..MaxJobs : jobs \in [1..n -> Job]
  BY DEF JobLists
<1>2. n \in Nat /\ n <= MaxJobs
  BY ServerAssumption
<1>3. jobs \in Seq(Job) /\ Len(jobs) = n
  BY <1>1, <1>2
<1>4. QED BY <1>1, <1>2, <1>3

LEMMA SeqIsJobList ==
  ASSUME NEW jobs \in Seq(Job), Len(jobs) <= MaxJobs
  PROVE  jobs \in JobLists
<1>1. Len(jobs) \in 0..MaxJobs /\ jobs \in [1..Len(jobs) -> Job]
  BY ServerAssumption
<1>2. QED BY <1>1 DEF JobLists

\* A job as it goes over the wire.
LEMMA WireJobGood ==
  ASSUME NEW jobs \in JobLists, NEW id \in DOMAIN jobs
  PROVE  WireJob(id, jobs) \in ShownJobs /\ WireJob(id, jobs).id = id
<1>1. id \in Nat /\ jobs[id] \in Job
  BY JobListIsSeq
<1>2. MediaOf[jobs[id].intent] \in Media /\ jobs[id].state \in JobStates
  BY <1>1, ServerAssumption DEF Job
<1>3. QED BY <1>1, <1>2 DEF WireJob, ShownJobs, Wire, Media

\* What one step of the server may do to what it keeps.
Grows(d, s) ==
  /\ ServerOK(d, s)
  /\ s.csrf >= srv.csrf
  /\ DOMAIN disk.jobs \subseteq DOMAIN d.jobs

LEMMA MarkedOK ==
  ASSUME ServerOK(disk, srv)
  PROVE  Marked \in Servers /\ Marked.csrf = srv.csrf /\ Grows(disk, Marked) /\ Grows(disk, srv)
<1>1. PICK b \in BOOLEAN : b <=> (srv.tokenConfigured \/ disk.token # None)
  OBVIOUS
<1>2. (srv.tokenConfigured \/ disk.token # None) = b
  BY <1>1
<1>3. Marked = [srv EXCEPT !.tokenConfigured = b]
  BY <1>2, Zenon DEF Marked
<1>4. srv \in Servers /\ srv.csrf \in Nat
  BY DEF ServerOK, Servers
<1>5. Marked \in Servers /\ Marked.csrf = srv.csrf /\ Marked.manifest = srv.manifest
  BY <1>3, <1>4 DEF Servers
<1>6. QED BY <1>4, <1>5 DEF Grows, ServerOK

LEMMA PublishedOK ==
  ASSUME ServerOK(disk, srv), NEW items \in Manifests, Fits(items)
  PROVE  /\ Published(items) \in Servers /\ Published(items).csrf = srv.csrf
         /\ Published(items).manifest = items
<1>1. Cardinality(Chosen(items)) \in 0..MaxItems
  BY ChosenFinite, ServerAssumption DEF Fits
<1>2. QED BY <1>1 DEF ServerOK, Published, Servers

\* A publication adds one item.
LEMMA AcquiredOK ==
  ASSUME ServerOK(disk, srv), NEW i \in Intents, CanPublish(i)
  PROVE  WithAcquired(i) \in Manifests /\ Fits(WithAcquired(i))
<1>1. /\ disk.items \in [Objects -> Media \cup {None}]
      /\ ObjectOf[i] \in Objects /\ MediaOf[i] \in Media
  BY ServerAssumption DEF ServerOK, Disks, Manifests
<1>2. WithAcquired(i) \in Manifests
  BY <1>1 DEF WithAcquired, Manifests
<1>3. Chosen(WithAcquired(i)) = Chosen(disk.items) \cup {ObjectOf[i]}
  BY <1>1 DEF Chosen, WithAcquired, Media, None
<1>4. QED BY <1>2, <1>3 DEF CanPublish, Fits

\* What a handler makes of a request: only one path changes the policy and only one the
\* token, and an answer tells the policy and the token as they are left.
OutcomeOK(path, out) ==
  /\ Grows(out.disk, out.srv)
  /\ GoodAnswer(path, out.ans, out.disk, out.srv)
  /\ path # "watchlist/settings" => out.disk.policy = disk.policy
  /\ path # "setup/configuration" => out.disk.token = disk.token
  /\ out.ans.ok /\ path \in {"watchlist/status", "watchlist/settings"} =>
       out.ans.policy = out.disk.policy
  /\ out.ans.ok /\ path \in SessionPaths /\ out.disk.token # None =>
       out.ans.session = out.disk.token

\* An answer that says only that something failed.
LEMMA FailureOK ==
  ASSUME ServerOK(disk, srv), NEW path, NEW out, NEW code,
         out.disk = disk, out.srv \in {srv, Marked}, out.ans = Error(code)
  PROVE  OutcomeOK(path, out)
<1>1. out.ans.ok = FALSE
  BY DEF Error
<1>2. QED BY <1>1, MarkedOK DEF OutcomeOK, GoodAnswer

LEMMA PairedOK ==
  ASSUME ServerOK(disk, srv), NEW c, NEW token, NEW outcomes,
         NEW out \in Paired(c, token, outcomes), out \notin outcomes
  PROVE  OutcomeOK(c.path, out)
<1>1. PICK code : out = Outcome(disk, srv, Error(code)) \/ out = Outcome(disk, Marked, Error(code))
  BY DEF Paired
<1>2. out.disk = disk /\ out.srv \in {srv, Marked} /\ out.ans = Error(code)
  BY <1>1 DEF Outcome
<1>3. QED BY <1>2, FailureOK

LEMMA StatusOK ==
  ASSUME ServerOK(disk, srv), NEW out \in serveStatus
  PROVE  OutcomeOK("setup/status", out)
<1>1. CASE out = Outcome(disk, srv, Error("unavailable"))
  <2>1. out.disk = disk /\ out.srv \in {srv, Marked} /\ out.ans = Error("unavailable")
    BY <1>1 DEF Outcome
  <2>2. QED BY <2>1, FailureOK
<1>2. CASE out # Outcome(disk, srv, Error("unavailable"))
  <2>1. /\ out.disk = disk /\ out.srv = srv
        /\ out.ans.csrf = srv.csrf /\ out.ans.tokenConfigured = srv.tokenConfigured
        /\ out.ans.items = WireItems(srv.manifest) /\ out.ans.saved = srv.saved
        /\ out.ans.active = Cardinality(Chosen(srv.manifest))
    BY <1>2 DEF serveStatus, Outcome
  <2>2. /\ srv.csrf \in Nat /\ srv.tokenConfigured \in BOOLEAN /\ srv.manifest \in Manifests
        /\ srv.saved \in Nat
    BY ServerAssumption DEF ServerOK, Servers
  <2>3. out.ans.active \in Nat
    BY <2>1, ChosenFinite
  <2>4. out.ans.items \in WireManifests /\ Fits(out.ans.items)
    BY <2>1, <2>2, WireFits DEF ServerOK
  <2>5. Grows(out.disk, out.srv)
    BY <2>1, MarkedOK
  <2>6. QED BY <2>1, <2>2, <2>3, <2>4, <2>5 DEF OutcomeOK, GoodAnswer, SessionPaths
<1>3. QED BY <1>1, <1>2

LEMMA DiscoverOK ==
  ASSUME ServerOK(disk, srv), NEW c, c.path = "setup/discover", NEW out \in serveDiscover(c)
  PROVE  OutcomeOK(c.path, out)
<1> DEFINE outcomes ==
             {Outcome(disk, Marked,
                [ok |-> TRUE, candidates |-> files, session |-> IssuedSession(c.token)]) :
                files \in SUBSET Account[resolveToken(c.token)]}
<1>1. CASE out \in outcomes
  <2>1. PICK files : out = Outcome(disk, Marked,
                             [ok |-> TRUE, candidates |-> files, session |-> IssuedSession(c.token)])
    BY <1>1
  <2>2. out.disk = disk /\ out.srv = Marked /\ out.ans.session = IssuedSession(c.token)
    BY <2>1 DEF Outcome
  <2>3. QED BY <2>2, MarkedOK DEF OutcomeOK, GoodAnswer, IssuedSession
<1>2. CASE out \notin outcomes
  BY <1>2, PairedOK DEF serveDiscover
<1>3. QED BY <1>1, <1>2

LEMMA ConfigurationOK ==
  ASSUME ServerOK(disk, srv), NEW c, c.path = "setup/configuration", GoodRequest(c, disk),
         NEW out \in serveConfiguration(c)
  PROVE  OutcomeOK(c.path, out)
<1> DEFINE token == resolveToken(c.token)
           d == [disk EXCEPT !.token = token, !.items = c.items]
           ans == [ok |-> TRUE, items |-> WireItems(c.items), session |-> token]
           outcomes == IF CanApply(token, c.items) THEN {Outcome(d, Published(c.items), ans)}
                       ELSE {}
<1>1. CASE out \in outcomes
  <2>1. out = Outcome(d, Published(c.items), ans) /\ CanApply(token, c.items)
    BY <1>1
  <2>2. c.items \in Manifests /\ Fits(c.items) /\ token \in Tokens \cup {None}
    BY <2>1 DEF CanApply, Fits, GoodRequest, resolveToken, ServerOK, Disks
  <2>3. /\ d \in Disks /\ d.items = c.items /\ d.token = token /\ d.jobs = disk.jobs
        /\ d.policy = disk.policy
    BY <2>2 DEF ServerOK, Disks
  <2>4. out.disk = d /\ out.srv = Published(c.items) /\ out.ans = ans
    BY <2>1 DEF Outcome
  <2>5. srv.csrf \in Nat
    BY DEF ServerOK, Servers
  <2>6. Grows(out.disk, out.srv)
    BY <2>2, <2>3, <2>4, <2>5, PublishedOK DEF Grows, ServerOK
  <2>7. ans.items \in WireManifests /\ Fits(ans.items) /\ ans.session = token
    BY <2>2, WireFits
  <2>8. QED BY <2>3, <2>4, <2>6, <2>7 DEF OutcomeOK, GoodAnswer
<1>2. CASE out \notin outcomes
  BY <1>2, PairedOK DEF serveConfiguration
<1>3. QED BY <1>1, <1>2

LEMMA AcquisitionStatusOK ==
  ASSUME ServerOK(disk, srv), NEW out \in serveAcquisitionStatus
  PROVE  OutcomeOK("acquisition/status", out)
<1>1. out.disk = disk /\ out.srv = srv
  BY DEF serveAcquisitionStatus, Outcome
<1>2. QED BY <1>1, MarkedOK DEF OutcomeOK, GoodAnswer, SessionPaths

LEMMA SettingsOK ==
  ASSUME ServerOK(disk, srv), NEW c, c.path = "acquisition/settings",
         NEW out \in serveAcquisitionSettings(c)
  PROVE  OutcomeOK(c.path, out)
<1> DEFINE d == [disk EXCEPT !.search = TRUE]
           ans == [ok |-> TRUE, configured |-> TRUE, session |-> IssuedSession(None)]
           outcomes == {Outcome(d, Marked, ans)}
<1>1. CASE out \in outcomes
  <2>1. out.disk = d /\ out.srv = Marked /\ out.ans = ans
    BY <1>1 DEF Outcome
  <2>2. /\ d \in Disks /\ d.items = disk.items /\ d.token = disk.token /\ d.jobs = disk.jobs
        /\ d.policy = disk.policy
    BY DEF ServerOK, Disks
  <2>3. Grows(out.disk, out.srv)
    BY <2>1, <2>2, MarkedOK DEF Grows, ServerOK
  <2>4. QED BY <2>1, <2>2, <2>3 DEF OutcomeOK, GoodAnswer, IssuedSession
<1>2. CASE out \notin outcomes
  BY <1>2, PairedOK DEF serveAcquisitionSettings
<1>3. QED BY <1>1, <1>2

LEMMA AcquireOK ==
  ASSUME ServerOK(disk, srv), NEW c, c.path = "acquisition/acquire", GoodRequest(c, disk),
         NEW out \in serveAcquisition(c)
  PROVE  OutcomeOK(c.path, out)
<1> DEFINE items == WithAcquired(c.intent)
           d == [disk EXCEPT !.items = items]
           ans == [ok |-> TRUE, items |-> WireItems(items), session |-> IssuedSession(None)]
           outcomes == IF ~disk.search THEN {}
                       ELSE {Outcome(disk, Marked, Error("not_cached"))}
                              \cup IF CanPublish(c.intent) THEN {Outcome(d, Published(items), ans)}
                                   ELSE {}
<1>1. CASE out = Outcome(d, Published(items), ans) /\ CanPublish(c.intent)
  <2>1. out.disk = d /\ out.srv = Published(items) /\ out.ans = ans
    BY <1>1 DEF Outcome
  <2>2. items \in Manifests /\ Fits(items)
    BY <1>1, AcquiredOK DEF GoodRequest
  <2>3. /\ d \in Disks /\ d.items = items /\ d.token = disk.token /\ d.jobs = disk.jobs
        /\ d.policy = disk.policy
    BY <2>2 DEF ServerOK, Disks
  <2>4. srv.csrf \in Nat
    BY DEF ServerOK, Servers
  <2>5. Grows(out.disk, out.srv)
    BY <2>1, <2>2, <2>3, <2>4, PublishedOK DEF Grows, ServerOK
  <2>6. ans.items \in WireManifests /\ Fits(ans.items) /\ ans.session = IssuedSession(None)
    BY <2>2, WireFits
  <2>7. QED BY <2>1, <2>3, <2>5, <2>6 DEF OutcomeOK, GoodAnswer, IssuedSession
<1>2. CASE out = Outcome(disk, Marked, Error("not_cached"))
  <2>1. out.disk = disk /\ out.srv \in {srv, Marked} /\ out.ans = Error("not_cached")
    BY <1>2 DEF Outcome
  <2>2. QED BY <2>1, FailureOK
<1>3. CASE out \notin outcomes
  BY <1>3, PairedOK DEF serveAcquisition
<1>4. QED BY <1>1, <1>2, <1>3

LEMMA SubmitOK ==
  ASSUME ServerOK(disk, srv), NEW c, c.path = "acquisition/jobs", GoodRequest(c, disk),
         NEW out \in submitAcquisitionJob(c)
  PROVE  OutcomeOK(c.path, out)
<1> DEFINE new == [intent |-> c.intent, state |-> "active"]
           same == {id \in DOMAIN disk.jobs : disk.jobs[id] = new}
           jobs == IF same # {} THEN disk.jobs ELSE Append(disk.jobs, new)
           ids == IF same # {} THEN same ELSE {Len(jobs)} \cap (1..MaxJobs)
           d == [disk EXCEPT !.jobs = jobs]
           outcomes == {Outcome(d, Marked,
                          [ok |-> TRUE, job |-> WireJob(id, jobs), session |-> IssuedSession(None)]) :
                          id \in ids}
<1>1. CASE out \in outcomes
  <2>1. PICK id \in ids : out = Outcome(d, Marked,
          [ok |-> TRUE, job |-> WireJob(id, jobs), session |-> IssuedSession(None)])
    BY <1>1
  <2>2. /\ out.disk = d /\ out.srv = Marked
        /\ out.ans.job = WireJob(id, jobs) /\ out.ans.session = IssuedSession(None)
    BY <2>1 DEF Outcome
  <2>3. disk.jobs \in JobLists
    BY DEF ServerOK, Disks, JobLists
  <2>4. new \in Job
    BY DEF GoodRequest, Job, JobStates
  <2>5. jobs \in JobLists /\ id \in DOMAIN jobs /\ DOMAIN disk.jobs \subseteq DOMAIN jobs
    <3>1. CASE same # {}
      BY <3>1, <2>3
    <3>2. CASE same = {}
      <4>1. /\ disk.jobs \in Seq(Job) /\ DOMAIN disk.jobs = 1..Len(disk.jobs)
            /\ jobs = Append(disk.jobs, new) /\ id = Len(jobs) /\ id \in 1..MaxJobs
        BY <2>3, <3>2, JobListIsSeq
      <4>2. jobs \in Seq(Job) /\ Len(jobs) = Len(disk.jobs) + 1 /\ DOMAIN jobs = 1..Len(jobs)
        BY <2>4, <4>1
      <4>3. jobs \in JobLists
        <5>1. Len(jobs) <= MaxJobs
          BY <4>1, ServerAssumption
        <5> HIDE DEF jobs
        <5>2. QED BY <4>2, <5>1, SeqIsJobList
      <4>4. QED BY <4>1, <4>2, <4>3
    <3>3. QED BY <3>1, <3>2
  <2> HIDE DEF jobs, ids
  <2>6. /\ d \in Disks /\ d.items = disk.items /\ d.token = disk.token /\ d.jobs = jobs
        /\ d.policy = disk.policy
    BY <2>5 DEF ServerOK, Disks, JobLists
  <2>7. Grows(out.disk, out.srv)
    BY <2>2, <2>5, <2>6, MarkedOK DEF Grows, ServerOK
  <2>8. GoodJob(out.ans.job, out.disk)
    BY <2>2, <2>5, <2>6, WireJobGood DEF GoodJob
  <2>9. QED BY <2>2, <2>6, <2>7, <2>8 DEF OutcomeOK, GoodAnswer, IssuedSession
<1>2. CASE out \notin outcomes
  BY <1>2, PairedOK DEF submitAcquisitionJob
<1>3. QED BY <1>1, <1>2

LEMMA ListOK ==
  ASSUME ServerOK(disk, srv), NEW c, c.path = "acquisition/jobs?",
         NEW out \in listAcquisitionJobs(c)
  PROVE  OutcomeOK(c.path, out)
<1> DEFINE ans == [ok |-> TRUE, jobs |-> {WireJob(id, disk.jobs) : id \in DOMAIN disk.jobs}]
           outcomes == {Outcome(disk, Marked, ans)}
<1>1. CASE out \in outcomes
  <2>1. out.disk = disk /\ out.srv = Marked /\ out.ans = ans
    BY <1>1 DEF Outcome
  <2>2. disk.jobs \in JobLists
    BY DEF ServerOK, Disks, JobLists
  <2>3. \A job \in ans.jobs : GoodJob(job, disk)
    BY <2>2, WireJobGood DEF GoodJob
  <2>4. QED BY <2>1, <2>3, MarkedOK DEF OutcomeOK, GoodAnswer, SessionPaths
<1>2. CASE out \notin outcomes
  BY <1>2, PairedOK DEF listAcquisitionJobs
<1>3. QED BY <1>1, <1>2

LEMMA JobOK ==
  ASSUME ServerOK(disk, srv), NEW c, c.path = "acquisition/jobs/id", GoodRequest(c, disk),
         NEW out \in serveAcquisitionJob(c)
  PROVE  OutcomeOK(c.path, out)
<1> DEFINE ans == [ok |-> TRUE, job |-> WireJob(c.id, disk.jobs)]
           outcomes == {Outcome(disk, Marked, ans)}
<1>1. CASE out \in outcomes
  <2>1. out.disk = disk /\ out.srv = Marked /\ out.ans = ans
    BY <1>1 DEF Outcome
  <2>2. disk.jobs \in JobLists
    BY DEF ServerOK, Disks, JobLists
  <2>3. GoodJob(ans.job, disk)
    BY <2>2, WireJobGood DEF GoodJob, GoodRequest
  <2>4. QED BY <2>1, <2>3, MarkedOK DEF OutcomeOK, GoodAnswer, SessionPaths
<1>2. CASE out \notin outcomes
  BY <1>2, PairedOK DEF serveAcquisitionJob
<1>3. QED BY <1>1, <1>2

LEMMA WatchlistStatusOK ==
  ASSUME ServerOK(disk, srv), NEW c, c.path = "watchlist/status",
         NEW out \in serveWatchlistStatus(c)
  PROVE  OutcomeOK(c.path, out)
<1> DEFINE outcomes == {Outcome(disk, Marked, [ok |-> TRUE, policy |-> disk.policy])}
<1>1. CASE out \in outcomes
  <2>1. out.disk = disk /\ out.srv = Marked /\ out.ans.policy = disk.policy
    BY <1>1 DEF Outcome
  <2>2. QED BY <2>1, MarkedOK DEF OutcomeOK, GoodAnswer, SessionPaths
<1>2. CASE out \notin outcomes
  BY <1>2, PairedOK DEF serveWatchlistStatus
<1>3. QED BY <1>1, <1>2

LEMMA WatchlistSettingsOK ==
  ASSUME ServerOK(disk, srv), NEW c, c.path = "watchlist/settings", GoodRequest(c, disk),
         NEW out \in serveWatchlistSettings(c)
  PROVE  OutcomeOK(c.path, out)
<1> DEFINE d == [disk EXCEPT !.policy = c.policy]
           ans == [ok |-> TRUE, policy |-> c.policy, session |-> IssuedSession(None)]
           outcomes == {Outcome(d, Marked, ans), Outcome(d, Marked, Error("unavailable"))}
<1>1. CASE out \in outcomes
  <2>1. out.disk = d /\ out.srv = Marked /\ (out.ans.ok => out.ans.policy = c.policy)
    BY <1>1 DEF Outcome, Error
  <2>2. /\ d \in Disks /\ d.items = disk.items /\ d.token = disk.token /\ d.jobs = disk.jobs
        /\ d.policy = c.policy
    BY DEF ServerOK, Disks, GoodRequest
  <2>3. Grows(out.disk, out.srv)
    BY <2>1, <2>2, MarkedOK DEF Grows, ServerOK
  <2>4. QED BY <2>1, <2>2, <2>3 DEF OutcomeOK, GoodAnswer, SessionPaths
<1>2. CASE out \notin outcomes
  BY <1>2, PairedOK DEF serveWatchlistSettings
<1>3. QED BY <1>1, <1>2

Paths == {"setup/status", "setup/discover", "setup/configuration", "acquisition/status",
          "acquisition/settings", "acquisition/acquire", "acquisition/jobs", "acquisition/jobs?",
          "acquisition/jobs/id", "watchlist/status", "watchlist/settings"}

\* Every request is answered well.
LEMMA ServeOK ==
  ASSUME ServerOK(disk, srv), NEW c, c.path \in Paths, GoodRequest(c, disk),
         NEW out \in ServeHTTP(c)
  PROVE  OutcomeOK(c.path, out)
<1>1. CASE c.path = "setup/status"
  BY <1>1, StatusOK DEF ServeHTTP
<1>2. CASE c.path = "setup/discover"
  BY <1>2, DiscoverOK DEF ServeHTTP
<1>3. CASE c.path = "setup/configuration"
  BY <1>3, ConfigurationOK DEF ServeHTTP
<1>4. CASE c.path = "acquisition/status"
  BY <1>4, AcquisitionStatusOK DEF ServeHTTP
<1>5. CASE c.path = "acquisition/settings"
  BY <1>5, SettingsOK DEF ServeHTTP
<1>6. CASE c.path = "acquisition/acquire"
  BY <1>6, AcquireOK DEF ServeHTTP
<1>7. CASE c.path = "acquisition/jobs"
  BY <1>7, SubmitOK DEF ServeHTTP
<1>8. CASE c.path = "acquisition/jobs?"
  BY <1>8, ListOK DEF ServeHTTP
<1>9. CASE c.path = "acquisition/jobs/id"
  BY <1>9, JobOK DEF ServeHTTP
<1>10. CASE c.path = "watchlist/status"
  BY <1>10, WatchlistStatusOK DEF ServeHTTP
<1>11. CASE c.path = "watchlist/settings"
  BY <1>11, WatchlistSettingsOK DEF ServeHTTP
<1>12. QED
  BY <1>1, <1>2, <1>3, <1>4, <1>5, <1>6, <1>7, <1>8, <1>9, <1>10, <1>11 DEF Paths

\* Outside the handlers only the process and the results of jobs change.
LEMMA ProcessOK ==
  ASSUME ServerOK(disk, srv), Restart \/ Restore \/ FinishJob
  PROVE  Grows(disk', srv') /\ disk'.policy = disk.policy /\ disk'.token = disk.token
<1>1. /\ srv \in Servers /\ srv.csrf \in Nat /\ disk \in Disks /\ disk.items \in Manifests
      /\ Fits(disk.items) /\ Fits(srv.manifest)
  BY DEF ServerOK, Servers, Disks
<1>2. CASE Restart
  <2>1. Empty \in Manifests /\ Chosen(Empty) = {}
    BY DEF Empty, Manifests, Chosen
  <2>2. Fits(Empty)
    BY <2>1, FS_EmptySet, ServerAssumption DEF Fits
  <2>3. disk' = disk /\ srv' = Fresh(srv.csrf + 1)
    BY <1>2 DEF Restart
  <2>4. srv' \in Servers /\ srv'.csrf = srv.csrf + 1 /\ srv'.manifest = Empty
    BY <1>1, <2>1, <2>3, ServerAssumption DEF Fresh, Servers
  <2>5. QED BY <1>1, <2>2, <2>3, <2>4 DEF Grows, ServerOK
<1>3. CASE Restore
  <2> DEFINE n == Cardinality(Chosen(disk.items))
             noted == [srv EXCEPT !.tokenConfigured = TRUE, !.saved = n]
  <2>1. n \in 0..MaxItems
    BY <1>1, ChosenFinite, ServerAssumption DEF Fits
  <2>2. noted \in Servers /\ noted.csrf = srv.csrf /\ noted.manifest = srv.manifest
    BY <1>1, <2>1 DEF Servers
  <2> HIDE DEF n, noted
  <2>3. disk' = disk
    BY <1>3 DEF Restore
  <2>4. srv' \in Servers /\ srv'.csrf = srv.csrf /\ Fits(srv'.manifest)
    <3>1. CASE srv' = [srv EXCEPT !.restoring = FALSE]
      BY <1>1, <3>1 DEF Servers
    <3>2. CASE srv' = [noted EXCEPT !.manifest = disk.items, !.restoring = FALSE]
      BY <1>1, <2>2, <3>2 DEF Servers
    <3>3. ASSUME NEW up \in SUBSET Chosen(disk.items),
                 srv' = [noted EXCEPT
                           !.manifest = [o \in Objects |-> IF o \in up THEN disk.items[o] ELSE None]]
          PROVE  srv' \in Servers /\ srv'.csrf = srv.csrf /\ Fits(srv'.manifest)
      <4> DEFINE part == [o \in Objects |-> IF o \in up THEN disk.items[o] ELSE None]
      <4>1. part \in Manifests /\ Chosen(part) \subseteq Chosen(disk.items)
        BY <1>1 DEF Manifests, Chosen
      <4>2. Fits(part)
        BY <1>1, <4>1, FewerFit
      <4> HIDE DEF part
      <4>3. srv' = [noted EXCEPT !.manifest = part]
        BY <3>3 DEF part
      <4>4. QED BY <2>2, <4>1, <4>2, <4>3 DEF Servers
    <3>4. ASSUME NEW again \in BOOLEAN, srv' = [noted EXCEPT !.restoring = again]
          PROVE  srv' \in Servers /\ srv'.csrf = srv.csrf /\ Fits(srv'.manifest)
      BY <1>1, <2>2, <3>4 DEF Servers
    <3>5. QED BY <1>3, <3>1, <3>2, <3>3, <3>4 DEF Restore, n, noted
  <2>5. QED BY <1>1, <2>3, <2>4 DEF Grows, ServerOK
<1>4. CASE FinishJob
  <2>1. PICK id \in DOMAIN disk.jobs :
          \/ /\ CanPublish(disk.jobs[id].intent)
             /\ disk' = [disk EXCEPT !.jobs[id].state = "succeeded",
                                     !.items = WithAcquired(disk.jobs[id].intent)]
             /\ srv' = Published(disk'.items)
          \/ disk' = [disk EXCEPT !.jobs[id].state = "failed"] /\ srv' = srv
    BY <1>4 DEF FinishJob
  <2>2. disk.jobs \in JobLists
    BY <1>1 DEF Disks, JobLists
  <2>3. disk.jobs[id] \in Job /\ disk.jobs[id].intent \in Intents
    <3>1. PICK n \in 0..MaxJobs : disk.jobs \in [1..n -> Job]
      BY <2>2 DEF JobLists
    <3>2. disk.jobs[id] \in Job
      BY <2>1, <3>1
    <3>3. QED BY <3>2 DEF Job
  <2>4. \A st \in JobStates :
          /\ [disk.jobs EXCEPT ![id].state = st] \in JobLists
          /\ DOMAIN [disk.jobs EXCEPT ![id].state = st] = DOMAIN disk.jobs
    <3>1. PICK n \in 0..MaxJobs : disk.jobs \in [1..n -> Job]
      BY <2>2 DEF JobLists
    <3>2. \A st \in JobStates : [disk.jobs[id] EXCEPT !.state = st] \in Job
      BY <2>3 DEF Job
    <3>3. \A st \in JobStates : [disk.jobs EXCEPT ![id].state = st] \in [1..n -> Job]
      BY <3>1, <3>2
    <3>4. QED BY <3>1, <3>3 DEF JobLists
  <2>5. CASE disk' = [disk EXCEPT !.jobs[id].state = "failed"] /\ srv' = srv
    <3> DEFINE jobs == [disk.jobs EXCEPT ![id].state = "failed"]
    <3>1. jobs \in JobLists /\ DOMAIN jobs = DOMAIN disk.jobs
      BY <2>4 DEF JobStates
    <3>2. disk' = [disk EXCEPT !.jobs = jobs]
      BY <2>5
    <3> HIDE DEF jobs
    <3>3. /\ disk' \in Disks /\ disk'.jobs = jobs /\ disk'.items = disk.items
          /\ disk'.policy = disk.policy /\ disk'.token = disk.token
      BY <1>1, <3>1, <3>2 DEF Disks, JobLists
    <3>4. QED BY <1>1, <2>5, <3>1, <3>3 DEF Grows, ServerOK
  <2>6. CASE /\ CanPublish(disk.jobs[id].intent)
             /\ disk' = [disk EXCEPT !.jobs[id].state = "succeeded",
                                     !.items = WithAcquired(disk.jobs[id].intent)]
             /\ srv' = Published(disk'.items)
    <3> DEFINE jobs == [disk.jobs EXCEPT ![id].state = "succeeded"]
               items == WithAcquired(disk.jobs[id].intent)
    <3>1. jobs \in JobLists /\ DOMAIN jobs = DOMAIN disk.jobs
      BY <2>4 DEF JobStates
    <3>2. disk' = [disk EXCEPT !.jobs = jobs, !.items = items]
      BY <2>6
    <3>3. items \in Manifests /\ Fits(items)
      BY <2>3, <2>6, AcquiredOK
    <3> HIDE DEF jobs, items
    <3>4. /\ disk' \in Disks /\ disk'.jobs = jobs /\ disk'.items = items
          /\ disk'.policy = disk.policy /\ disk'.token = disk.token
      BY <1>1, <3>1, <3>2, <3>3 DEF Disks, JobLists
    <3>5. QED BY <1>1, <2>6, <3>1, <3>3, <3>4, PublishedOK DEF Grows, ServerOK
  <2>7. QED BY <2>1, <2>5, <2>6
<1>5. QED BY <1>2, <1>3, <1>4

\* What is good for a server stays good when the server has gone on.
LEMMA CallKept ==
  ASSUME NEW d, NEW s, NEW e, NEW t, s \in Servers, t \in Servers, s.csrf <= t.csrf,
         DOMAIN d.jobs \subseteq DOMAIN e.jobs,
         NEW op, NEW call, CallOK(op, call, d, s)
  PROVE  CallOK(op, call, e, t)
<1>1. s.csrf \in Nat /\ t.csrf \in Nat
  BY DEF Servers
<1>2. call.at # "idle" => GoodRequest(call.request, e)
  BY DEF CallOK, GoodRequest
<1>3. call.at = "answered" => GoodAnswer(call.request.path, call.ans, e, t)
  <2>1. SUFFICES ASSUME call.at = "answered", call.ans.ok
                 PROVE  GoodAnswer(call.request.path, call.ans, e, t)
    BY DEF GoodAnswer
  <2>2. QED BY <1>1, <2>1 DEF CallOK, GoodAnswer, GoodJob
<1>4. QED BY <1>2, <1>3 DEF CallOK

-----------------------------------------------------------------------------
(* The requests under way.                                                 *)

ServerStays == disk' = disk /\ srv' = srv /\ reloads' = reloads

\* Only op makes, or ends, a request; a poll may be forgotten beside it.
Turn(op, call) ==
  /\ DOMAIN calls' = Ops
  /\ \A x \in Ops \ {op, "poll"} : calls'[x] = calls[x]
  /\ calls'[op] = call
  /\ CallOK(op, call, disk, srv)
  /\ op # "poll" => calls'["poll"] \in {calls["poll"], Idle}

\* Neither group of requests changes.
Quiet ==
  /\ ui'.pending = ui.pending /\ ui'.watchLoading = ui.watchLoading
  /\ ui'.phase = "loading" <=> ui.phase = "loading"
  /\ \E call : Turn("poll", call) /\ (call = calls["poll"] \/ call.at \in {"idle", "sent"})

\* A button starts a request while none is under way, goes on to another, or ends.
ButtonTurn(op, call) ==
  /\ ~ui.pending \/ Busy(op)
  /\ Turn(op, call) /\ call.at \in {"idle", "sent"}
  /\ ui'.pending <=> call.at = "sent"
  /\ ui'.watchLoading = ui.watchLoading
  /\ ui.phase # "loading" /\ ui'.phase # "loading"

\* The same of a request for the policy, which the loading page may start too.
WatchTurn(op, call) ==
  /\ ~ui.watchLoading \/ WatchBusy(op)
  /\ Turn(op, call) /\ call.at \in {"idle", "sent"}
  /\ call.at = "sent" => call.request.path # "setup/status"
  /\ ui'.watchLoading <=> call.at = "sent"
  /\ ui'.pending = ui.pending
  /\ ui.phase # "loading" \/ op = "load"
  /\ ui'.phase # "loading"

LEMMA TurnKeepsCalls ==
  ASSUME CallsInv, ServerStays, NEW op \in Ops, NEW call, Turn(op, call)
  PROVE  CallsInv'
<1>1. CallOK("poll", Idle, disk, srv)
  BY DEF CallOK, Idle
<1>2. \A x \in Ops : CallOK(x, calls'[x], disk, srv)
  BY <1>1 DEF Turn, CallsInv, Ops
<1>3. QED BY <1>2 DEF CallsInv, ServerStays

LEMMA QuietKeeps ==
  ASSUME LaneInv, ServerStays, Quiet
  PROVE  LaneInv'
<1>1. PICK call : Turn("poll", call) /\ (call = calls["poll"] \/ call.at \in {"idle", "sent"})
  BY DEF Quiet
<1>2. CallsInv'
  BY <1>1, TurnKeepsCalls DEF LaneInv, Ops
<1>3. \A x \in Ops \ {"poll"} : calls'[x] = calls[x]
  BY <1>1 DEF Turn
<1>4. /\ ButtonOps \subseteq Ops \ {"poll"} /\ WatchLane \subseteq Ops \ {"poll"}
      /\ "load" \in WatchLane
  BY DEF Ops, ButtonOps, WatchOps, WatchLane
<1>5. ButtonInv'
  BY <1>3, <1>4 DEF ButtonInv, Busy, LaneInv, Quiet
<1>6. WatchInv'
  BY <1>3, <1>4 DEF WatchInv, Busy, WatchBusy, LaneInv, Quiet
<1>7. LoadInv'
  BY <1>3, <1>4 DEF LoadInv, Busy, WatchBusy, LaneInv, Quiet
<1>8. FreshInv'
  <2>1. SUFFICES ASSUME reloads = 0 PROVE FreshInv'
    BY DEF FreshInv, ServerStays
  <2>2. \A x \in Ops : calls'[x].at # "orphan"
    BY <1>1, <1>3, <2>1 DEF FreshInv, LaneInv, Turn
  <2>3. QED BY <1>3, <1>4, <2>1, <2>2 DEF FreshInv, LaneInv, ServerStays, Busy, WatchBusy
<1>9. QED BY <1>2, <1>5, <1>6, <1>7, <1>8 DEF LaneInv

LEMMA ButtonTurnKeeps ==
  ASSUME LaneInv, ServerStays, NEW op \in ButtonOps, NEW call, ButtonTurn(op, call)
  PROVE  LaneInv'
<1>1. Turn(op, call) /\ call.at \in {"idle", "sent"} /\ op \in Ops /\ op # "poll"
  BY DEF ButtonTurn, ButtonOps, Ops
<1>2. CallsInv'
  BY <1>1, TurnKeepsCalls DEF LaneInv
<1>3. \A x \in Ops \ {op, "poll"} : calls'[x] = calls[x]
  BY <1>1 DEF Turn
<1>4. calls'[op] = call
  BY <1>1 DEF Turn
<1>5. /\ ButtonOps \subseteq Ops \ {"poll"} /\ WatchLane \subseteq Ops \ {op, "poll"}
      /\ "load" \in WatchLane
  BY DEF Ops, ButtonOps, WatchOps, WatchLane
<1>6. \A x \in ButtonOps \ {op} : ~Busy(x)
  BY DEF ButtonTurn, LaneInv, ButtonInv
<1>7. ButtonInv'
  <2>1. \A x \in ButtonOps \ {op} : ~Busy(x)'
    BY <1>3, <1>5, <1>6 DEF Busy
  <2>2. Busy(op)' <=> call.at = "sent"
    BY <1>1, <1>4 DEF Busy
  <2>3. QED BY <2>1, <2>2 DEF ButtonInv, ButtonTurn
<1>8. WatchInv'
  BY <1>3, <1>5 DEF WatchInv, Busy, WatchBusy, LaneInv, ButtonTurn
<1>9. LoadInv'
  BY <1>3, <1>5 DEF LoadInv, Busy, WatchBusy, LaneInv, ButtonTurn
<1>10. FreshInv'
  <2>1. SUFFICES ASSUME reloads = 0 PROVE FreshInv'
    BY DEF FreshInv, ServerStays
  <2>2. \A x \in Ops : calls'[x].at # "orphan"
    BY <1>1, <1>3, <2>1 DEF FreshInv, LaneInv, Turn, Idle
  <2>3. \A x \in ButtonOps : calls'[x].at = "answered" => calls'[x] = calls[x]
    BY <1>1, <1>3, <1>4, <1>5
  <2>4. QED BY <1>3, <1>5, <2>1, <2>2, <2>3 DEF FreshInv, LaneInv, ServerStays, Busy, WatchBusy
<1>11. QED BY <1>2, <1>7, <1>8, <1>9, <1>10 DEF LaneInv

LEMMA WatchTurnKeeps ==
  ASSUME LaneInv, ServerStays, NEW op \in WatchLane, NEW call, WatchTurn(op, call)
  PROVE  LaneInv'
<1>1. Turn(op, call) /\ call.at \in {"idle", "sent"} /\ op \in Ops /\ op # "poll"
  BY DEF WatchTurn, WatchLane, WatchOps, Ops
<1>2. CallsInv'
  BY <1>1, TurnKeepsCalls DEF LaneInv
<1>3. \A x \in Ops \ {op, "poll"} : calls'[x] = calls[x]
  BY <1>1 DEF Turn
<1>4. calls'[op] = call
  BY <1>1 DEF Turn
<1>5. /\ WatchLane \subseteq Ops \ {"poll"} /\ ButtonOps \subseteq Ops \ {op, "poll"}
      /\ "load" \in WatchLane
  BY DEF Ops, ButtonOps, WatchOps, WatchLane
<1>6. \A x \in WatchLane \ {op} : ~WatchBusy(x)
  BY DEF WatchTurn, LaneInv, WatchInv
<1>7. WatchInv'
  <2>1. \A x \in WatchLane \ {op} : ~WatchBusy(x)'
    BY <1>3, <1>5, <1>6 DEF Busy, WatchBusy
  <2>2. WatchBusy(op)' <=> call.at = "sent"
    BY <1>1, <1>4 DEF Busy, WatchBusy, WatchTurn
  <2>3. QED BY <2>1, <2>2 DEF WatchInv, WatchTurn
<1>8. ButtonInv'
  BY <1>3, <1>5 DEF ButtonInv, Busy, LaneInv, WatchTurn
<1>9. LoadInv'
  <2>1. CASE op = "load"
    BY <1>1, <1>4, <2>1 DEF LoadInv, Busy, WatchBusy, WatchTurn
  <2>2. CASE op # "load"
    BY <1>3, <1>5, <2>2 DEF LoadInv, Busy, WatchBusy, LaneInv, WatchTurn
  <2>3. QED BY <2>1, <2>2
<1>10. FreshInv'
  <2>1. SUFFICES ASSUME reloads = 0 PROVE FreshInv'
    BY DEF FreshInv, ServerStays
  <2>2. \A x \in Ops : calls'[x].at # "orphan"
    BY <1>1, <1>3, <2>1 DEF FreshInv, LaneInv, Turn, Idle
  <2>3. \A x \in WatchLane : calls'[x].at = "answered" => calls'[x] = calls[x]
    BY <1>1, <1>3, <1>4, <1>5
  <2>4. QED BY <1>3, <1>5, <2>1, <2>2, <2>3 DEF FreshInv, LaneInv, ServerStays, Busy, WatchBusy
<1>11. QED BY <1>2, <1>7, <1>8, <1>9, <1>10 DEF LaneInv

-----------------------------------------------------------------------------
(* The page.                                                               *)

\* The component shows u: only the timer of its polling effect may be another one.
Shows(u) ==
  /\ ui' \in Pages
  /\ ui'.phase = u.phase /\ ui'.csrf = u.csrf /\ ui'.tokenConfigured = u.tokenConfigured
  /\ ui'.token = u.token /\ ui'.session = u.session /\ ui'.bootstrap = u.bootstrap
  /\ ui'.candidates = u.candidates /\ ui'.drafts = u.drafts /\ ui'.items = u.items
  /\ ui'.view = u.view /\ ui'.offer = u.offer /\ ui'.job = u.job
  /\ ui'.watch = u.watch /\ ui'.watchLoading = u.watchLoading /\ ui'.watchError = u.watchError
  /\ ui'.pending = u.pending
  /\ ui'.timer = "armed" => ui'.job # NoJob

LEMMA RenderShows ==
  ASSUME NEW u \in Pages, NEW cs, NEW j \in BOOLEAN, Render(u, cs, j), DOMAIN cs = Ops,
         u.timer = "armed" => u.job # NoJob \/ j
  PROVE  /\ Shows(u)
         /\ DOMAIN calls' = Ops
         /\ \A x \in Ops \ {"poll"} : calls'[x] = cs[x]
         /\ calls'["poll"] \in {cs["poll"], Idle}
<1>1. "poll" \in Ops
  BY DEF Ops
<1>2. Armed(u) \in {"off", "armed"} /\ (Armed(u) = "armed" => u.job # NoJob)
  BY DEF Armed
<1>3. CASE Rerun(u, j)
  <2>1. ui' = [u EXCEPT !.timer = Armed(u)] /\ calls' = [cs EXCEPT !["poll"] = Idle]
    BY <1>3 DEF Render
  <2>2. ui' \in Pages
    BY <1>2, <2>1 DEF Pages
  <2>3. Shows(u)
    BY <1>2, <2>1, <2>2 DEF Pages, Shows
  <2>4. QED BY <1>1, <2>1, <2>3
<1>4. CASE ~Rerun(u, j)
  <2>1. ui' = u /\ calls' = cs /\ ~j
    BY <1>4 DEF Render, Rerun
  <2>2. QED BY <2>1 DEF Shows
<1>5. QED BY <1>3, <1>4

LEMMA RenderQuiet ==
  ASSUME Inv, NEW u \in Pages, Render(u, calls, FALSE), u.timer = "armed" => u.job # NoJob,
         u.pending = ui.pending, u.watchLoading = ui.watchLoading,
         u.phase = "loading" <=> ui.phase = "loading"
  PROVE  /\ Shows(u) /\ Quiet /\ calls'["apply"] = calls["apply"]
         /\ calls'["findVideos"] = calls["findVideos"]
<1>1. /\ DOMAIN calls = Ops /\ "poll" \in Ops
      /\ "apply" \in Ops \ {"poll"} /\ "findVideos" \in Ops \ {"poll"}
  BY DEF Inv, TypeInv, Ops, ButtonOps
<1>2. /\ Shows(u) /\ DOMAIN calls' = Ops
      /\ \A x \in Ops \ {"poll"} : calls'[x] = calls[x]
      /\ calls'["poll"] \in {calls["poll"], Idle}
  BY <1>1, RenderShows
<1>3. CallOK("poll", calls'["poll"], disk, srv)
  BY <1>1, <1>2 DEF Inv, LaneInv, CallsInv, CallOK, Idle
<1>4. Turn("poll", calls'["poll"])
  BY <1>2, <1>3 DEF Turn
<1>5. calls'["poll"] = calls["poll"] \/ calls'["poll"].at \in {"idle", "sent"}
  BY <1>2 DEF Idle
<1>6. QED BY <1>1, <1>2, <1>4, <1>5 DEF Quiet, Shows

LEMMA RenderTurn ==
  ASSUME Inv, NEW u \in Pages, NEW op \in Ops \ {"poll"}, NEW call, NEW j \in BOOLEAN,
         Render(u, [calls EXCEPT ![op] = call], j), CallOK(op, call, disk, srv),
         u.timer = "armed" => u.job # NoJob \/ j
  PROVE  Shows(u) /\ Turn(op, call)
<1> DEFINE cs == [calls EXCEPT ![op] = call]
<1>1. DOMAIN calls = Ops /\ DOMAIN cs = Ops
  BY DEF Inv, TypeInv
<1>2. /\ Shows(u) /\ DOMAIN calls' = Ops
      /\ \A x \in Ops \ {"poll"} : calls'[x] = cs[x]
      /\ calls'["poll"] \in {cs["poll"], Idle}
  BY <1>1, RenderShows
<1>3. Turn(op, call)
  BY <1>1, <1>2 DEF Turn, Ops
<1>4. QED BY <1>2, <1>3

\* Parts of the invariant that a step leaves alone.
LEMMA SelectionStays ==
  ASSUME SelectionDiscovered, ui'.candidates = ui.candidates, ui'.drafts = ui.drafts,
         ui'.phase = "select" => ui.phase = "select",
         calls'["apply"] = calls["apply"] \/ calls'["apply"].at \notin {"sent", "answered"}
  PROVE  SelectionDiscovered'
<1>1. "apply" \in UnderWay(Ops)' => "apply" \in UnderWay(Ops) /\ calls'["apply"] = calls["apply"]
  BY DEF UnderWay
<1>2. QED BY <1>1 DEF SelectionDiscovered

LEMMA SearchStays ==
  ASSUME SearchInv, ui'.phase = "select" => ui.phase = "select",
         \/ calls'["findVideos"] = calls["findVideos"]
         \/ calls'["findVideos"].at \notin {"sent", "answered"}
  PROVE  SearchInv'
BY DEF SearchInv, Busy

LEMMA PairingStays ==
  ASSUME ReloadKeepsPairing, store' = store, ui'.session = ui.session,
         ui'.bootstrap = ui.bootstrap, ui'.phase # "loading" => ui.phase # "loading"
  PROVE  ReloadKeepsPairing'
BY DEF ReloadKeepsPairing, auth

LEMMA PanelStays ==
  ASSUME PanelHonest, disk' = disk, reloads' = reloads, ui'.watch = ui.watch,
         ui'.watchLoading = ui.watchLoading, ui'.watchError = ui.watchError
  PROVE  PanelHonest'
BY DEF PanelHonest

\* A draft that the user sets.
LEMMA SetDraftKeeps ==
  ASSUME Inv, ServerStays, store' = store, NEW o \in ui.candidates, NEW media,
         media \in MovieDrafts \cup EpisodeDrafts \cup {None},
         ui.phase = "select", SetDraft(o, media),
         media # None /\ ui.drafts[o] = None => Cardinality(Chosen(ui.drafts)) < MaxItems
  PROVE  Inv'
<1> DEFINE drafts == [ui.drafts EXCEPT ![o] = media]
           u == [ui EXCEPT !.drafts = drafts]
<1>1. /\ PageOK(ui, disk, srv) /\ ui \in Pages /\ ui.drafts \in Drafts /\ o \in Objects
      /\ drafts \in Drafts
  BY DEF Inv, TypeInv, PageOK, Pages, Drafts
<1>2. Render(u, calls, FALSE)
  BY DEF SetDraft
<1> HIDE DEF drafts
<1>3. /\ u \in Pages /\ u.drafts = drafts /\ u.timer = ui.timer /\ u.job = ui.job
      /\ u.pending = ui.pending /\ u.watchLoading = ui.watchLoading /\ u.phase = ui.phase
      /\ u.csrf = ui.csrf /\ u.items = ui.items /\ u.candidates = ui.candidates
      /\ u.session = ui.session /\ u.bootstrap = ui.bootstrap
      /\ u.watch = ui.watch /\ u.watchError = ui.watchError
  BY <1>1 DEF Pages
<1> HIDE DEF u
<1>4. /\ Shows(u) /\ Quiet /\ calls'["apply"] = calls["apply"]
      /\ calls'["findVideos"] = calls["findVideos"]
  BY <1>1, <1>2, <1>3, RenderQuiet DEF PageOK
<1>5. LaneInv'
  BY <1>4, QuietKeeps DEF Inv
<1>6. TypeInv'
  BY <1>1, <1>3, <1>4 DEF Inv, TypeInv, PageOK, Shows, Quiet, Turn, ServerStays
<1>7. Chosen(drafts) \subseteq Chosen(ui.drafts) \cup {o}
  BY <1>1 DEF Chosen, drafts, Drafts
<1>8. Cardinality(Chosen(drafts)) <= MaxItems
  <2>1. Fits(ui.drafts)
    BY DEF Inv, SelectionDiscovered, Fits
  <2>2. CASE media = None \/ ui.drafts[o] # None
    <3>1. Chosen(drafts) \subseteq Chosen(ui.drafts)
      BY <1>1, <2>2 DEF Chosen, drafts, Drafts
    <3>2. QED BY <2>1, <3>1, FewerFit DEF Fits
  <2>3. CASE media # None /\ ui.drafts[o] = None
    <3>1. o \notin Chosen(ui.drafts)
      BY <2>3 DEF Chosen
    <3>2. Cardinality(Chosen(ui.drafts) \cup {o}) = Cardinality(Chosen(ui.drafts)) + 1
      BY <3>1, ChosenFinite, FS_AddElement
    <3>3. IsFiniteSet(Chosen(ui.drafts) \cup {o})
      BY ChosenFinite, FS_AddElement
    <3>4. Cardinality(Chosen(drafts)) <= Cardinality(Chosen(ui.drafts) \cup {o})
      BY <1>7, <3>3, FS_Subset
    <3>5. QED BY <2>3, <3>2, <3>4, ChosenFinite, ServerAssumption
  <2>4. QED BY <2>2, <2>3
<1>9. SelectionDiscovered'
  BY <1>3, <1>4, <1>7, <1>8 DEF SelectionDiscovered, Shows, Inv, UnderWay
<1>10. ReloadKeepsPairing'
  BY <1>3, <1>4, PairingStays DEF Inv, Shows
<1>11. PanelHonest'
  BY <1>3, <1>4, PanelStays DEF Inv, Shows, ServerStays
<1>12. SearchInv'
  BY <1>3, <1>4, SearchStays DEF Inv, Shows
<1>13. QED BY <1>5, <1>6, <1>9, <1>10, <1>11, <1>12 DEF Inv

LEMMA ClickStays ==
  ASSUME NEW kind, Click(kind)
  PROVE  ServerStays /\ store' = store
BY DEF Click, ServerStays, serverVars

LEMMA AwaitStays ==
  ASSUME NEW op, NEW path, Await(op, path)
  PROVE  ServerStays
BY DEF Await, ServerStays, serverVars, userVars

\* The user edits the drafts.
LEMMA DraftsKeep ==
  ASSUME Inv, NEW o \in Objects, toggle(o) \/ updateDraft(o) \/ replaceDraft(o)
  PROVE  Inv'
<1>1. /\ ServerStays /\ store' = store
  BY ClickStays DEF toggle, updateDraft, replaceDraft
<1>2. ui.phase = "select"
  BY DEF toggle, updateDraft, replaceDraft, SelectPanel
<1>3. Chosen(ui.drafts) \subseteq ui.candidates
  BY DEF Inv, SelectionDiscovered
<1>4. NameOf[o] \in Media /\ Media \subseteq MovieDrafts \cup EpisodeDrafts
  BY ConsoleAssumption DEF Media, MovieDrafts, EpisodeDrafts
<1>5. CASE toggle(o)
  <2>1. CASE ui.drafts[o] # None /\ SetDraft(o, None)
    BY <1>1, <1>2, <1>5, <2>1, SetDraftKeeps DEF toggle
  <2>2. CASE Cardinality(Chosen(ui.drafts)) < MaxItems /\ SetDraft(o, suggestDraft(o))
    BY <1>1, <1>2, <1>4, <1>5, <2>2, SetDraftKeeps DEF toggle, suggestDraft
  <2>3. QED BY <1>5, <2>1, <2>2 DEF toggle
<1>6. CASE updateDraft(o)
  <2>1. PICK media \in MovieDrafts \cup EpisodeDrafts : SetDraft(o, media)
    BY <1>6 DEF updateDraft
  <2>2. ui.drafts[o] # None /\ o \in ui.candidates
    BY <1>3, <1>6 DEF updateDraft, Chosen
  <2>3. QED BY <1>1, <1>2, <2>1, <2>2, SetDraftKeeps
<1>7. CASE replaceDraft(o)
  <2>1. PICK type \in {"movie", "episode"} : SetDraft(o, suggestDraftAs(o, type))
    BY <1>7 DEF replaceDraft
  <2>2. suggestDraftAs(o, type) \in MovieDrafts \cup EpisodeDrafts
    BY <1>4 DEF suggestDraftAs, MovieDrafts, EpisodeDrafts
  <2>3. ui.drafts[o] # None /\ o \in ui.candidates
    BY <1>7 DEF replaceDraft
  <2>4. QED BY <1>1, <1>2, <2>1, <2>2, <2>3, SetDraftKeeps
<1>8. QED BY <1>5, <1>6, <1>7

\* u differs from what is shown in the forms, or goes back to the credentials.
Leaves(u) ==
  /\ u.candidates = ui.candidates /\ u.drafts = ui.drafts /\ u.items = ui.items
  /\ u.job = ui.job /\ u.timer = ui.timer /\ u.session = ui.session
  /\ u.bootstrap = ui.bootstrap /\ u.csrf = ui.csrf
  /\ u.watch = ui.watch /\ u.watchLoading = ui.watchLoading /\ u.watchError = ui.watchError
  /\ u.phase = ui.phase \/ u.phase = "credentials"

\* A click that sends nothing and leaves the selection, the manifest and the job.
LEMMA QuietClick ==
  ASSUME Inv, ServerStays, store' = store, NEW u \in Pages, Render(u, calls, FALSE), Leaves(u),
         u.pending = ui.pending, ui.phase # "loading"
  PROVE  Inv'
<1>1. PageOK(ui, disk, srv)
  BY DEF Inv, TypeInv
<1>2. /\ Shows(u) /\ Quiet /\ calls'["apply"] = calls["apply"]
      /\ calls'["findVideos"] = calls["findVideos"]
  BY <1>1, RenderQuiet DEF PageOK, Leaves
<1>3. LaneInv'
  BY <1>2, QuietKeeps DEF Inv
<1>4. TypeInv'
  BY <1>1, <1>2 DEF Inv, Leaves, TypeInv, PageOK, Shows, Quiet, Turn, ServerStays
<1>5. SelectionDiscovered'
  BY <1>2, SelectionStays DEF Inv, Leaves, Shows
<1>6. ReloadKeepsPairing'
  BY <1>2, PairingStays DEF Inv, Leaves, Shows
<1>7. PanelHonest'
  BY <1>2, PanelStays DEF Inv, Leaves, Shows, ServerStays
<1>8. SearchInv'
  BY <1>2, SearchStays DEF Inv, Leaves, Shows
<1>9. QED BY <1>3, <1>4, <1>5, <1>6, <1>7, <1>8 DEF Inv

LEMMA QuietClicksKeep ==
  ASSUME Inv, TypeToken \/ Back \/ ReplaceToken \/ CloseAcquisition \/ ChangeProwlarr
  PROVE  Inv'
<1>1. ui \in Pages
  BY DEF Inv, TypeInv, PageOK
<1>2. CASE TypeToken
  <2>1. PICK t \in Tokens : Render([ui EXCEPT !.token = t], calls, FALSE)
    BY <1>2 DEF TypeToken
  <2>2. /\ [ui EXCEPT !.token = t] \in Pages
        /\ Leaves([ui EXCEPT !.token = t])
        /\ [ui EXCEPT !.token = t].pending = ui.pending
    BY <1>1 DEF Pages, Leaves
  <2>3. ServerStays /\ store' = store /\ ui.phase # "loading"
    BY <1>2, ClickStays DEF TypeToken
  <2>4. QED BY <2>1, <2>2, <2>3, QuietClick
<1>3. CASE Back
  <2>1. /\ [ui EXCEPT !.phase = "credentials"] \in Pages
        /\ Leaves([ui EXCEPT !.phase = "credentials"])
        /\ [ui EXCEPT !.phase = "credentials"].pending = ui.pending
    BY <1>1 DEF Pages, Leaves
  <2>2. ServerStays /\ store' = store /\ ui.phase # "loading"
    BY <1>3, ClickStays DEF Back, SelectPanel
  <2>3. QED BY <1>3, <2>1, <2>2, QuietClick DEF Back
<1>4. CASE ReplaceToken
  <2> DEFINE u == [ui EXCEPT !.phase = "credentials", !.token = None]
  <2>1. u \in Pages /\ Leaves(u) /\ u.pending = ui.pending
    BY <1>1 DEF Pages, Leaves
  <2>2. ServerStays /\ store' = store /\ ui.phase # "loading"
    BY <1>4, ClickStays DEF ReplaceToken, ReadyCard
  <2>3. QED BY <1>4, <2>1, <2>2, QuietClick DEF ReplaceToken
<1>5. CASE CloseAcquisition
  <2>1. /\ [ui EXCEPT !.view = "closed"] \in Pages
        /\ Leaves([ui EXCEPT !.view = "closed"])
        /\ [ui EXCEPT !.view = "closed"].pending = ui.pending
    BY <1>1 DEF Pages, Leaves
  <2>2. ServerStays /\ store' = store /\ ui.phase # "loading"
    BY <1>5, ClickStays DEF CloseAcquisition, ReadyCard
  <2>3. QED BY <1>5, <2>1, <2>2, QuietClick DEF CloseAcquisition
<1>6. CASE ChangeProwlarr
  <2>1. /\ [ui EXCEPT !.view = "settings"] \in Pages
        /\ Leaves([ui EXCEPT !.view = "settings"])
        /\ [ui EXCEPT !.view = "settings"].pending = ui.pending
    BY <1>1 DEF Pages, Leaves
  <2>2. ServerStays /\ store' = store /\ ui.phase # "loading"
    BY <1>6, ClickStays DEF ChangeProwlarr, SearchForm, ReadyCard
  <2>3. QED BY <1>6, <2>1, <2>2, QuietClick DEF ChangeProwlarr
<1>7. QED BY <1>2, <1>3, <1>4, <1>5, <1>6

-----------------------------------------------------------------------------
(* Answers.                                                                *)

\* An answer that a handler takes for good is the server's, and it is recognized.
LEMMA ResultGood ==
  ASSUME NEW call, NEW r \in Results(call), r.ok
  PROVE  r = call.ans /\ Recognized(call.request.path, r)
BY DEF Results, readJSON, Error

LEMMA AnswerGood ==
  ASSUME CallsInv, NEW op \in Ops, NEW path, Await(op, path), NEW r \in Results(calls[op]), r.ok
  PROVE  /\ r = calls[op].ans /\ Recognized(path, r) /\ GoodAnswer(path, r, disk, srv)
         /\ Busy(op) /\ GoodHeld(op, calls[op].held)
<1>1. calls[op].at = "answered" /\ calls[op].request.path = path
  BY DEF Await
<1>2. CallOK(op, calls[op], disk, srv)
  BY DEF CallsInv
<1>3. QED BY <1>1, <1>2, ResultGood DEF CallOK, Busy

-----------------------------------------------------------------------------
(* The buttons.                                                            *)

\* A button starts a request and leaves the rest of the page.
LEMMA PressKeeps ==
  ASSUME Inv, ServerStays, store' = store, NEW op \in ButtonOps, ~ui.pending,
         ui.phase # "loading", NEW u \in Pages, Leaves(u), u.pending,
         NEW call, call.at = "sent", CallOK(op, call, disk, srv),
         Render(u, [calls EXCEPT ![op] = call], FALSE),
         op = "findVideos" => ui.phase # "select",
         op = "apply" => Chosen(call.request.items) \subseteq ui.candidates
  PROVE  Inv'
<1>1. PageOK(ui, disk, srv) /\ op \in Ops \ {"poll"} /\ "apply" \in Ops \ {"poll"}
  BY DEF Inv, TypeInv, ButtonOps, Ops
<1>2. Shows(u) /\ Turn(op, call)
  BY <1>1, RenderTurn DEF PageOK, Leaves
<1>3. ButtonTurn(op, call)
  BY <1>2 DEF ButtonTurn, Shows, Leaves
<1>4. LaneInv'
  BY <1>3, ButtonTurnKeeps DEF Inv
<1>5. TypeInv'
  BY <1>1, <1>2 DEF Inv, TypeInv, PageOK, Shows, Turn, ServerStays, Leaves
<1>6. SelectionDiscovered'
  <2>1. CASE op # "apply"
    <3>1. calls'["apply"] = calls["apply"]
      BY <1>1, <1>2, <2>1 DEF Turn
    <3>2. QED BY <1>2, <3>1, SelectionStays DEF Inv, Shows, Leaves
  <2>2. CASE op = "apply"
    <3>1. calls'["apply"] = call
      BY <1>2, <2>2 DEF Turn
    <3>2. /\ ui'.candidates = ui.candidates /\ ui'.drafts = ui.drafts
          /\ ui'.phase = "select" => ui.phase = "select"
      BY <1>2 DEF Shows, Leaves
    <3>3. QED BY <2>2, <3>1, <3>2 DEF Inv, SelectionDiscovered
  <2>3. QED BY <2>1, <2>2
<1>7. ReloadKeepsPairing'
  BY <1>2, PairingStays DEF Inv, Shows, Leaves
<1>8. PanelHonest'
  BY <1>2, PanelStays DEF Inv, Shows, ServerStays, Leaves
<1>9. SearchInv'
  <2>1. CASE op = "findVideos"
    BY <1>2, <2>1 DEF SearchInv, Shows, Leaves
  <2>2. CASE op # "findVideos"
    <3>1. "findVideos" \in Ops \ {op, "poll"}
      BY <2>2 DEF Ops, ButtonOps
    <3>2. calls'["findVideos"] = calls["findVideos"]
      BY <1>2, <3>1 DEF Turn
    <3>3. QED BY <1>2, <3>2, SearchStays DEF Inv, Shows, Leaves
  <2>3. QED BY <2>1, <2>2
<1>10. QED BY <1>4, <1>5, <1>6, <1>7, <1>8, <1>9 DEF Inv

\* What the page may go on to show when a button's request has ended.
Acceptable(u) ==
  /\ u \in Pages
  /\ u.csrf <= srv.csrf
  /\ Fits(u.items)
  /\ u.job # NoJob => u.job.id \in DOMAIN disk.jobs
  /\ Chosen(u.drafts) \subseteq u.candidates /\ Fits(u.drafts)
  /\ u.phase = "select" => u.candidates # {}
  /\ u.phase # "loading"
  /\ u.watch = ui.watch /\ u.watchLoading = ui.watchLoading /\ u.watchError = ui.watchError

PairsWith(u) == store' = [session |-> u.session, bootstrap |-> u.bootstrap]

\* A handler that has an answer ends, or goes on to its next request.
LEMMA AnswerKeeps ==
  ASSUME Inv, ServerStays, NEW op \in ButtonOps, Busy(op),
         NEW u, Shows(u), Acceptable(u), PairsWith(u),
         NEW call, Turn(op, call), call.at \in {"idle", "sent"}, u.pending <=> call.at = "sent",
         call.at = "sent" => op \notin {"apply", "findVideos"}
  PROVE  Inv'
<1>1. op \in Ops /\ op # "poll"
  BY DEF ButtonOps, Ops
<1>2. ui.phase # "loading"
  BY DEF Inv, LaneInv, ButtonInv, LoadInv
<1>3. ButtonTurn(op, call)
  BY <1>2 DEF ButtonTurn, Shows, Acceptable
<1>4. LaneInv'
  BY <1>3, ButtonTurnKeeps DEF Inv
<1>5. store' \in Authorizations
  BY DEF Acceptable, Pages, PairsWith, Authorizations
<1>6. TypeInv'
  BY <1>5 DEF Inv, TypeInv, PageOK, Shows, Turn, ServerStays, Acceptable
<1>7. \A x \in {"apply", "findVideos"} : ~Busy(x)'
  <2>1. TAKE x \in {"apply", "findVideos"}
  <2>2. x \in ButtonOps /\ x \in Ops \ {"poll"}
    BY DEF ButtonOps, Ops
  <2>3. CASE op = x
    BY <2>3 DEF Busy, Turn
  <2>4. CASE op # x
    <3>1. ~Busy(x)
      BY <2>2, <2>4 DEF Inv, LaneInv, ButtonInv
    <3>2. calls'[x] = calls[x]
      BY <2>2, <2>4 DEF Turn
    <3>3. QED BY <3>1, <3>2 DEF Busy
  <2>5. QED BY <2>3, <2>4
<1>8. SelectionDiscovered'
  BY <1>7 DEF SelectionDiscovered, Acceptable, Shows, UnderWay, Busy, Fits
<1>9. ReloadKeepsPairing'
  BY DEF ReloadKeepsPairing, auth, PairsWith, Shows
<1>10. PanelHonest'
  BY PanelStays DEF Inv, Shows, ServerStays, Acceptable
<1>11. SearchInv'
  BY <1>7 DEF SearchInv
<1>12. QED BY <1>4, <1>6, <1>8, <1>9, <1>10, <1>11 DEF Inv

\* The page as it is while a button's request is under way.
LEMMA PageWhileBusy ==
  ASSUME Inv, NEW op \in ButtonOps, Busy(op)
  PROVE  /\ Acceptable(ui) /\ ui.pending /\ store = auth
         /\ ui.timer = "armed" => ui.job # NoJob
<1>1. ui.pending /\ ui.phase # "loading"
  BY DEF Inv, LaneInv, ButtonInv, LoadInv
<1>2. store = auth
  BY <1>1 DEF Inv, ReloadKeepsPairing
<1>3. Acceptable(ui)
  BY <1>1 DEF Inv, TypeInv, PageOK, SelectionDiscovered, Acceptable, Fits
<1>4. QED BY <1>1, <1>2, <1>3 DEF Inv, TypeInv, PageOK

LEMMA AdoptPairs ==
  ASSUME store = auth, NEW session, Adopt(session)
  PROVE  store' = [session |-> session, bootstrap |-> ui.bootstrap]
BY DEF auth, Adopt

\* The handler of op ends, showing u.
LEMMA EndKeeps ==
  ASSUME Inv, ServerStays, NEW op \in ButtonOps, Busy(op),
         NEW u, NEW j \in BOOLEAN, Render(u, End(op), j), Acceptable(u), PairsWith(u),
         ~u.pending, u.timer = "armed" => u.job # NoJob \/ j
  PROVE  Inv'
<1>1. CallOK(op, Idle, disk, srv) /\ Idle.at = "idle"
  BY DEF CallOK, Idle
<1>2. op \in Ops \ {"poll"} /\ u \in Pages
  BY DEF ButtonOps, Ops, Acceptable
<1>3. Shows(u) /\ Turn(op, Idle)
  BY <1>1, <1>2, RenderTurn DEF End
<1>4. QED BY <1>1, <1>3, AnswerKeeps

\* A page whose buttons are disabled.
LEMMA Pressed ==
  ASSUME Inv
  PROVE  /\ [ui EXCEPT !.pending = TRUE] \in Pages
         /\ Leaves([ui EXCEPT !.pending = TRUE])
         /\ [ui EXCEPT !.pending = TRUE].pending
<1>1. ui \in Pages
  BY DEF Inv, TypeInv, PageOK
<1>2. QED BY <1>1 DEF Pages, Leaves

LEMMA FindVideosKeeps ==
  ASSUME Inv, NEW useSavedToken \in BOOLEAN, findVideos(useSavedToken)
  PROVE  Inv'
<1> DEFINE u == [ui EXCEPT !.pending = TRUE]
           call == SentHolding(
                     discoverMedia(IF useSavedToken THEN None ELSE ui.token, ui.csrf, auth),
                     [useSaved |-> useSavedToken, selected |-> ui.items])
<1>1. PageOK(ui, disk, srv)
  BY DEF Inv, TypeInv
<1>2. ServerStays /\ store' = store
  BY ClickStays DEF findVideos
<1>3. /\ ~ui.pending /\ ui.phase \notin {"loading", "select"}
      /\ Render(u, [calls EXCEPT !["findVideos"] = call], FALSE)
  BY DEF findVideos, Press, ReadyCard
<1>4. CallOK("findVideos", call, disk, srv) /\ call.at = "sent"
  BY <1>1 DEF SentHolding, discoverMedia, CallOK, PathsOf, GoodRequest, GoodHeld, PageOK, Pages
<1>5. u \in Pages /\ Leaves(u) /\ u.pending
  BY Pressed
<1>6. "findVideos" \in ButtonOps /\ "findVideos" # "apply"
  BY DEF ButtonOps
<1> HIDE DEF u, call
<1>7. QED BY <1>2, <1>3, <1>4, <1>5, <1>6, PressKeeps

LEMMA ApplyKeeps ==
  ASSUME Inv, apply
  PROVE  Inv'
<1> DEFINE u == [ui EXCEPT !.pending = TRUE]
           call == Sent(applyConfiguration(ui.token, ui.drafts, ui.csrf, auth))
<1>1. PageOK(ui, disk, srv)
  BY DEF Inv, TypeInv
<1>2. ServerStays /\ store' = store
  BY ClickStays DEF apply
<1>3. ~ui.pending /\ ui.phase # "loading" /\ Render(u, [calls EXCEPT !["apply"] = call], FALSE)
  BY DEF apply, Press, SelectPanel, Begin
<1>4. ui.drafts \in Manifests
  BY <1>1 DEF apply, validDraft, PageOK, Pages, Drafts, Chosen, Manifests
<1>5. CallOK("apply", call, disk, srv) /\ call.at = "sent" /\ call.request.items = ui.drafts
  BY <1>1, <1>4 DEF Sent, SentHolding, applyConfiguration, CallOK, PathsOf, GoodRequest,
                    GoodHeld, PageOK, Pages
<1>6. Chosen(call.request.items) \subseteq ui.candidates
  BY <1>5 DEF Inv, SelectionDiscovered
<1>7. u \in Pages /\ Leaves(u) /\ u.pending
  BY Pressed
<1>8. "apply" \in ButtonOps
  BY DEF ButtonOps
<1> HIDE DEF u, call
<1>9. QED BY <1>2, <1>3, <1>5, <1>6, <1>7, <1>8, PressKeeps

LEMMA OpenAcquisitionKeeps ==
  ASSUME Inv, openAcquisition
  PROVE  Inv'
<1> DEFINE u == [ui EXCEPT !.view = "loading", !.pending = TRUE]
           call == SentHolding(getAcquisitionStatus, [csrf |-> ui.csrf, auth |-> auth])
<1>1. ServerStays /\ store' = store
  BY ClickStays DEF openAcquisition
<1>2. /\ ~ui.pending /\ ui.phase # "loading"
      /\ Render(u, [calls EXCEPT !["openAcquisition"] = call], FALSE)
  BY DEF openAcquisition, Press, ReadyCard
<1>3. CallOK("openAcquisition", call, disk, srv) /\ call.at = "sent"
  BY DEF SentHolding, getAcquisitionStatus, CallOK, PathsOf, GoodRequest, GoodHeld
<1>4. ui \in Pages
  BY DEF Inv, TypeInv, PageOK
<1>5. u \in Pages /\ Leaves(u) /\ u.pending
  BY <1>4 DEF Pages, Leaves
<1>6. "openAcquisition" \in ButtonOps /\ "openAcquisition" # "apply"
  BY DEF ButtonOps
<1> HIDE DEF u, call
<1>7. QED BY <1>1, <1>2, <1>3, <1>5, <1>6, PressKeeps

LEMMA ConnectKeeps ==
  ASSUME Inv, connectProwlarr
  PROVE  Inv'
<1> DEFINE u == [ui EXCEPT !.pending = TRUE]
           call == Sent(configureAcquisition(ui.csrf, auth))
<1>1. ServerStays /\ store' = store
  BY ClickStays DEF connectProwlarr
<1>2. /\ ~ui.pending /\ ui.phase # "loading"
      /\ Render(u, [calls EXCEPT !["connectProwlarr"] = call], FALSE)
  BY DEF connectProwlarr, Press, SettingsForm, ReadyCard, Begin
<1>3. CallOK("connectProwlarr", call, disk, srv) /\ call.at = "sent"
  BY DEF Sent, SentHolding, configureAcquisition, mutationHeaders, CallOK, PathsOf, GoodRequest,
         GoodHeld
<1>4. u \in Pages /\ Leaves(u) /\ u.pending
  BY Pressed
<1>5. "connectProwlarr" \in ButtonOps /\ "connectProwlarr" # "apply"
  BY DEF ButtonOps
<1> HIDE DEF u, call
<1>6. QED BY <1>1, <1>2, <1>3, <1>4, <1>5, PressKeeps

LEMMA AddKeeps ==
  ASSUME Inv, addRequestedMedia
  PROVE  Inv'
<1>1. PICK intent \in Intents :
        Render([ui EXCEPT !.pending = TRUE],
               [calls EXCEPT !["addRequestedMedia"] =
                  Sent(acquireMedia(intent, ui.csrf, auth))], FALSE)
  BY DEF addRequestedMedia, Begin
<1> DEFINE u == [ui EXCEPT !.pending = TRUE]
           call == Sent(acquireMedia(intent, ui.csrf, auth))
<1>2. ServerStays /\ store' = store
  BY ClickStays DEF addRequestedMedia
<1>3. /\ ~ui.pending /\ ui.phase # "loading"
      /\ Render(u, [calls EXCEPT !["addRequestedMedia"] = call], FALSE)
  BY <1>1 DEF addRequestedMedia, Press, SearchForm, ReadyCard
<1>4. CallOK("addRequestedMedia", call, disk, srv) /\ call.at = "sent"
  BY DEF Sent, SentHolding, acquireMedia, CallOK, PathsOf, GoodRequest, GoodHeld
<1>5. u \in Pages /\ Leaves(u) /\ u.pending
  BY Pressed
<1>6. "addRequestedMedia" \in ButtonOps /\ "addRequestedMedia" # "apply"
  BY DEF ButtonOps
<1> HIDE DEF u, call
<1>7. QED BY <1>2, <1>3, <1>4, <1>5, <1>6, PressKeeps

LEMMA PrepareKeeps ==
  ASSUME Inv, prepareRequestedMedia
  PROVE  Inv'
<1> DEFINE u == [ui EXCEPT !.pending = TRUE]
           call == Sent(submitJob(ui.offer, ui.csrf, auth))
<1>1. ui.offer \in Intents
  BY DEF prepareRequestedMedia, Inv, TypeInv, PageOK, Pages
<1>2. ServerStays /\ store' = store
  BY ClickStays DEF prepareRequestedMedia
<1>3. /\ ~ui.pending /\ ui.phase # "loading"
      /\ Render(u, [calls EXCEPT !["prepareRequestedMedia"] = call], FALSE)
  BY DEF prepareRequestedMedia, Press, SearchForm, ReadyCard, Begin
<1>4. CallOK("prepareRequestedMedia", call, disk, srv) /\ call.at = "sent"
  BY <1>1 DEF Sent, SentHolding, submitJob, CallOK, PathsOf, GoodRequest, GoodHeld
<1>5. u \in Pages /\ Leaves(u) /\ u.pending
  BY Pressed
<1>6. "prepareRequestedMedia" \in ButtonOps /\ "prepareRequestedMedia" # "apply"
  BY DEF ButtonOps
<1> HIDE DEF u, call
<1>7. QED BY <1>2, <1>3, <1>4, <1>5, <1>6, PressKeeps

LEMMA RefreshJobKeeps ==
  ASSUME Inv, refreshAcquisitionJob
  PROVE  Inv'
<1> DEFINE u == [ui EXCEPT !.pending = TRUE]
           call == Sent(getAcquisitionJob(ui.job.id, ui.csrf, auth))
<1>1. ui.job.id \in DOMAIN disk.jobs
  BY DEF refreshAcquisitionJob, JobCard, Inv, TypeInv, PageOK
<1>2. ServerStays /\ store' = store
  BY ClickStays DEF refreshAcquisitionJob
<1>3. /\ ~ui.pending /\ ui.phase # "loading"
      /\ Render(u, [calls EXCEPT !["refreshAcquisitionJob"] = call], FALSE)
  BY DEF refreshAcquisitionJob, Press, JobCard, ReadyCard, Begin
<1>4. CallOK("refreshAcquisitionJob", call, disk, srv) /\ call.at = "sent"
  BY <1>1 DEF Sent, SentHolding, getAcquisitionJob, CallOK, PathsOf, GoodRequest, GoodHeld
<1>5. u \in Pages /\ Leaves(u) /\ u.pending
  BY Pressed
<1>6. "refreshAcquisitionJob" \in ButtonOps /\ "refreshAcquisitionJob" # "apply"
  BY DEF ButtonOps
<1> HIDE DEF u, call
<1>7. QED BY <1>2, <1>3, <1>4, <1>5, <1>6, PressKeeps

\* The drafts that a discovery starts from were found, and are no more than the manifest.
LEMMA KeptDraftsGood ==
  ASSUME NEW held, GoodHeld("findVideos", held), NEW candidates \in SUBSET Objects
  PROVE  /\ keptDrafts(held, candidates) \in Drafts
         /\ Chosen(keptDrafts(held, candidates)) \subseteq candidates
         /\ Fits(keptDrafts(held, candidates))
<1> DEFINE kept == keptDrafts(held, candidates)
<1>1. held.selected \in WireManifests /\ Fits(held.selected)
  BY DEF GoodHeld
<1>2. \A m \in Media \cup {"seasonless", None} :
        draftOf(m) \in MovieDrafts \cup EpisodeDrafts \cup {None} /\ (draftOf(m) = None <=> m = None)
  BY DEF draftOf, Media, MovieDrafts, EpisodeDrafts, None
<1>3. \A o \in Objects : held.selected[o] \in Media \cup {"seasonless", None}
  BY <1>1 DEF WireManifests
<1>4. kept \in Drafts
  BY <1>2, <1>3 DEF keptDrafts, Drafts
<1>5. Chosen(kept) \subseteq candidates
  BY DEF keptDrafts, Chosen
<1>6. Chosen(kept) \subseteq Chosen(held.selected)
  BY <1>2, <1>3 DEF keptDrafts, Chosen
<1>7. QED BY <1>1, <1>4, <1>5, <1>6, FewerFit

LEMMA FindVideosDoneKeeps ==
  ASSUME Inv, FindVideosDone
  PROVE  Inv'
<1> DEFINE op == "findVideos"
           held == calls[op].held
<1>1. PICK r \in Results(calls[op]) :
        /\ r.ok
        /\ Render([ui EXCEPT !.pending = FALSE, !.session = r.session,
                     !.candidates = r.candidates, !.kept = held.useSaved,
                     !.drafts = keptDrafts(held, r.candidates),
                     !.phase = IF r.candidates = {} THEN @ ELSE "select"], End(op), FALSE)
        /\ Adopt(r.session)
  BY DEF FindVideosDone
<1>2. Await(op, "setup/discover") /\ op \in ButtonOps /\ op \in Ops
  BY DEF FindVideosDone, ButtonOps, Ops
<1>3. /\ Recognized("setup/discover", r) /\ Busy(op) /\ GoodHeld(op, held)
  BY <1>1, <1>2, AnswerGood DEF Inv, LaneInv
<1>4. r.candidates \in SUBSET Objects /\ r.session \in Tokens /\ held.useSaved \in BOOLEAN
  BY <1>3 DEF Recognized, isCandidateEnvelope, readSession, GoodHeld
<1> DEFINE drafts == keptDrafts(held, r.candidates)
           phase == IF r.candidates = {} THEN ui.phase ELSE "select"
           u == [ui EXCEPT !.pending = FALSE, !.session = r.session,
                   !.candidates = r.candidates, !.kept = held.useSaved,
                   !.drafts = drafts, !.phase = phase]
<1>5. drafts \in Drafts /\ Chosen(drafts) \subseteq r.candidates /\ Fits(drafts)
  BY <1>3, <1>4, KeptDraftsGood
<1>6. /\ Acceptable(ui) /\ ui \in Pages /\ store = auth /\ (ui.timer = "armed" => ui.job # NoJob)
      /\ ui.phase # "loading"
  BY <1>2, <1>3, PageWhileBusy DEF Acceptable
<1>7. Render(u, End(op), FALSE)
  BY <1>1
<1>8. phase \in {"credentials", "select", "ready"} /\ (phase = "select" => r.candidates # {})
  BY <1>3, <1>6 DEF Inv, SearchInv, Pages
<1> HIDE DEF drafts, phase
<1>9. /\ Acceptable(u) /\ u.session = r.session /\ u.bootstrap = ui.bootstrap
      /\ ~u.pending /\ (u.timer = "armed" => u.job # NoJob)
  <2>1. u \in Pages
    BY <1>4, <1>5, <1>6, <1>8 DEF Pages
  <2>2. /\ u.session = r.session /\ u.bootstrap = ui.bootstrap /\ u.pending = FALSE
        /\ u.timer = ui.timer /\ u.job = ui.job /\ u.csrf = ui.csrf /\ u.items = ui.items
        /\ u.candidates = r.candidates /\ u.drafts = drafts /\ u.phase = phase
        /\ u.watch = ui.watch /\ u.watchLoading = ui.watchLoading /\ u.watchError = ui.watchError
    BY <1>6 DEF Pages
  <2> HIDE DEF u
  <2>3. phase # "loading"
    BY <1>8
  <2>4. QED BY <1>5, <1>6, <1>8, <2>1, <2>2, <2>3 DEF Acceptable
<1>10. PairsWith(u)
  BY <1>1, <1>6, <1>9, AdoptPairs DEF PairsWith
<1>11. ServerStays
  BY <1>2, AwaitStays
<1> HIDE DEF u
<1>12. QED BY <1>2, <1>3, <1>7, <1>9, <1>10, <1>11, EndKeeps

\* u differs from what is shown in its manifest, its job and its forms, perhaps; jobSet says
\* whether the handler has set the job.
Ended(u, jobSet) ==
  /\ u \in Pages
  /\ u.candidates = ui.candidates /\ u.drafts = ui.drafts
  /\ u.bootstrap = ui.bootstrap /\ u.csrf = ui.csrf /\ u.timer = ui.timer
  /\ u.watch = ui.watch /\ u.watchLoading = ui.watchLoading /\ u.watchError = ui.watchError
  /\ u.phase \in {ui.phase, "ready"}
  /\ Fits(u.items)
  /\ IF jobSet THEN u.job # NoJob => u.job.id \in DOMAIN disk.jobs ELSE u.job = ui.job

LEMMA EndedAcceptable ==
  ASSUME Inv, NEW op \in ButtonOps, Busy(op), NEW u, NEW j \in BOOLEAN, Ended(u, j)
  PROVE  Acceptable(u) /\ (u.timer = "armed" => u.job # NoJob \/ j)
<1>1. /\ Acceptable(ui) /\ (ui.timer = "armed" => ui.job # NoJob)
  BY PageWhileBusy
<1>2. QED BY <1>1 DEF Acceptable, Ended

LEMMA DoneKeeps ==
  ASSUME Inv, ServerStays, NEW op \in ButtonOps, Busy(op), NEW u, NEW j \in BOOLEAN,
         Render(u, End(op), j), Ended(u, j), ~u.pending,
         \/ Adopt(u.session)
         \/ store' = store /\ u.session = ui.session
  PROVE  Inv'
<1>1. Acceptable(u) /\ (u.timer = "armed" => u.job # NoJob \/ j)
  BY EndedAcceptable
<1>2. store = auth
  BY PageWhileBusy
<1>3. PairsWith(u)
  <2>1. CASE Adopt(u.session)
    BY <1>2, <2>1, AdoptPairs DEF PairsWith, Ended
  <2>2. CASE store' = store /\ u.session = ui.session
    BY <1>2, <2>2 DEF PairsWith, Ended, auth
  <2>3. QED BY <2>1, <2>2
<1>4. QED BY <1>1, <1>3, EndKeeps

\* What the answers bring.
LEMMA PageTyped ==
  ASSUME Inv
  PROVE  /\ ui \in Pages /\ Fits(ui.items)
         /\ \A op \in ButtonOps : op \in Ops
BY DEF Inv, TypeInv, PageOK, ButtonOps, Ops

LEMMA ApplyDoneKeeps ==
  ASSUME Inv, ApplyDone
  PROVE  Inv'
<1>1. PICK r \in Results(calls["apply"]) :
        /\ r.ok
        /\ Render([ui EXCEPT !.pending = FALSE, !.session = r.session, !.token = None,
                     !.tokenConfigured = TRUE, !.items = r.items, !.degraded = FALSE,
                     !.phase = "ready"], End("apply"), FALSE)
        /\ Adopt(r.session)
  BY DEF ApplyDone
<1>2. Await("apply", "setup/configuration") /\ "apply" \in ButtonOps
  BY DEF ApplyDone, ButtonOps
<1>3. /\ Recognized("setup/configuration", r) /\ Busy("apply")
      /\ GoodAnswer("setup/configuration", r, disk, srv)
  BY <1>1, <1>2, PageTyped, AnswerGood DEF Inv, LaneInv
<1>4. r.items \in WireManifests /\ Fits(r.items) /\ r.session \in Tokens
  BY <1>1, <1>3 DEF GoodAnswer, Recognized, readSession
<1> DEFINE u == [ui EXCEPT !.pending = FALSE, !.session = r.session, !.token = None,
                   !.tokenConfigured = TRUE, !.items = r.items, !.degraded = FALSE,
                   !.phase = "ready"]
<1>5. u \in Pages
  BY <1>4, PageTyped DEF Pages
<1>6. Ended(u, FALSE) /\ ~u.pending /\ u.session = r.session
  BY <1>4, <1>5, PageTyped DEF Ended, Pages
<1>7. ServerStays
  BY <1>2, AwaitStays
<1>8. Render(u, End("apply"), FALSE)
  BY <1>1
<1> HIDE DEF u
<1>9. QED BY <1>1, <1>2, <1>3, <1>6, <1>7, <1>8, DoneKeeps

LEMMA ConnectDoneKeeps ==
  ASSUME Inv, ConnectDone
  PROVE  Inv'
<1>1. PICK r \in Results(calls["connectProwlarr"]) :
        /\ r.ok
        /\ Render([ui EXCEPT !.pending = FALSE, !.session = r.session, !.view = "search"],
                  End("connectProwlarr"), FALSE)
        /\ Adopt(r.session)
  BY DEF ConnectDone
<1>2. Await("connectProwlarr", "acquisition/settings") /\ "connectProwlarr" \in ButtonOps
  BY DEF ConnectDone, ButtonOps
<1>3. Recognized("acquisition/settings", r) /\ Busy("connectProwlarr")
  BY <1>1, <1>2, PageTyped, AnswerGood DEF Inv, LaneInv
<1>4. r.session \in Tokens
  BY <1>3 DEF Recognized, readSession
<1> DEFINE u == [ui EXCEPT !.pending = FALSE, !.session = r.session, !.view = "search"]
<1>5. u \in Pages
  BY <1>4, PageTyped DEF Pages
<1>6. Ended(u, FALSE) /\ ~u.pending /\ u.session = r.session
  BY <1>4, <1>5, PageTyped DEF Ended, Pages
<1>7. ServerStays
  BY <1>2, AwaitStays
<1>8. Render(u, End("connectProwlarr"), FALSE)
  BY <1>1
<1> HIDE DEF u
<1>9. QED BY <1>1, <1>2, <1>3, <1>6, <1>7, <1>8, DoneKeeps

LEMMA AddDoneKeeps ==
  ASSUME Inv, AddDone
  PROVE  Inv'
<1> DEFINE op == "addRequestedMedia"
           added(r) == [ui EXCEPT !.pending = FALSE, !.session = r.session, !.items = r.items,
                          !.degraded = FALSE, !.offer = None]
           offered == [ui EXCEPT !.pending = FALSE, !.offer = calls[op].request.intent]
<1>1. PICK r \in Results(calls[op]) :
        \/ r.ok /\ Render(added(r), End(op), FALSE) /\ Adopt(r.session)
        \/ ~r.ok /\ Render(offered, End(op), FALSE) /\ store' = store
  BY DEF AddDone
<1>2. Await(op, "acquisition/acquire") /\ op \in ButtonOps
  BY DEF AddDone, ButtonOps
<1>3. ServerStays /\ Busy(op)
  BY <1>2, AwaitStays DEF Await, Busy
<1>4. CASE r.ok /\ Render(added(r), End(op), FALSE) /\ Adopt(r.session)
  <2>1. Recognized("acquisition/acquire", r) /\ GoodAnswer("acquisition/acquire", r, disk, srv)
    BY <1>2, <1>4, PageTyped, AnswerGood DEF Inv, LaneInv
  <2>2. r.items \in WireManifests /\ Fits(r.items) /\ r.session \in Tokens
    BY <1>4, <2>1 DEF GoodAnswer, Recognized, readSession
  <2>3. added(r) \in Pages
    BY <2>2, PageTyped DEF Pages
  <2>4. Ended(added(r), FALSE) /\ ~added(r).pending /\ added(r).session = r.session
    BY <2>2, <2>3, PageTyped DEF Ended, Pages
  <2> DEFINE u == added(r)
  <2>5. /\ Ended(u, FALSE) /\ ~u.pending /\ u.session = r.session /\ Adopt(r.session)
        /\ Render(u, End(op), FALSE)
    BY <1>4, <2>4
  <2> HIDE DEF u
  <2>6. QED BY <1>2, <1>3, <2>5, DoneKeeps
<1>5. CASE ~r.ok /\ Render(offered, End(op), FALSE) /\ store' = store
  <2>1. calls[op].request.intent \in Intents
    <3>1. CallOK(op, calls[op], disk, srv)
      BY <1>2, PageTyped DEF Inv, LaneInv, CallsInv
    <3>2. QED BY <1>2, <3>1 DEF CallOK, GoodRequest, Await
  <2>2. offered \in Pages
    BY <2>1, PageTyped DEF Pages
  <2>3. Ended(offered, FALSE) /\ ~offered.pending /\ offered.session = ui.session
    BY <2>1, <2>2, PageTyped DEF Ended, Pages
  <2> HIDE DEF offered
  <2>4. QED BY <1>2, <1>3, <1>5, <2>3, DoneKeeps
<1>6. QED BY <1>1, <1>4, <1>5

LEMMA PrepareDoneKeeps ==
  ASSUME Inv, PrepareDone
  PROVE  Inv'
<1> DEFINE op == "prepareRequestedMedia"
<1>1. PICK r \in Results(calls[op]) :
        /\ r.ok
        /\ Render([ui EXCEPT !.pending = FALSE, !.session = r.session, !.job = r.job,
                     !.offer = None], End(op), TRUE)
        /\ Adopt(r.session)
  BY DEF PrepareDone
<1>2. Await(op, "acquisition/jobs") /\ op \in ButtonOps
  BY DEF PrepareDone, ButtonOps
<1>3. Recognized("acquisition/jobs", r) /\ Busy(op) /\ GoodAnswer("acquisition/jobs", r, disk, srv)
  BY <1>1, <1>2, PageTyped, AnswerGood DEF Inv, LaneInv
<1>4. r.job \in ShownJobs /\ r.job.id \in DOMAIN disk.jobs /\ r.session \in Tokens
  BY <1>1, <1>3 DEF GoodAnswer, GoodJob, Recognized, readSession
<1> DEFINE u == [ui EXCEPT !.pending = FALSE, !.session = r.session, !.job = r.job, !.offer = None]
<1>5. u \in Pages
  BY <1>4, PageTyped DEF Pages
<1>6. Ended(u, TRUE) /\ ~u.pending /\ u.session = r.session
  BY <1>4, <1>5, PageTyped DEF Ended, Pages
<1>7. ServerStays
  BY <1>2, AwaitStays
<1>8. Render(u, End(op), TRUE)
  BY <1>1
<1> HIDE DEF u
<1>9. QED BY <1>1, <1>2, <1>3, <1>6, <1>7, <1>8, DoneKeeps

\* The handler of op goes on to another request.
LEMMA GoesOnKeeps ==
  ASSUME Inv, ServerStays, store' = store, NEW op \in ButtonOps \ {"apply", "findVideos"}, Busy(op),
         NEW u, NEW j \in BOOLEAN, Shows(u), Ended(u, j), u.pending, u.session = ui.session,
         NEW call, Turn(op, call), call.at = "sent"
  PROVE  Inv'
<1>1. Acceptable(u) /\ store = auth
  BY EndedAcceptable, PageWhileBusy
<1>2. PairsWith(u)
  BY <1>1 DEF PairsWith, Ended, auth
<1>3. QED BY <1>1, <1>2, AnswerKeeps

LEMMA OpenStatusDoneKeeps ==
  ASSUME Inv, OpenStatusDone
  PROVE  Inv'
<1> DEFINE op == "openAcquisition"
           held == calls[op].held
           call(r) == SentHolding(listJobs(held.csrf, held.auth), [configured |-> r.configured])
           closed == [ui EXCEPT !.view = "closed", !.pending = FALSE]
<1>1. PICK r \in Results(calls[op]) :
        \/ calls' = [calls EXCEPT ![op] = call(r)] /\ ui' = ui
        \/ Render(closed, End(op), FALSE)
  BY DEF OpenStatusDone
<1>2. /\ Await(op, "acquisition/status") /\ store' = store
      /\ op \in ButtonOps \ {"apply", "findVideos"} /\ op \in Ops \ {"poll"}
  BY DEF OpenStatusDone, ButtonOps, Ops
<1>3. ServerStays /\ Busy(op)
  BY <1>2, AwaitStays DEF Await, Busy
<1>4. CASE calls' = [calls EXCEPT ![op] = call(r)] /\ ui' = ui
  <2>1. CallOK(op, call(r), disk, srv) /\ call(r).at = "sent"
    BY DEF SentHolding, listJobs, mutationHeaders, CallOK, PathsOf, GoodRequest, GoodHeld
  <2> DEFINE c == call(r)
  <2>2. calls' = [calls EXCEPT ![op] = c] /\ CallOK(op, c, disk, srv) /\ c.at = "sent"
    BY <1>4, <2>1
  <2> HIDE DEF c
  <2>3. DOMAIN calls = Ops
    BY DEF Inv, TypeInv
  <2>4. Turn(op, c)
    BY <1>2, <2>2, <2>3 DEF Turn
  <2>5. Shows(ui) /\ ui.pending
    BY <1>2, <1>3, <1>4, PageWhileBusy, PageTyped DEF Shows
  <2>6. Ended(ui, FALSE)
    BY PageTyped DEF Ended
  <2>7. QED BY <1>2, <1>3, <2>2, <2>4, <2>5, <2>6, GoesOnKeeps
<1>5. CASE Render(closed, End(op), FALSE)
  <2>1. closed \in Pages
    BY PageTyped DEF Pages
  <2>2. Ended(closed, FALSE) /\ ~closed.pending /\ closed.session = ui.session
    BY <2>1, PageTyped DEF Ended, Pages
  <2> HIDE DEF closed
  <2>3. QED BY <1>2, <1>3, <1>5, <2>2, DoneKeeps
<1>6. QED BY <1>1, <1>4, <1>5

LEMMA OpenListDoneKeeps ==
  ASSUME Inv, OpenListDone
  PROVE  Inv'
<1> DEFINE op == "openAcquisition"
           view == IF calls[op].held.configured THEN "search" ELSE "settings"
           opened == [ui EXCEPT !.view = view, !.pending = FALSE]
<1>1. PICK r \in Results(calls[op]) :
        IF r.ok
          THEN \E job \in JobsShown(r.jobs) : Render([opened EXCEPT !.job = job], End(op), TRUE)
          ELSE Render(opened, End(op), FALSE)
  BY DEF OpenListDone
<1>2. Await(op, "acquisition/jobs?") /\ store' = store /\ op \in ButtonOps
  BY DEF OpenListDone, ButtonOps
<1>3. ServerStays /\ Busy(op)
  BY <1>2, AwaitStays DEF Await, Busy
<1>4. view \in {"search", "settings"}
  OBVIOUS
<1> HIDE DEF view
<1>5. opened \in Pages
  BY <1>4, PageTyped DEF Pages
<1>6. Ended(opened, FALSE) /\ ~opened.pending /\ opened.session = ui.session
  BY <1>5, PageTyped DEF Ended, Pages
<1>7. CASE r.ok
  <2>1. PICK job \in JobsShown(r.jobs) : Render([opened EXCEPT !.job = job], End(op), TRUE)
    BY <1>1, <1>7
  <2>2. \A x \in r.jobs : GoodJob(x, disk)
    BY <1>2, <1>7, PageTyped, AnswerGood DEF GoodAnswer, Inv, LaneInv
  <2>3. NoJob \in ShownJobs
    BY DEF NoJob, ShownJobs
  <2>4. job \in ShownJobs /\ (job # NoJob => job.id \in DOMAIN disk.jobs)
    BY <2>1, <2>2, <2>3 DEF JobsShown, GoodJob
  <2> DEFINE u == [opened EXCEPT !.job = job]
  <2>5. u \in Pages
    BY <1>5, <2>4 DEF Pages
  <2>6. Ended(u, TRUE) /\ ~u.pending /\ u.session = ui.session
    BY <1>5, <1>6, <2>4, <2>5 DEF Ended, Pages
  <2>7. Render(u, End(op), TRUE)
    BY <2>1
  <2> HIDE DEF u
  <2>8. QED BY <1>2, <1>3, <2>6, <2>7, DoneKeeps
<1>8. CASE ~r.ok
  <2>1. Render(opened, End(op), FALSE)
    BY <1>1, <1>8
  <2> HIDE DEF opened
  <2>2. QED BY <1>2, <1>3, <1>6, <2>1, DoneKeeps
<1>9. QED BY <1>7, <1>8

LEMMA RefreshJobDoneKeeps ==
  ASSUME Inv, RefreshJobDone
  PROVE  Inv'
<1> DEFINE op == "refreshAcquisitionJob"
           shown(r) == [ui EXCEPT !.job = r.job]
           done(r) == [ui EXCEPT !.job = r.job, !.pending = FALSE]
<1>1. PICK r \in Results(calls[op]) :
        /\ r.ok
        /\ \/ Render(shown(r), [calls EXCEPT ![op] = Sent(getStatus)], TRUE)
           \/ Render(done(r), End(op), TRUE)
  BY DEF RefreshJobDone, Begin
<1>2. /\ Await(op, "acquisition/jobs/id") /\ store' = store
      /\ op \in ButtonOps \ {"apply", "findVideos"} /\ op \in Ops \ {"poll"}
  BY DEF RefreshJobDone, ButtonOps, Ops
<1>3. ServerStays /\ Busy(op)
  BY <1>2, AwaitStays DEF Await, Busy
<1>4. r.job \in ShownJobs /\ r.job.id \in DOMAIN disk.jobs
  BY <1>1, <1>2, AnswerGood DEF GoodAnswer, GoodJob, Inv, LaneInv
<1>5. CASE Render(shown(r), [calls EXCEPT ![op] = Sent(getStatus)], TRUE)
  <2> DEFINE u == shown(r)
             call == Sent(getStatus)
  <2>1. u \in Pages
    BY <1>4, PageTyped DEF Pages
  <2>2. Ended(u, TRUE) /\ u.pending = ui.pending /\ u.session = ui.session
    BY <1>4, <2>1, PageTyped DEF Ended, Pages
  <2>3. ui.pending
    BY <1>2, <1>3, PageWhileBusy
  <2>4. CallOK(op, call, disk, srv) /\ call.at = "sent"
    BY DEF Sent, SentHolding, getStatus, CallOK, PathsOf, GoodRequest, GoodHeld
  <2>5. Render(u, [calls EXCEPT ![op] = call], TRUE)
    BY <1>5
  <2> HIDE DEF u, call
  <2>6. Shows(u) /\ Turn(op, call)
    BY <1>2, <2>1, <2>4, <2>5, RenderTurn
  <2>7. QED BY <1>2, <1>3, <2>2, <2>3, <2>4, <2>6, GoesOnKeeps
<1>6. CASE Render(done(r), End(op), TRUE)
  <2> DEFINE u == done(r)
  <2>1. u \in Pages
    BY <1>4, PageTyped DEF Pages
  <2>2. Ended(u, TRUE) /\ ~u.pending /\ u.session = ui.session
    BY <1>4, <2>1, PageTyped DEF Ended, Pages
  <2>3. Render(u, End(op), TRUE)
    BY <1>6
  <2> HIDE DEF u
  <2>4. QED BY <1>2, <1>3, <2>2, <2>3, DoneKeeps
<1>7. QED BY <1>1, <1>5, <1>6

\* The manifest of a status.
LEMMA RefreshedTyped ==
  ASSUME NEW u \in Pages, NEW r, r.items \in WireManifests, r.active \in Nat, r.saved \in Nat
  PROVE  /\ Refreshed(u, r) \in Pages
         /\ Refreshed(u, r).items = r.items
<1>1. Degraded(r) \in BOOLEAN
  BY DEF Degraded
<1>2. QED BY <1>1 DEF Refreshed, Pages

LEMMA RefreshStatusDoneKeeps ==
  ASSUME Inv, RefreshStatusDone
  PROVE  Inv'
<1> DEFINE op == "refreshAcquisitionJob"
           idle == [ui EXCEPT !.pending = FALSE]
<1>1. PICK r \in Results(calls[op]) : r.ok /\ Render(Refreshed(idle, r), End(op), FALSE)
  BY DEF RefreshStatusDone
<1>2. Await(op, "setup/status") /\ store' = store /\ op \in ButtonOps /\ op \in Ops
  BY DEF RefreshStatusDone, ButtonOps, Ops
<1>3. ServerStays /\ Busy(op)
  BY <1>2, AwaitStays DEF Await, Busy
<1>4. r.items \in WireManifests /\ Fits(r.items) /\ r.active \in Nat /\ r.saved \in Nat
  BY <1>1, <1>2, AnswerGood DEF GoodAnswer, Inv, LaneInv
<1>5. idle \in Pages
  BY PageTyped DEF Pages
<1> DEFINE u == Refreshed(idle, r)
<1>6. u \in Pages /\ u.items = r.items
  BY <1>4, <1>5, RefreshedTyped
<1>7. Ended(u, FALSE) /\ ~u.pending /\ u.session = ui.session
  BY <1>4, <1>6, PageTyped DEF Ended, Pages, Refreshed
<1>8. Render(u, End(op), FALSE)
  BY <1>1
<1> HIDE DEF u
<1>9. QED BY <1>2, <1>3, <1>7, <1>8, DoneKeeps

LEMMA ButtonFailedKeeps ==
  ASSUME Inv, ButtonFailed
  PROVE  Inv'
<1> DEFINE u == [ui EXCEPT !.pending = FALSE]
<1>1. PICK op \in ButtonOps \ {"openAcquisition"} :
        calls[op].at = "answered" /\ Render(u, End(op), FALSE)
  BY DEF ButtonFailed
<1>2. ServerStays /\ store' = store /\ Busy(op)
  BY <1>1 DEF ButtonFailed, ServerStays, serverVars, userVars, Busy
<1>3. u \in Pages
  BY PageTyped DEF Pages
<1>4. Ended(u, FALSE) /\ ~u.pending /\ u.session = ui.session
  BY <1>3, PageTyped DEF Ended, Pages
<1> HIDE DEF u
<1>5. QED BY <1>1, <1>2, <1>4, DoneKeeps

-----------------------------------------------------------------------------
(* The timer.                                                              *)

\* u differs from what is shown in its manifest, its job and its timer, perhaps.
Polled(u) ==
  /\ u \in Pages
  /\ u.candidates = ui.candidates /\ u.drafts = ui.drafts /\ u.phase = ui.phase
  /\ u.session = ui.session /\ u.bootstrap = ui.bootstrap /\ u.csrf = ui.csrf
  /\ u.watch = ui.watch /\ u.watchLoading = ui.watchLoading /\ u.watchError = ui.watchError
  /\ u.pending = ui.pending
  /\ Fits(u.items)
  /\ u.job # NoJob => u.job.id \in DOMAIN disk.jobs
  /\ u.timer = "armed" => u.job # NoJob

LEMMA PollKeeps ==
  ASSUME Inv, ServerStays, store' = store, Polled(ui'),
         NEW call, calls' = [calls EXCEPT !["poll"] = call], CallOK("poll", call, disk, srv),
         call.at \in {"idle", "sent"}
  PROVE  Inv'
<1>1. DOMAIN calls = Ops /\ "poll" \in Ops /\ {"apply", "findVideos"} \subseteq Ops \ {"poll"}
  BY DEF Inv, TypeInv, Ops, ButtonOps
<1>2. Turn("poll", call)
  BY <1>1 DEF Turn
<1>3. Quiet
  BY <1>2 DEF Quiet, Polled
<1>4. LaneInv'
  BY <1>3, QuietKeeps DEF Inv
<1>5. TypeInv'
  BY <1>2 DEF Inv, TypeInv, PageOK, Turn, ServerStays, Polled
<1>6. calls'["apply"] = calls["apply"] /\ calls'["findVideos"] = calls["findVideos"]
  BY <1>1
<1>7. SelectionDiscovered'
  BY <1>6, SelectionStays DEF Inv, Polled
<1>8. SearchInv'
  BY <1>6, SearchStays DEF Inv, Polled
<1>9. ReloadKeepsPairing'
  BY PairingStays DEF Inv, Polled
<1>10. PanelHonest'
  BY PanelStays DEF Inv, ServerStays, Polled
<1>11. QED BY <1>4, <1>5, <1>7, <1>8, <1>9, <1>10 DEF Inv

LEMMA PollsKeep ==
  ASSUME Inv, PollTimer \/ PollJobDone \/ PollStatusDone \/ PollFailed
  PROVE  Inv'
<1>1. /\ PageOK(ui, disk, srv) /\ ui \in Pages /\ "poll" \in Ops
  BY DEF Inv, TypeInv, PageOK, Ops
<1>2. CallOK("poll", Idle, disk, srv) /\ Idle.at = "idle"
  BY DEF CallOK, Idle
<1>3. CASE PollTimer
  <2> DEFINE call == Sent(getAcquisitionJob(ui.job.id, ui.csrf, auth))
  <2>1. ui' = [ui EXCEPT !.timer = "spent"] /\ calls' = [calls EXCEPT !["poll"] = call]
    BY <1>3 DEF PollTimer, Begin
  <2>2. ServerStays /\ store' = store
    BY <1>3 DEF PollTimer, ServerStays, serverVars, userVars
  <2>3. ui.job.id \in DOMAIN disk.jobs
    BY <1>1, <1>3 DEF PollTimer, PageOK
  <2>4. CallOK("poll", call, disk, srv) /\ call.at = "sent"
    BY <2>3 DEF Sent, SentHolding, getAcquisitionJob, CallOK, PathsOf, GoodRequest, GoodHeld
  <2>5. ui' \in Pages
    BY <1>1, <2>1 DEF Pages
  <2>6. Polled(ui')
    BY <1>1, <2>1, <2>5 DEF Polled, Pages, PageOK
  <2> HIDE DEF call
  <2>7. QED BY <2>1, <2>2, <2>4, <2>6, PollKeeps
<1>4. CASE PollJobDone
  <2>1. PICK r \in Results(calls["poll"]) :
          /\ r.ok
          /\ ui' = [ui EXCEPT !.job = r.job, !.timer = Armed([ui EXCEPT !.job = r.job])]
          /\ calls' = IF r.job.state = "succeeded" THEN Begin("poll", getStatus) ELSE End("poll")
    BY <1>4 DEF PollJobDone
  <2>2. Await("poll", "acquisition/jobs/id") /\ store' = store
    BY <1>4 DEF PollJobDone
  <2>3. ServerStays
    BY <2>2, AwaitStays
  <2>4. r.job \in ShownJobs /\ r.job.id \in DOMAIN disk.jobs
    BY <1>1, <2>1, <2>2, AnswerGood DEF GoodAnswer, GoodJob, Inv, LaneInv
  <2> DEFINE u == [ui EXCEPT !.job = r.job]
  <2>5. u \in Pages /\ u.job = r.job
    BY <1>1, <2>4 DEF Pages
  <2>6. Armed(u) \in {"off", "armed"} /\ (Armed(u) = "armed" => r.job # NoJob)
    BY <2>5 DEF Armed
  <2>7. ui' = [ui EXCEPT !.job = r.job, !.timer = Armed(u)]
    BY <2>1
  <2> HIDE DEF u
  <2>8. ui' \in Pages
    BY <1>1, <2>4, <2>6, <2>7 DEF Pages
  <2>9. Polled(ui')
    BY <1>1, <2>4, <2>6, <2>7, <2>8 DEF Polled, Pages, PageOK
  <2>10. PICK call \in {Idle, Sent(getStatus)} : calls' = [calls EXCEPT !["poll"] = call]
    BY <2>1 DEF Begin, End
  <2>11. CallOK("poll", call, disk, srv) /\ call.at \in {"idle", "sent"}
    BY <1>2, <2>10 DEF Sent, SentHolding, getStatus, CallOK, PathsOf, GoodRequest, GoodHeld
  <2>12. QED BY <2>2, <2>3, <2>9, <2>10, <2>11, PollKeeps
<1>5. CASE PollStatusDone
  <2>1. PICK r \in Results(calls["poll"]) : (r.ok /\ ui' = Refreshed(ui, r)) \/ ui' = ui
    BY <1>5 DEF PollStatusDone
  <2>2. /\ Await("poll", "setup/status") /\ store' = store
        /\ calls' = [calls EXCEPT !["poll"] = Idle]
    BY <1>5 DEF PollStatusDone, End
  <2>3. ServerStays
    BY <2>2, AwaitStays
  <2>4. CASE r.ok /\ ui' = Refreshed(ui, r)
    <3>1. r.items \in WireManifests /\ Fits(r.items) /\ r.active \in Nat /\ r.saved \in Nat
      BY <1>1, <2>2, <2>4, AnswerGood DEF GoodAnswer, Inv, LaneInv
    <3>2. ui' \in Pages /\ ui'.items = r.items
      BY <1>1, <2>4, <3>1, RefreshedTyped
    <3>3. Polled(ui')
      BY <1>1, <2>4, <3>1, <3>2 DEF Polled, Pages, PageOK, Refreshed
    <3>4. QED BY <1>2, <2>2, <2>3, <3>3, PollKeeps
  <2>5. CASE ui' = ui
    <3>1. Polled(ui')
      BY <1>1, <2>5 DEF Polled, PageOK
    <3>2. QED BY <1>2, <2>2, <2>3, <3>1, PollKeeps
  <2>6. QED BY <2>1, <2>4, <2>5
<1>6. CASE PollFailed
  <2>1. /\ Await("poll", "acquisition/jobs/id") /\ store' = store
        /\ ui' = [ui EXCEPT !.timer = "failed"] /\ calls' = [calls EXCEPT !["poll"] = Idle]
    BY <1>6 DEF PollFailed, End
  <2>2. ServerStays
    BY <2>1, AwaitStays
  <2>3. ui' \in Pages
    BY <1>1, <2>1 DEF Pages
  <2>4. Polled(ui')
    BY <1>1, <2>1, <2>3 DEF Polled, Pages, PageOK
  <2>5. QED BY <1>2, <2>1, <2>2, <2>4, PollKeeps
<1>7. QED BY <1>3, <1>4, <1>5, <1>6

-----------------------------------------------------------------------------
(* The watchlist panel, and the page that is being loaded.                 *)

\* u differs from what is shown in what a status says and in the panel, perhaps, and the
\* panel of u tells the policy that is saved.
Watched(u) ==
  /\ u \in Pages
  /\ u.candidates = ui.candidates /\ u.drafts = ui.drafts
  /\ u.job = ui.job /\ u.timer = ui.timer /\ u.pending = ui.pending
  /\ u.csrf <= srv.csrf /\ Fits(u.items)
  /\ u.phase # "loading" /\ (u.phase = "select" => ui.phase = "select")
  /\ reloads = 0 /\ u.watch # NoPolicy /\ ~u.watchLoading /\ ~u.watchError => u.watch = disk.policy

LEMMA WatchKeeps ==
  ASSUME Inv, ServerStays, NEW op \in WatchLane, ~ui.watchLoading \/ WatchBusy(op),
         ui.phase # "loading" \/ op = "load",
         NEW u, Watched(u), PairsWith(u),
         NEW call, Render(u, [calls EXCEPT ![op] = call], FALSE), CallOK(op, call, disk, srv),
         call.at \in {"idle", "sent"}, u.watchLoading <=> call.at = "sent",
         call.at = "sent" => call.request.path # "setup/status"
  PROVE  Inv'
<1>1. /\ PageOK(ui, disk, srv) /\ op \in Ops \ {"poll"}
      /\ {"apply", "findVideos"} \subseteq Ops \ {op, "poll"}
  BY DEF Inv, TypeInv, WatchLane, WatchOps, ButtonOps, Ops
<1>2. u.timer = "armed" => u.job # NoJob
  BY <1>1 DEF PageOK, Watched
<1>3. Shows(u) /\ Turn(op, call)
  BY <1>1, <1>2, RenderTurn DEF Watched
<1>4. WatchTurn(op, call)
  BY <1>3 DEF WatchTurn, Shows, Watched
<1>5. LaneInv'
  BY <1>4, WatchTurnKeeps DEF Inv
<1>6. store' \in Authorizations
  BY DEF Watched, Pages, PairsWith, Authorizations
<1>7. TypeInv'
  BY <1>1, <1>3, <1>6 DEF Inv, TypeInv, PageOK, Shows, Turn, ServerStays, Watched
<1>8. calls'["apply"] = calls["apply"] /\ calls'["findVideos"] = calls["findVideos"]
  BY <1>1, <1>3 DEF Turn
<1>9. SelectionDiscovered'
  BY <1>3, <1>8, SelectionStays DEF Inv, Shows, Watched
<1>10. SearchInv'
  BY <1>3, <1>8, SearchStays DEF Inv, Shows, Watched
<1>11. ReloadKeepsPairing'
  BY <1>3 DEF ReloadKeepsPairing, auth, PairsWith, Shows
<1>12. PanelHonest'
  BY <1>3 DEF PanelHonest, Shows, ServerStays, Watched
<1>13. QED BY <1>5, <1>7, <1>9, <1>10, <1>11, <1>12 DEF Inv

LEMMA LoadStatusKeeps ==
  ASSUME Inv, LoadStatus
  PROVE  Inv'
<1> DEFINE op == "load"
           known == [ui EXCEPT !.session = store.session, !.bootstrap = store.bootstrap]
           ready(r) == r.ok /\ ~r.setupRequired /\ Chosen(r.items) # {}
           items(r) == IF ready(r) THEN r.items ELSE known.items
           phase(r) == IF ready(r) THEN "ready" ELSE "credentials"
           next(r) == IF ~r.ok THEN [known EXCEPT !.phase = "credentials"]
                      ELSE [known EXCEPT !.csrf = r.csrf, !.tokenConfigured = r.tokenConfigured,
                              !.degraded = Degraded(r), !.items = items(r), !.phase = phase(r)]
           asks(r) == Sent(getWatchlistStatus(r.csrf, store))
<1>1. PICK r \in Results(calls[op]) :
        \/ Render([next(r) EXCEPT !.watchLoading = TRUE], [calls EXCEPT ![op] = asks(r)], FALSE)
        \/ Render(next(r), [calls EXCEPT ![op] = Idle], FALSE)
  BY DEF LoadStatus, Begin, End
<1>2. Await(op, "setup/status") /\ store' = store /\ op \in Ops /\ op \in WatchLane
  BY DEF LoadStatus, WatchLane, Ops
<1>3. ServerStays
  BY <1>2, AwaitStays
<1>4. ui.phase = "loading" /\ ~ui.watchLoading /\ ~ui.pending
  BY <1>2 DEF Inv, LaneInv, LoadInv, Await, Busy, WatchBusy
<1>5. /\ ui \in Pages /\ ui.csrf <= srv.csrf /\ Fits(ui.items) /\ store \in Authorizations
  BY DEF Inv, TypeInv, PageOK
<1>6. known \in Pages
  BY <1>5 DEF Pages, Authorizations
<1>7. r.ok => /\ r.csrf \in Nat /\ r.csrf <= srv.csrf /\ r.tokenConfigured \in BOOLEAN
              /\ r.items \in WireManifests /\ Fits(r.items)
              /\ Degraded(r) \in BOOLEAN
  BY <1>2, AnswerGood DEF GoodAnswer, Degraded, Inv, LaneInv
<1>8. /\ known.items = ui.items /\ known.csrf = ui.csrf
      /\ known.session = store.session /\ known.bootstrap = store.bootstrap
      /\ known.candidates = ui.candidates /\ known.drafts = ui.drafts /\ known.job = ui.job
      /\ known.timer = ui.timer /\ known.pending = ui.pending /\ known.watch = ui.watch
      /\ known.watchLoading = ui.watchLoading /\ known.watchError = ui.watchError
  BY <1>5 DEF Pages
<1>9. items(r) \in WireManifests /\ Fits(items(r)) /\ phase(r) \in {"ready", "credentials"}
  BY <1>5, <1>7, <1>8 DEF Pages
<1> HIDE DEF known, items, phase
<1>10. next(r) \in Pages
  <2>1. CASE ~r.ok
    BY <1>6, <2>1 DEF Pages
  <2>2. CASE r.ok
    <3> DEFINE i == items(r)
               p == phase(r)
               d == Degraded(r)
               u == [known EXCEPT !.csrf = r.csrf, !.tokenConfigured = r.tokenConfigured,
                       !.degraded = d, !.items = i, !.phase = p]
    <3>1. next(r) = u
      BY <2>2
    <3>2. /\ i \in WireManifests /\ p \in {"ready", "credentials"} /\ d \in BOOLEAN
          /\ r.csrf \in Nat /\ r.tokenConfigured \in BOOLEAN
      BY <1>7, <1>9, <2>2
    <3> HIDE DEF i, p, d
    <3>3. u \in Pages
      BY <1>6, <3>2 DEF Pages
    <3>4. QED BY <3>1, <3>3
  <2>3. QED BY <2>1, <2>2
<1>11. /\ next(r).session = store.session /\ next(r).bootstrap = store.bootstrap
       /\ next(r).candidates = ui.candidates /\ next(r).drafts = ui.drafts /\ next(r).job = ui.job
       /\ next(r).timer = ui.timer /\ next(r).pending = ui.pending /\ next(r).watch = ui.watch
       /\ next(r).watchLoading = ui.watchLoading /\ next(r).watchError = ui.watchError
       /\ next(r).csrf <= srv.csrf /\ Fits(next(r).items)
       /\ next(r).phase \in {"ready", "credentials"}
  BY <1>5, <1>6, <1>7, <1>8, <1>9 DEF Pages
<1> HIDE DEF next
<1>12. store' = [session |-> store.session, bootstrap |-> store.bootstrap]
  BY <1>2, <1>5 DEF Authorizations
<1>13. CASE Render(next(r), [calls EXCEPT ![op] = Idle], FALSE)
  <2> DEFINE u == next(r)
  <2>1. Watched(u)
    BY <1>4, <1>10, <1>11 DEF Watched, Inv, PanelHonest
  <2>2. PairsWith(u)
    BY <1>11, <1>12 DEF PairsWith
  <2>3. CallOK(op, Idle, disk, srv) /\ Idle.at = "idle" /\ ~u.watchLoading
    BY <1>4, <1>11 DEF CallOK, Idle
  <2>4. Render(u, [calls EXCEPT ![op] = Idle], FALSE)
    BY <1>13
  <2> HIDE DEF u
  <2>5. QED BY <1>2, <1>3, <1>4, <2>1, <2>2, <2>3, <2>4, WatchKeeps
<1>14. CASE Render([next(r) EXCEPT !.watchLoading = TRUE], [calls EXCEPT ![op] = asks(r)], FALSE)
  <2> DEFINE u == [next(r) EXCEPT !.watchLoading = TRUE]
             call == asks(r)
  <2>1. u \in Pages
    BY <1>10 DEF Pages
  <2>2. u.watchLoading /\ u.session = store.session /\ u.bootstrap = store.bootstrap
    BY <1>10, <1>11 DEF Pages
  <2>3. Watched(u)
    BY <1>10, <1>11, <2>1 DEF Watched, Pages
  <2>4. PairsWith(u)
    BY <1>12, <2>2 DEF PairsWith
  <2>5. /\ CallOK(op, call, disk, srv) /\ call.at = "sent"
        /\ call.request.path # "setup/status"
    BY DEF Sent, SentHolding, getWatchlistStatus, mutationHeaders, CallOK, PathsOf, GoodRequest,
           GoodHeld
  <2>6. Render(u, [calls EXCEPT ![op] = call], FALSE)
    BY <1>14
  <2> HIDE DEF u, call
  <2>7. QED BY <1>2, <1>3, <1>4, <2>2, <2>3, <2>4, <2>5, <2>6, WatchKeeps
<1>15. QED BY <1>1, <1>13, <1>14

\* The panel after an answer of op.
LEMMA PanelAnswered ==
  ASSUME Inv, NEW op \in WatchLane, NEW path \in {"watchlist/status", "watchlist/settings"},
         Await(op, path), NEW r \in Results(calls[op])
  PROVE  /\ WatchBusy(op) /\ ui.phase # "loading" /\ store = auth
         /\ Watched(WatchShown(r)) /\ ~WatchShown(r).watchLoading
         /\ WatchShown(r).session = ui.session /\ WatchShown(r).bootstrap = ui.bootstrap
<1>1. WatchBusy(op) /\ op \in Ops
  BY DEF Await, WatchBusy, Busy, WatchLane, WatchOps, Ops
<1>2. ui.phase # "loading"
  BY <1>1 DEF Inv, LaneInv, WatchInv, LoadInv
<1>3. store = auth
  BY <1>2 DEF Inv, ReloadKeepsPairing
<1>4. ui \in Pages /\ ui.csrf <= srv.csrf /\ Fits(ui.items)
  BY DEF Inv, TypeInv, PageOK
<1>5. CASE r.ok
  <2>1. Recognized(path, r) /\ r = calls[op].ans
    BY <1>1, <1>5, AnswerGood DEF Inv, LaneInv
  <2>2. r.policy \in Policies
    BY <2>1 DEF Recognized, isWatchlistStatus
  <2>3. reloads = 0 => r.policy = disk.policy
    BY <1>1, <1>5, <2>1 DEF Inv, LaneInv, FreshInv, Await
  <2> DEFINE u == [ui EXCEPT !.watch = r.policy, !.watchError = FALSE, !.watchLoading = FALSE]
  <2>4. WatchShown(r) = u
    BY <1>5 DEF WatchShown
  <2>5. u \in Pages
    BY <1>4, <2>2 DEF Pages
  <2>6. u.session = ui.session /\ u.bootstrap = ui.bootstrap /\ ~u.watchLoading
    BY <1>4 DEF Pages
  <2>7. Watched(u)
    BY <1>2, <1>4, <2>3, <2>5 DEF Watched, Pages
  <2> HIDE DEF u
  <2>8. QED BY <1>1, <1>2, <1>3, <2>4, <2>6, <2>7
<1>6. CASE ~r.ok
  <2> DEFINE u == [ui EXCEPT !.watchError = TRUE, !.watchLoading = FALSE]
  <2>1. WatchShown(r) = u
    BY <1>6 DEF WatchShown
  <2>2. u \in Pages
    BY <1>4 DEF Pages
  <2>3. u.session = ui.session /\ u.bootstrap = ui.bootstrap /\ ~u.watchLoading /\ u.watchError
    BY <1>4 DEF Pages
  <2>4. Watched(u)
    BY <1>2, <1>4, <2>2 DEF Watched, Pages
  <2> HIDE DEF u
  <2>5. QED BY <1>1, <1>2, <1>3, <2>1, <2>3, <2>4
<1>7. QED BY <1>5, <1>6

\* The handler of op ends, showing u in the panel.
LEMMA WatchEndKeeps ==
  ASSUME Inv, ServerStays, NEW op \in WatchLane, WatchBusy(op), ui.phase # "loading",
         NEW u, Watched(u), PairsWith(u), ~u.watchLoading, Render(u, End(op), FALSE)
  PROVE  Inv'
<1>1. CallOK(op, Idle, disk, srv) /\ Idle.at = "idle"
  BY DEF CallOK, Idle
<1>2. Render(u, [calls EXCEPT ![op] = Idle], FALSE)
  BY DEF End
<1>3. QED BY <1>1, <1>2, WatchKeeps

LEMMA WatchAnswersKeep ==
  ASSUME Inv, LoadWatchlist \/ RefreshWatchlistDone \/ ChangePolicyDone
  PROVE  Inv'
<1>1. ASSUME NEW op \in WatchLane, NEW path \in {"watchlist/status", "watchlist/settings"},
             Await(op, path), NEW r \in Results(calls[op]), store' = store,
             Render(WatchShown(r), End(op), FALSE)
      PROVE  Inv'
  <2> DEFINE u == WatchShown(r)
  <2>1. /\ WatchBusy(op) /\ ui.phase # "loading" /\ store = auth
        /\ Watched(u) /\ ~u.watchLoading /\ u.session = ui.session /\ u.bootstrap = ui.bootstrap
    BY <1>1, PanelAnswered
  <2>2. ServerStays
    BY <1>1, AwaitStays
  <2>3. Render(u, End(op), FALSE)
    BY <1>1
  <2> HIDE DEF u
  <2>4. PairsWith(u)
    BY <1>1, <2>1 DEF PairsWith, auth
  <2>5. QED BY <2>1, <2>2, <2>3, <2>4, WatchEndKeeps
<1>2. CASE LoadWatchlist
  BY <1>1, <1>2 DEF LoadWatchlist, WatchLane
<1>3. CASE RefreshWatchlistDone
  BY <1>1, <1>3 DEF RefreshWatchlistDone, WatchLane, WatchOps
<1>4. CASE ChangePolicyDone
  <2> DEFINE op == "changeWatchlistPolicy"
  <2>1. PICK r \in Results(calls[op]) :
          IF r.ok
            THEN /\ Render([WatchShown(r) EXCEPT !.session = r.session], End(op), FALSE)
                 /\ Adopt(r.session)
            ELSE Render(WatchShown(r), End(op), FALSE) /\ store' = store
    BY <1>4 DEF ChangePolicyDone
  <2>2. Await(op, "watchlist/settings") /\ op \in WatchLane /\ op \in Ops
    BY <1>4 DEF ChangePolicyDone, WatchLane, WatchOps, Ops
  <2>3. CASE r.ok
    <3> DEFINE w == WatchShown(r)
               u == [w EXCEPT !.session = r.session]
    <3>1. /\ WatchBusy(op) /\ ui.phase # "loading" /\ store = auth
          /\ Watched(w) /\ ~w.watchLoading /\ w.bootstrap = ui.bootstrap
      BY <2>2, PanelAnswered
    <3>2. Recognized("watchlist/settings", r)
      BY <2>2, <2>3, AnswerGood DEF Inv, LaneInv
    <3>3. r.session \in Tokens
      BY <3>2 DEF Recognized, readSession
    <3>4. ServerStays
      BY <2>2, AwaitStays
    <3>5. Render(u, End(op), FALSE) /\ Adopt(r.session)
      BY <2>1, <2>3
    <3> HIDE DEF w
    <3>6. u \in Pages
      BY <3>1, <3>3 DEF Watched, Pages
    <3>7. ~u.watchLoading /\ u.bootstrap = ui.bootstrap /\ u.session = r.session
      BY <3>1 DEF Watched, Pages
    <3>8. Watched(u)
      BY <3>1, <3>6 DEF Watched, Pages
    <3> HIDE DEF u
    <3>9. PairsWith(u)
      BY <3>1, <3>5, <3>7, AdoptPairs DEF PairsWith
    <3>10. QED BY <2>2, <3>1, <3>4, <3>5, <3>7, <3>8, <3>9, WatchEndKeeps
  <2>4. CASE ~r.ok
    BY <1>1, <2>1, <2>2, <2>4
  <2>5. QED BY <2>3, <2>4
<1>5. QED BY <1>2, <1>3, <1>4

\* The user asks for the policy, or for another one.
LEMMA WatchClicksKeep ==
  ASSUME Inv, refreshWatchlist \/ changeWatchlistPolicy
  PROVE  Inv'
<1> DEFINE u == [ui EXCEPT !.watchLoading = TRUE, !.watchError = FALSE]
<1>1. /\ ui \in Pages /\ ui.csrf <= srv.csrf /\ Fits(ui.items)
  BY DEF Inv, TypeInv, PageOK
<1>2. /\ ServerStays /\ store' = store /\ ~ui.watchLoading /\ ui.phase = "ready"
  BY ClickStays DEF refreshWatchlist, changeWatchlistPolicy, WatchlistPanel, ReadyCard
<1>3. u \in Pages
  BY <1>1 DEF Pages
<1>4. u.watchLoading /\ u.session = ui.session /\ u.bootstrap = ui.bootstrap
  BY <1>1 DEF Pages
<1>5. Watched(u)
  BY <1>1, <1>2, <1>3 DEF Watched, Pages
<1>6. PairsWith(u)
  BY <1>2, <1>4 DEF PairsWith, Inv, ReloadKeepsPairing, auth
<1>7. CASE refreshWatchlist
  <2> DEFINE op == "refreshWatchlist"
             call == Sent(getWatchlistStatus(ui.csrf, auth))
  <2>1. Render(u, [calls EXCEPT ![op] = call], FALSE) /\ op \in WatchLane
    BY <1>7 DEF refreshWatchlist, Begin, WatchLane, WatchOps
  <2>2. CallOK(op, call, disk, srv) /\ call.at = "sent" /\ call.request.path # "setup/status"
    BY DEF Sent, SentHolding, getWatchlistStatus, mutationHeaders, CallOK, PathsOf, GoodRequest,
           GoodHeld
  <2> HIDE DEF u, call
  <2>3. QED BY <1>2, <1>4, <1>5, <1>6, <2>1, <2>2, WatchKeeps
<1>8. CASE changeWatchlistPolicy
  <2> DEFINE op == "changeWatchlistPolicy"
  <2>1. PICK policy \in PolicyButtons :
          Render(u, [calls EXCEPT ![op] = Sent(setWatchlistPolicy(policy, ui.csrf, auth))], FALSE)
    BY <1>8 DEF changeWatchlistPolicy, Begin
  <2>2. ui.watch \in Policies
    BY <1>1, <1>8 DEF changeWatchlistPolicy, Pages
  <2>3. policy \in Policies
    BY <2>1, <2>2 DEF PolicyButtons, Policies, ShowPolicies
  <2> DEFINE call == Sent(setWatchlistPolicy(policy, ui.csrf, auth))
  <2>4. CallOK(op, call, disk, srv) /\ call.at = "sent" /\ call.request.path # "setup/status"
    BY <2>3 DEF Sent, SentHolding, setWatchlistPolicy, CallOK, PathsOf, GoodRequest, GoodHeld
  <2>5. Render(u, [calls EXCEPT ![op] = call], FALSE) /\ op \in WatchLane
    BY <2>1 DEF WatchLane, WatchOps
  <2> HIDE DEF u, call
  <2>6. QED BY <1>2, <1>4, <1>5, <1>6, <2>4, <2>5, WatchKeeps
<1>9. QED BY <1>7, <1>8
-----------------------------------------------------------------------------
(* The page is loaded again.                                               *)

LEMMA NewPageTyped == NewPage \in Pages /\ Fits(Empty)
<1>1. Empty \in WireManifests /\ Empty \in Drafts /\ Chosen(Empty) = {}
  BY DEF Empty, WireManifests, Drafts, Chosen
<1>2. Fits(Empty)
  BY <1>1, FS_EmptySet, ServerAssumption DEF Fits
<1>3. NoJob \in ShownJobs
  BY DEF NoJob, ShownJobs
<1> HIDE DEF NoJob
<1>4. NewPage \in Pages
  BY <1>1, <1>3 DEF NewPage, Pages
<1>5. QED BY <1>2, <1>4

\* The page of a server that has not gone back.
LEMMA NewPageOK ==
  ASSUME NEW s \in Servers
  PROVE  PageOK(NewPage, disk, s)
<1>1. 0 <= s.csrf
  BY DEF Servers
<1>2. QED BY <1>1, NewPageTyped DEF PageOK, NewPage

\* A page that is new has asked for the status.
LEMMA StatusAsked == CallOK("load", Sent(getStatus), disk, srv)
BY DEF Sent, SentHolding, getStatus, CallOK, PathsOf, GoodRequest, GoodHeld

LEMMA ReloadKeeps ==
  ASSUME Inv, Reload
  PROVE  Inv'
<1> DEFINE left(op) ==
             IF op = "load" THEN Sent(getStatus)
             ELSE IF calls[op].at = "sent" /\ calls[op].request.path \in Mutations
               THEN Abandoned(calls[op])
             ELSE IF calls[op].at = "orphan" THEN calls[op] ELSE Idle
<1>1. /\ ui' = NewPage /\ calls' = [op \in Ops |-> left(op)] /\ reloads' = reloads + 1
      /\ disk' = disk /\ srv' = srv
  BY DEF Reload, serverVars
<1>2. reloads \in Nat /\ reloads' \in Nat /\ reloads' # 0
  BY <1>1 DEF Inv, TypeInv
<1>3. store' \in Authorizations
  <2>1. PICK fragment \in BOOLEAN : store' = loadBrowserAuthorization(fragment)
    BY DEF Reload
  <2>2. store \in Authorizations
    BY DEF Inv, TypeInv
  <2>3. PICK b \in BOOLEAN : b <=> (store.bootstrap \/ fragment)
    OBVIOUS
  <2>4. (store.bootstrap \/ fragment) = b
    BY <2>2, <2>3 DEF Authorizations
  <2>5. store' = [store EXCEPT !.bootstrap = b]
    BY <2>1, <2>4, Zenon DEF loadBrowserAuthorization
  <2>6. QED BY <2>2, <2>5 DEF Authorizations
<1>4. TypeInv'
  <2>1. ServerOK(disk, srv) /\ PageOK(NewPage, disk, srv)
    BY NewPageOK DEF Inv, TypeInv, ServerOK
  <2>2. DOMAIN calls' = Ops
    BY <1>1
  <2>3. QED BY <1>1, <1>2, <1>3, <2>1, <2>2 DEF TypeInv
<1>5. \A op \in Ops : CallOK(op, left(op), disk, srv)
  <2>1. TAKE op \in Ops
  <2>2. CallOK(op, calls[op], disk, srv)
    BY DEF Inv, LaneInv, CallsInv
  <2>3. CallOK(op, Idle, disk, srv)
    BY DEF CallOK, Idle
  <2>4. ASSUME calls[op].at = "sent"
        PROVE  CallOK(op, Abandoned(calls[op]), disk, srv)
    BY <2>2, <2>4 DEF CallOK, Abandoned
  <2>5. QED BY <2>2, <2>3, <2>4, StatusAsked
<1>6. CallsInv'
  BY <1>1, <1>5 DEF CallsInv
<1>7. \A op \in Ops \ {"load"} : ~Busy(op)'
  BY <1>1 DEF Busy, Abandoned, Idle
<1>8. ~WatchBusy("load")'
  <2>1. "load" \in Ops /\ calls'["load"] = Sent(getStatus)
    BY <1>1 DEF Ops
  <2>2. QED BY <2>1 DEF WatchBusy, Sent, SentHolding, getStatus
<1>9. /\ ~ui'.pending /\ ~ui'.watchLoading /\ ui'.phase = "loading" /\ ui'.candidates = {}
      /\ ui'.drafts = Empty
  BY <1>1 DEF NewPage
<1>10. /\ ButtonOps \subseteq Ops \ {"load"} /\ WatchOps \subseteq Ops \ {"load"}
       /\ {"apply", "findVideos"} \subseteq Ops \ {"load"}
  BY DEF Ops, ButtonOps, WatchOps
<1>11. LaneInv'
  <2>1. ButtonInv'
    BY <1>7, <1>9, <1>10 DEF ButtonInv
  <2>2. \A op \in WatchLane : ~WatchBusy(op)'
    BY <1>7, <1>8, <1>10 DEF WatchBusy, WatchLane
  <2>3. WatchInv'
    BY <1>9, <2>2 DEF WatchInv
  <2>4. LoadInv'
    BY <1>9 DEF LoadInv
  <2>5. FreshInv'
    BY <1>2 DEF FreshInv
  <2>6. QED BY <1>6, <2>1, <2>3, <2>4, <2>5 DEF LaneInv
<1>12. SearchInv'
  BY <1>9 DEF SearchInv
<1>13. SelectionDiscovered'
  <2>1. Chosen(ui'.drafts) = {} /\ Cardinality(Chosen(ui'.drafts)) <= MaxItems
    BY <1>9, NewPageTyped DEF Chosen, Empty, Fits
  <2>2. "apply" \notin UnderWay(Ops)'
    BY <1>7, <1>10 DEF UnderWay, Busy
  <2>3. QED BY <1>9, <2>1, <2>2 DEF SelectionDiscovered
<1>14. ReloadKeepsPairing'
  BY <1>9 DEF ReloadKeepsPairing
<1>15. PanelHonest'
  BY <1>2 DEF PanelHonest
<1>16. QED BY <1>4, <1>11, <1>12, <1>13, <1>14, <1>15 DEF Inv

-----------------------------------------------------------------------------
(* The server handles a request, or goes on by itself.                     *)

\* Only one handler sets the policy and only one the token.
LEMMA PathsKnown ==
  ASSUME NEW op \in Ops
  PROVE  /\ PathsOf(op) \subseteq Paths
         /\ "watchlist/settings" \in PathsOf(op) => op = "changeWatchlistPolicy"
         /\ "setup/configuration" \in PathsOf(op) => op = "apply"
         /\ op \in WatchLane =>
              PathsOf(op) \subseteq {"setup/status", "watchlist/status", "watchlist/settings"}
BY DEF Ops, ButtonOps, WatchOps, WatchLane, PathsOf, Paths

\* What a step of the server leaves of a page that waits.
LEMMA ServerGoesOn ==
  ASSUME Inv, Grows(disk', srv'), ui' = ui, store' = store, reloads' = reloads, DOMAIN calls' = Ops
  PROVE  TypeInv'
<1>1. ui.csrf \in Nat /\ srv.csrf \in Nat /\ srv'.csrf \in Nat
  BY DEF Inv, TypeInv, PageOK, Pages, ServerOK, Grows, Servers
<1>2. PageOK(ui, disk', srv')
  BY <1>1 DEF Inv, TypeInv, PageOK, Grows
<1>3. QED BY <1>2 DEF Inv, TypeInv, Grows

LEMMA ServeKeeps ==
  ASSUME Inv, NEW op \in Ops, Serve(op)
  PROVE  Inv'
<1> DEFINE path == calls[op].request.path
<1>1. PICK out \in ServeHTTP(calls[op].request) :
        /\ disk' = out.disk /\ srv' = out.srv
        /\ calls' = [calls EXCEPT ![op] = IF calls[op].at = "orphan" THEN Idle
                                          ELSE Answered(calls[op], out.ans)]
  BY DEF Serve
<1>2. /\ calls[op].at \in {"sent", "orphan"} /\ ui' = ui /\ store' = store /\ reloads' = reloads
  BY DEF Serve, userVars
<1>3. CallOK(op, calls[op], disk, srv) /\ DOMAIN calls = Ops /\ ServerOK(disk, srv)
  BY DEF Inv, TypeInv, LaneInv, CallsInv
<1>4. path \in PathsOf(op) /\ GoodRequest(calls[op].request, disk)
  BY <1>2, <1>3 DEF CallOK
<1>5. OutcomeOK(path, out)
  BY <1>3, <1>4, PathsKnown, ServeOK
<1>6. Grows(disk', srv')
  BY <1>1, <1>5 DEF OutcomeOK
<1>7. /\ DOMAIN calls' = Ops
      /\ \A x \in Ops \ {op} : calls'[x] = calls[x]
      /\ calls[op].at = "orphan" => calls'[op] = Idle
      /\ calls[op].at = "sent" => calls'[op] = Answered(calls[op], out.ans)
  BY <1>1, <1>2, <1>3
<1>8. TypeInv'
  BY <1>2, <1>6, <1>7, ServerGoesOn
<1>9. \A x \in Ops : CallOK(x, calls[x], disk', srv')
  BY <1>3, <1>6, CallKept DEF Inv, LaneInv, CallsInv, Grows, ServerOK
<1>10. CallsInv'
  <2>1. CallOK(op, Idle, disk', srv')
    BY DEF CallOK, Idle
  <2>2. ASSUME calls[op].at = "sent"
        PROVE  CallOK(op, Answered(calls[op], out.ans), disk', srv')
    <3>1. GoodAnswer(path, out.ans, disk', srv')
      BY <1>1, <1>5 DEF OutcomeOK
    <3>2. CallOK(op, calls[op], disk', srv')
      BY <1>9
    <3>3. QED BY <2>2, <3>1, <3>2 DEF CallOK, Answered
  <2>3. \A x \in Ops : CallOK(x, calls'[x], disk', srv')
    BY <1>2, <1>7, <1>9, <2>1, <2>2
  <2>4. QED BY <2>3 DEF CallsInv
<1>11. \A x \in Ops : /\ Busy(x)' <=> Busy(x)
                      /\ Busy(x) => calls'[x].request = calls[x].request
  <2>1. Busy(op)' <=> Busy(op)
    BY <1>2, <1>7 DEF Busy, Idle, Answered
  <2>2. Busy(op) => calls'[op].request = calls[op].request
    BY <1>2, <1>7 DEF Busy, Answered
  <2>3. QED BY <1>7, <2>1, <2>2 DEF Busy
<1>12. \A x \in Ops : WatchBusy(x)' <=> WatchBusy(x)
  BY <1>11 DEF WatchBusy
<1>13. /\ ButtonOps \subseteq Ops /\ WatchLane \subseteq Ops /\ "load" \in Ops
       /\ {"apply", "findVideos"} \subseteq Ops
  BY DEF Ops, ButtonOps, WatchOps, WatchLane
<1>14. ButtonInv' /\ WatchInv' /\ LoadInv'
  <2>1. ButtonInv'
    BY <1>2, <1>11, <1>13 DEF Inv, LaneInv, ButtonInv
  <2>2. WatchInv'
    BY <1>2, <1>12, <1>13 DEF Inv, LaneInv, WatchInv
  <2>3. LoadInv'
    BY <1>2, <1>11, <1>12, <1>13 DEF Inv, LaneInv, LoadInv
  <2>4. QED BY <2>1, <2>2, <2>3
\* Until the page is loaded again, whoever changes the policy or the token is waited for.
<1>15. ASSUME reloads = 0
       PROVE  /\ calls[op].at = "sent" /\ calls'[op] = Answered(calls[op], out.ans)
              /\ disk'.policy # disk.policy => op = "changeWatchlistPolicy" /\ WatchBusy(op)
              /\ disk'.token # disk.token => op = "apply" /\ Busy(op)
  <2>1. calls[op].at = "sent" /\ calls'[op] = Answered(calls[op], out.ans)
    BY <1>2, <1>7, <1>15 DEF Inv, LaneInv, FreshInv
  <2>2. Busy(op)
    BY <2>1 DEF Busy
  <2>3. disk'.policy # disk.policy => path = "watchlist/settings"
    BY <1>1, <1>5 DEF OutcomeOK
  <2>4. disk'.token # disk.token => path = "setup/configuration"
    BY <1>1, <1>5 DEF OutcomeOK
  <2>5. QED BY <1>4, <2>1, <2>2, <2>3, <2>4, PathsKnown DEF WatchBusy
<1>16. FreshInv'
  <2>1. SUFFICES ASSUME reloads = 0 PROVE FreshInv'
    BY <1>2 DEF FreshInv
  <2>2. \A x \in Ops : calls'[x].at # "orphan"
    BY <1>7, <1>15, <2>1 DEF Inv, LaneInv, FreshInv, Answered
  <2>3. ASSUME NEW x \in WatchLane, WatchBusy(x)', calls'[x].at = "answered", calls'[x].ans.ok
        PROVE  calls'[x].ans.policy = disk'.policy
    <3>1. WatchBusy(x)
      BY <1>12, <1>13, <2>3
    <3>2. CASE x = op
      <4>1. path \in {"watchlist/status", "watchlist/settings"}
        BY <1>4, <2>3, <3>1, <3>2, PathsKnown DEF WatchBusy
      <4>2. calls'[x].ans = out.ans
        BY <1>15, <2>1, <3>2 DEF Answered
      <4>3. QED BY <1>1, <1>5, <2>3, <4>1, <4>2 DEF OutcomeOK
    <3>3. CASE x # op
      <4>1. calls'[x] = calls[x]
        BY <1>7, <1>13, <3>3
      <4>2. calls[x].ans.policy = disk.policy
        BY <2>1, <2>3, <3>1, <4>1 DEF Inv, LaneInv, FreshInv
      <4>3. disk'.policy = disk.policy
        BY <1>15, <2>1, <3>1, <3>3 DEF Inv, LaneInv, WatchInv, WatchLane, WatchOps
      <4>4. QED BY <4>1, <4>2, <4>3
    <3>4. QED BY <3>2, <3>3
  <2>4. ASSUME NEW x \in ButtonOps, calls'[x].at = "answered", calls'[x].ans.ok,
               calls'[x].request.path \in SessionPaths, disk'.token # None
        PROVE  calls'[x].ans.session = disk'.token
    <3>1. Busy(x)
      BY <1>11, <1>13, <2>4 DEF Busy
    <3>2. CASE x = op
      <4>1. calls'[x].ans = out.ans /\ calls'[x].request.path = path
        BY <1>15, <2>1, <3>2 DEF Answered
      <4>2. QED BY <1>1, <1>5, <2>4, <4>1 DEF OutcomeOK
    <3>3. CASE x # op
      <4>1. calls'[x] = calls[x]
        BY <1>7, <1>13, <3>3
      <4>2. disk'.token = disk.token
        BY <1>15, <2>1, <3>1, <3>3 DEF Inv, LaneInv, ButtonInv, ButtonOps
      <4>3. QED BY <2>1, <2>4, <4>1, <4>2 DEF Inv, LaneInv, FreshInv
    <3>4. QED BY <3>2, <3>3
  <2>5. QED BY <2>1, <2>2, <2>3, <2>4 DEF FreshInv
<1>17. LaneInv'
  BY <1>10, <1>14, <1>16 DEF LaneInv
<1>18. SearchInv'
  BY <1>2, <1>11, <1>13 DEF Inv, SearchInv
<1>19. SelectionDiscovered'
  <2>1. "apply" \in UnderWay(Ops)' => Busy("apply")
    BY <1>11, <1>13 DEF UnderWay, Busy
  <2>2. Busy("apply") => "apply" \in UnderWay(Ops)
    BY <1>13 DEF UnderWay, Busy
  <2>3. QED BY <1>2, <1>11, <1>13, <2>1, <2>2 DEF Inv, SelectionDiscovered
<1>20. ReloadKeepsPairing'
  BY <1>2 DEF Inv, ReloadKeepsPairing, auth
<1>21. PanelHonest'
  <2>1. SUFFICES ASSUME reloads = 0, ~ui.watchLoading PROVE disk'.policy = disk.policy
    BY <1>2 DEF Inv, PanelHonest
  <2>2. \A x \in WatchLane : ~WatchBusy(x)
    BY <2>1 DEF Inv, LaneInv, WatchInv
  <2>3. QED BY <1>15, <2>1, <2>2 DEF WatchLane, WatchOps
<1>22. QED BY <1>8, <1>17, <1>18, <1>19, <1>20, <1>21 DEF Inv

LEMMA ProcessKeeps ==
  ASSUME Inv, Process
  PROVE  Inv'
<1>1. /\ ui' = ui /\ store' = store /\ calls' = calls /\ reloads' = reloads
      /\ Restart \/ Restore \/ FinishJob
  BY DEF Process, browserVars, userVars
<1>2. Grows(disk', srv') /\ disk'.policy = disk.policy /\ disk'.token = disk.token
  BY <1>1, ProcessOK DEF Inv, TypeInv
<1>3. TypeInv'
  <2>1. DOMAIN calls = Ops
    BY DEF Inv, TypeInv
  <2>2. QED BY <1>1, <1>2, <2>1, ServerGoesOn
<1>4. CallsInv'
  <2>1. \A x \in Ops : CallOK(x, calls[x], disk', srv')
    BY <1>2, CallKept DEF Inv, TypeInv, LaneInv, CallsInv, Grows, ServerOK
  <2>2. QED BY <1>1, <2>1 DEF CallsInv
<1>5. ButtonInv' /\ WatchInv' /\ LoadInv'
  BY <1>1 DEF Inv, LaneInv, ButtonInv, WatchInv, LoadInv, Busy, WatchBusy
<1>6. FreshInv'
  BY <1>1, <1>2 DEF Inv, LaneInv, FreshInv, Busy, WatchBusy
<1>7. SearchInv' /\ SelectionDiscovered' /\ ReloadKeepsPairing' /\ PanelHonest'
  <2>1. SearchInv'
    BY <1>1 DEF Inv, SearchInv, Busy
  <2>2. SelectionDiscovered'
    BY <1>1 DEF Inv, SelectionDiscovered, UnderWay
  <2>3. ReloadKeepsPairing'
    BY <1>1 DEF Inv, ReloadKeepsPairing, auth
  <2>4. PanelHonest'
    BY <1>1, <1>2 DEF Inv, PanelHonest
  <2>5. QED BY <2>1, <2>2, <2>3, <2>4
<1>8. QED BY <1>3, <1>4, <1>5, <1>6, <1>7 DEF Inv, LaneInv
-----------------------------------------------------------------------------
(* The inductive invariant holds.                                          *)

LEMMA InvInit ==
  ASSUME Init
  PROVE  Inv
<1>1. /\ scenario \in Scenarios /\ disk = scenario.disk /\ srv = Fresh(1) /\ ui = NewPage
      /\ calls = [op \in Ops |-> IF op = "load" THEN Sent(getStatus) ELSE Idle]
      /\ reloads = 0
  BY DEF Init
<1>2. store \in Authorizations
  BY DEF Init, Authorizations
<1>3. disk \in Disks /\ Fits(disk.items)
  BY <1>1, ConsoleAssumption DEF Fits
<1>4. srv \in Servers /\ srv.manifest = Empty
  <2>1. Empty \in Manifests
    BY DEF Empty, Manifests
  <2>2. QED BY <1>1, <2>1, ServerAssumption DEF Fresh, Servers
<1>5. TypeInv
  <2>1. PageOK(ui, disk, srv)
    BY <1>1, <1>4, NewPageOK
  <2>2. ServerOK(disk, srv)
    BY <1>3, <1>4, NewPageTyped DEF ServerOK
  <2>3. QED BY <1>1, <1>2, <2>1, <2>2 DEF TypeInv
<1>6. /\ "load" \in Ops /\ calls["load"] = Sent(getStatus)
      /\ \A op \in Ops \ {"load"} : calls[op] = Idle
  BY <1>1 DEF Ops
<1>7. CallsInv
  <2>1. \A op \in Ops : CallOK(op, Idle, disk, srv)
    BY DEF CallOK, Idle
  <2>2. QED BY <1>6, <2>1, StatusAsked DEF CallsInv
<1>8. /\ \A op \in Ops \ {"load"} : ~Busy(op) /\ calls[op].at = "idle"
      /\ ~WatchBusy("load") /\ calls["load"].at = "sent"
  BY <1>6 DEF Busy, WatchBusy, Idle, Sent, SentHolding, getStatus
<1>9. /\ ~ui.pending /\ ~ui.watchLoading /\ ui.phase = "loading" /\ ui.candidates = {}
      /\ ui.drafts = Empty /\ ui.watch = NoPolicy
  BY <1>1 DEF NewPage
<1>10. /\ ButtonOps \subseteq Ops \ {"load"} /\ WatchOps \subseteq Ops \ {"load"}
       /\ {"apply", "findVideos"} \subseteq Ops \ {"load"}
  BY DEF Ops, ButtonOps, WatchOps
<1>11. LaneInv
  <2>1. ButtonInv
    BY <1>8, <1>9, <1>10 DEF ButtonInv
  <2>2. \A op \in WatchLane : ~WatchBusy(op)
    BY <1>8, <1>10 DEF WatchBusy, WatchLane
  <2>3. WatchInv
    BY <1>9, <2>2 DEF WatchInv
  <2>4. LoadInv
    BY <1>9 DEF LoadInv
  <2>5. \A op \in Ops : calls[op].at \notin {"orphan", "answered"}
    BY <1>8
  <2>6. FreshInv
    BY <1>10, <2>2, <2>5 DEF FreshInv
  <2>7. QED BY <1>7, <2>1, <2>3, <2>4, <2>6 DEF LaneInv
<1>12. SelectionDiscovered
  <2>1. Chosen(ui.drafts) = {} /\ Cardinality(Chosen(ui.drafts)) <= MaxItems
    BY <1>9, NewPageTyped DEF Chosen, Empty, Fits
  <2>2. "apply" \notin UnderWay(Ops)
    BY <1>8, <1>10 DEF UnderWay
  <2>3. QED BY <1>9, <2>1, <2>2 DEF SelectionDiscovered
<1>13. SearchInv /\ ReloadKeepsPairing /\ PanelHonest
  BY <1>8, <1>9, <1>10 DEF SearchInv, ReloadKeepsPairing, PanelHonest
<1>14. QED BY <1>5, <1>11, <1>12, <1>13 DEF Inv

LEMMA UserKeeps ==
  ASSUME Inv, User
  PROVE  Inv'
BY QuietClicksKeep, DraftsKeep, FindVideosKeeps, ApplyKeeps, OpenAcquisitionKeeps, ConnectKeeps,
   AddKeeps, PrepareKeeps, RefreshJobKeeps, WatchClicksKeep DEF User

LEMMA ContinueKeeps ==
  ASSUME Inv, Continue
  PROVE  Inv'
BY LoadStatusKeeps, WatchAnswersKeep, FindVideosDoneKeeps, ApplyDoneKeeps, OpenStatusDoneKeeps,
   OpenListDoneKeeps, ConnectDoneKeeps, AddDoneKeeps, PrepareDoneKeeps, RefreshJobDoneKeeps,
   RefreshStatusDoneKeeps, ButtonFailedKeeps, PollsKeep DEF Continue

LEMMA InvStep ==
  ASSUME Inv, [Next]_vars
  PROVE  Inv'
<1>1. CASE Next
  BY <1>1, UserKeeps, ReloadKeeps, ContinueKeeps, PollsKeep, ProcessKeeps, ServeKeeps DEF Next
<1>2. CASE UNCHANGED vars
  BY <1>2 DEF vars, serverVars, browserVars, userVars, Inv, TypeInv, LaneInv, CallsInv, ButtonInv,
     WatchInv, LoadInv, FreshInv, SearchInv, SelectionDiscovered, ReloadKeepsPairing, PanelHonest,
     Busy, WatchBusy, UnderWay, auth
<1>3. QED BY <1>1, <1>2

\* The invariant that the theorems below rest on: what the server keeps, the page, the
\* storage and every request under way are typed and agree with each other.
THEOREM ConsoleInvariant == Spec => []Inv
BY InvInit, InvStep, PTL DEF Spec

-----------------------------------------------------------------------------
(* What follows from it.                                                   *)

\* Every part of the state has its type, whatever the user clicks, the server answers and
\* the process does; the page knows no CSRF token that the process has not given out.
THEOREM ConsoleTypes == Spec => []TypeOK
<1>1. Inv => TypeOK
  <2>1. SUFFICES ASSUME Inv PROVE TypeOK
    OBVIOUS
  <2>2. /\ disk \in Disks /\ srv \in Servers /\ store \in Authorizations
        /\ ui \in Pages /\ ui.csrf <= srv.csrf
    BY <2>1 DEF Inv, TypeInv, ServerOK, PageOK
  <2>3. ui.csrf \in 0..srv.csrf
    BY <2>2 DEF Pages, Servers
  <2>4. auth \in Authorizations
    BY <2>2 DEF auth, Authorizations, Pages
  <2>5. \A op \in Ops : calls[op].at \in {"idle", "sent", "answered", "orphan"}
    BY <2>1 DEF Inv, LaneInv, CallsInv, CallOK
  <2>6. /\ ui.phase \in {"loading", "credentials", "select", "ready"}
        /\ ui.token \in Tokens \cup {None} /\ ui.candidates \subseteq Objects
        /\ ui.drafts \in [Objects -> MovieDrafts \cup EpisodeDrafts \cup {None}]
        /\ ui.items \in [Objects -> Media \cup {"seasonless", None}]
        /\ ui.view \in {"closed", "loading", "settings", "search"}
        /\ ui.offer \in Intents \cup {None}
        /\ ui.timer \in {"off", "armed", "spent", "failed"}
        /\ ui.watch \in Policies \cup {NoPolicy}
    BY <2>2 DEF Pages, Drafts, WireManifests
  <2>7. QED BY <2>2, <2>3, <2>4, <2>5, <2>6 DEF TypeOK
<1>2. QED BY <1>1, ConsoleInvariant, PTL

\* A set of which any two members are the same one has none or one.
LEMMA AtMostOne ==
  ASSUME NEW S, \A a, b \in S : a = b
  PROVE  Cardinality(S) = IF S = {} THEN 0 ELSE 1
<1>1. CASE S = {}
  BY <1>1, FS_EmptySet
<1>2. CASE S # {}
  <2>1. PICK a \in S : S = {a}
    BY <1>2
  <2>2. QED BY <1>2, <2>1, FS_Singleton
<1>3. QED BY <1>1, <1>2

\* The buttons, and the watchlist panel, are disabled exactly while one request of theirs is
\* under way (setPending and setWatchlistLoading with the finally blocks of the handlers).
THEOREM ButtonsExact == Spec => []PendingExact
<1>1. Inv => PendingExact
  <2>1. SUFFICES ASSUME Inv PROVE PendingExact
    OBVIOUS
  <2>2. /\ UnderWay(ButtonOps) = {op \in ButtonOps : Busy(op)}
        /\ UnderWay(WatchOps) = {op \in WatchOps : Busy(op)}
    BY DEF UnderWay, Busy
  <2>3. Cardinality(UnderWay(ButtonOps)) = IF ui.pending THEN 1 ELSE 0
    <3>1. \A a, b \in UnderWay(ButtonOps) : a = b
      BY <2>1, <2>2 DEF Inv, LaneInv, ButtonInv
    <3>2. ui.pending <=> UnderWay(ButtonOps) # {}
      BY <2>1, <2>2 DEF Inv, LaneInv, ButtonInv
    <3>3. QED BY <3>1, <3>2, AtMostOne
  <2>4. \A op \in WatchOps : WatchBusy(op) <=> Busy(op)
    <3>1. \A op \in WatchOps : op \in Ops /\ "setup/status" \notin PathsOf(op)
      BY DEF Ops, WatchOps, PathsOf
    <3>2. \A op \in WatchOps : Busy(op) => calls[op].request.path \in PathsOf(op)
      BY <2>1, <3>1 DEF Inv, LaneInv, CallsInv, CallOK, Busy
    <3>3. QED BY <3>1, <3>2 DEF WatchBusy
  <2>5. WatchBusy("load") <=> LoadingWatchlist
    <3>1. "load" \in Ops /\ PathsOf("load") = {"setup/status", "watchlist/status"}
      BY DEF Ops, PathsOf
    <3>2. Busy("load") => calls["load"].request.path \in PathsOf("load")
      BY <2>1, <3>1 DEF Inv, LaneInv, CallsInv, CallOK, Busy
    <3>3. QED BY <3>1, <3>2 DEF WatchBusy, Busy, LoadingWatchlist
  <2>6. /\ \A a, b \in UnderWay(WatchOps) : a = b
        /\ LoadingWatchlist => UnderWay(WatchOps) = {}
        /\ ui.watchLoading <=> LoadingWatchlist \/ UnderWay(WatchOps) # {}
    <3>1. WatchLane = WatchOps \cup {"load"} /\ "load" \notin WatchOps
      BY DEF WatchLane, WatchOps
    <3>2. /\ \A a, b \in WatchLane : WatchBusy(a) /\ WatchBusy(b) => a = b
          /\ ui.watchLoading <=> \E op \in WatchLane : WatchBusy(op)
      BY <2>1 DEF Inv, LaneInv, WatchInv
    <3>3. QED BY <2>2, <2>4, <2>5, <3>1, <3>2
  <2>7. Cardinality(UnderWay(WatchOps)) = IF UnderWay(WatchOps) = {} THEN 0 ELSE 1
    BY <2>6, AtMostOne
  <2>8. Cardinality(UnderWay(WatchOps)) + (IF LoadingWatchlist THEN 1 ELSE 0)
          = IF ui.watchLoading THEN 1 ELSE 0
    BY <2>6, <2>7
  <2>9. QED BY <2>3, <2>8 DEF PendingExact
<1>2. QED BY <1>1, ConsoleInvariant, PTL

\* What is selected, and what an apply under way asks for, was found by the latest discovery
\* and fits into a manifest (findVideos, toggle, replaceDraft, apply).
THEOREM SelectionFound == Spec => []SelectionDiscovered
<1>1. Inv => SelectionDiscovered
  BY DEF Inv
<1>2. QED BY <1>1, ConsoleInvariant, PTL

\* Loading the page again keeps the browser paired: every handler that sets the session
\* stores it (storeSession beside setSession).
THEOREM PairingKept == Spec => []ReloadKeepsPairing
<1>1. Inv => ReloadKeepsPairing
  BY DEF Inv
<1>2. QED BY <1>1, ConsoleInvariant, PTL

\* The watchlist panel never shows a policy that is not stored without saying that it could
\* not read it (changeWatchlistPolicy, serveWatchlistSettings).
THEOREM PanelTells == Spec => []PanelHonest
<1>1. Inv => PanelHonest
  BY DEF Inv
<1>2. QED BY <1>1, ConsoleInvariant, PTL

-----------------------------------------------------------------------------
(* The session that an answer brings.                                      *)

\* A page that is rendered has the session of what was rendered.
LEMMA RenderSession ==
  ASSUME ui \in Pages, NEW u, DOMAIN u = DOMAIN ui, NEW cs, NEW j, Render(u, cs, j)
  PROVE  ui'.session = u.session
<1>1. "session" \in DOMAIN u
  BY DEF Pages
<1>2. ui' = u \/ ui' = [u EXCEPT !.timer = Armed(u)]
  BY DEF Render
<1>3. QED BY <1>1, <1>2

\* A good answer to a button tells the token that is saved, until the page is loaded again.
LEMMA AnswerFresh ==
  ASSUME Inv, reloads = 0, disk.token # None, NEW op \in ButtonOps, NEW path \in SessionPaths,
         Await(op, path), NEW r \in Results(calls[op]), r.ok
  PROVE  r.session = disk.token
<1>1. op \in Ops /\ calls[op].at = "answered" /\ calls[op].request.path = path
  BY DEF ButtonOps, Ops, Await
<1>2. r = calls[op].ans
  BY ResultGood
<1>3. QED BY <1>1, <1>2 DEF Inv, LaneInv, FreshInv

\* A good answer is refused as invalid or is not there; "not_cached" is what the server says.
LEMMA KnownResult ==
  ASSUME NEW call, call.ans.ok, NEW r \in Results(call), r.ok \/ r.code = "not_cached"
  PROVE  r.ok
BY DEF Results, readJSON, Error

\* A handler that ends with a session shows the one of the token that is saved.
LEMMA AdoptedIsFresh ==
  ASSUME Inv, reloads = 0, disk.token # None, SessionDone
  PROVE  ui'.session = disk.token
<1>1. ui \in Pages /\ "session" \in DOMAIN ui
  BY DEF Inv, TypeInv, PageOK, Pages
<1>2. CASE FindVideosDone
  <2> DEFINE op == "findVideos"
             found(r) == [ui EXCEPT !.pending = FALSE, !.session = r.session,
                            !.candidates = r.candidates, !.kept = calls[op].held.useSaved,
                            !.drafts = keptDrafts(calls[op].held, r.candidates),
                            !.phase = IF r.candidates = {} THEN @ ELSE "select"]
  <2>1. PICK r \in Results(calls[op]) : r.ok /\ Render(found(r), End(op), FALSE)
    BY <1>2 DEF FindVideosDone
  <2>2. Await(op, "setup/discover") /\ op \in ButtonOps /\ "setup/discover" \in SessionPaths
    BY <1>2 DEF FindVideosDone, ButtonOps, SessionPaths
  <2>3. r.session = disk.token
    BY <2>1, <2>2, AnswerFresh
  <2>4. DOMAIN found(r) = DOMAIN ui /\ found(r).session = r.session
    BY <1>1
  <2> HIDE DEF found
  <2>5. ui'.session = found(r).session
    BY <1>1, <2>1, <2>4, RenderSession
  <2>6. QED BY <2>3, <2>4, <2>5
<1>3. CASE ApplyDone
  <2> DEFINE op == "apply"
             u(r) == [ui EXCEPT !.pending = FALSE, !.session = r.session, !.token = None,
                        !.tokenConfigured = TRUE, !.items = r.items, !.degraded = FALSE,
                        !.phase = "ready"]
  <2>1. PICK r \in Results(calls[op]) : r.ok /\ Render(u(r), End(op), FALSE)
    BY <1>3 DEF ApplyDone
  <2>2. /\ Await(op, "setup/configuration") /\ op \in ButtonOps
        /\ "setup/configuration" \in SessionPaths
    BY <1>3 DEF ApplyDone, ButtonOps, SessionPaths
  <2>3. r.session = disk.token
    BY <2>1, <2>2, AnswerFresh
  <2>4. DOMAIN u(r) = DOMAIN ui /\ u(r).session = r.session
    BY <1>1
  <2> HIDE DEF u
  <2>5. ui'.session = u(r).session
    BY <1>1, <2>1, <2>4, RenderSession
  <2>6. QED BY <2>3, <2>4, <2>5
<1>4. CASE ConnectDone
  <2> DEFINE op == "connectProwlarr"
             u(r) == [ui EXCEPT !.pending = FALSE, !.session = r.session, !.view = "search"]
  <2>1. PICK r \in Results(calls[op]) : r.ok /\ Render(u(r), End(op), FALSE)
    BY <1>4 DEF ConnectDone
  <2>2. /\ Await(op, "acquisition/settings") /\ op \in ButtonOps
        /\ "acquisition/settings" \in SessionPaths
    BY <1>4 DEF ConnectDone, ButtonOps, SessionPaths
  <2>3. r.session = disk.token
    BY <2>1, <2>2, AnswerFresh
  <2>4. DOMAIN u(r) = DOMAIN ui /\ u(r).session = r.session
    BY <1>1
  <2> HIDE DEF u
  <2>5. ui'.session = u(r).session
    BY <1>1, <2>1, <2>4, RenderSession
  <2>6. QED BY <2>3, <2>4, <2>5
<1>5. CASE AddDone /\ calls["addRequestedMedia"].ans.ok
  <2> DEFINE op == "addRequestedMedia"
             u(r) == [ui EXCEPT !.pending = FALSE, !.session = r.session, !.items = r.items,
                        !.degraded = FALSE, !.offer = None]
  <2>1. PICK r \in Results(calls[op]) : r.ok /\ Render(u(r), End(op), FALSE)
    BY <1>5, KnownResult DEF AddDone
  <2>2. /\ Await(op, "acquisition/acquire") /\ op \in ButtonOps
        /\ "acquisition/acquire" \in SessionPaths
    BY <1>5 DEF AddDone, ButtonOps, SessionPaths
  <2>3. r.session = disk.token
    BY <2>1, <2>2, AnswerFresh
  <2>4. DOMAIN u(r) = DOMAIN ui /\ u(r).session = r.session
    BY <1>1
  <2> HIDE DEF u
  <2>5. ui'.session = u(r).session
    BY <1>1, <2>1, <2>4, RenderSession
  <2>6. QED BY <2>3, <2>4, <2>5
<1>6. CASE PrepareDone
  <2> DEFINE op == "prepareRequestedMedia"
             u(r) == [ui EXCEPT !.pending = FALSE, !.session = r.session, !.job = r.job,
                        !.offer = None]
  <2>1. PICK r \in Results(calls[op]) : r.ok /\ Render(u(r), End(op), TRUE)
    BY <1>6 DEF PrepareDone
  <2>2. Await(op, "acquisition/jobs") /\ op \in ButtonOps /\ "acquisition/jobs" \in SessionPaths
    BY <1>6 DEF PrepareDone, ButtonOps, SessionPaths
  <2>3. r.session = disk.token
    BY <2>1, <2>2, AnswerFresh
  <2>4. DOMAIN u(r) = DOMAIN ui /\ u(r).session = r.session
    BY <1>1
  <2> HIDE DEF u
  <2>5. ui'.session = u(r).session
    BY <1>1, <2>1, <2>4, RenderSession
  <2>6. QED BY <2>3, <2>4, <2>5
<1>7. QED BY <1>2, <1>3, <1>4, <1>5, <1>6 DEF SessionDone

\* A button whose request succeeds leaves the page paired with the token that is saved
\* (IssueSession in the handlers of the server, storeSession and setSession in those of the
\* page); the policy of the watchlist, which no button waits for, is left out.
THEOREM ButtonsPair == Spec => AnswerPairs
<1>1. ASSUME Inv, [Next]_vars
      PROVE  [reloads' = 0 /\ disk.token # None /\ SessionDone => ui'.session = disk.token]_vars
  <2> SUFFICES ASSUME reloads' = 0, disk.token # None, SessionDone
               PROVE  ui'.session = disk.token
    OBVIOUS
  <2>1. reloads' = reloads
    BY AwaitStays DEF SessionDone, FindVideosDone, ApplyDone, ConnectDone, AddDone, PrepareDone,
       ServerStays
  <2>2. QED BY <1>1, <2>1, AdoptedIsFresh
<1>2. QED BY <1>1, ConsoleInvariant, PTL DEF Spec, AnswerPairs
=============================================================================
