----------------------------- MODULE ApiClient -----------------------------
(***************************************************************************)
(* web/src/lib/api.ts: the requests that the setup page makes and what it  *)
(* accepts of the answers.  A request is the record that the handlers of   *)
(* SetupServer read; a call is a request under way.                        *)
(***************************************************************************)
EXTENDS SetupServer

-----------------------------------------------------------------------------
(* Requests.  csrf and auth are the headers, the rest is the body.         *)

\* SetupAuthorization, read from the browser's session storage.
Authorizations == [session : Tokens \cup {None}, bootstrap : BOOLEAN]

\* mutationHeaders: the CSRF token and whatever authorization the browser has.
mutationHeaders(path, csrf, auth) == [path |-> path, csrf |-> csrf, auth |-> auth]

getStatus == [path |-> "setup/status"]

discoverMedia(token, csrf, auth) ==
  [path |-> "setup/discover", csrf |-> csrf, auth |-> auth, token |-> token]

applyConfiguration(token, items, csrf, auth) ==
  [path |-> "setup/configuration", csrf |-> csrf, auth |-> auth, token |-> token, items |-> items]

getAcquisitionStatus == [path |-> "acquisition/status"]

configureAcquisition(csrf, auth) == mutationHeaders("acquisition/settings", csrf, auth)

acquireMedia(intent, csrf, auth) ==
  [path |-> "acquisition/acquire", csrf |-> csrf, auth |-> auth, intent |-> intent]

submitJob(intent, csrf, auth) ==
  [path |-> "acquisition/jobs", csrf |-> csrf, auth |-> auth, intent |-> intent]

listJobs(csrf, auth) == mutationHeaders("acquisition/jobs?", csrf, auth)

getAcquisitionJob(id, csrf, auth) ==
  [path |-> "acquisition/jobs/id", csrf |-> csrf, auth |-> auth, id |-> id]

getWatchlistStatus(csrf, auth) == mutationHeaders("watchlist/status", csrf, auth)

setWatchlistPolicy(policy, csrf, auth) ==
  [path |-> "watchlist/settings", csrf |-> csrf, auth |-> auth, policy |-> policy]

\* Requests that change something on the server.
Mutations == {"setup/configuration", "acquisition/settings", "acquisition/acquire",
              "acquisition/jobs", "watchlist/settings"}

-----------------------------------------------------------------------------
(* Answers: readJSON throws what it does not recognize.                    *)

\* isConfiguration: the season of an item may be missing.
isConfiguration(media) == media \in Media \cup {"seasonless"}

\* isAcquisitionJob: an episode must have its season.
isAcquisitionJob(job) == job.state \in JobStates /\ job.media \in Media

\* isSetupStatus: the counts must agree with each other and with the items.
isSetupStatus(ans) ==
  /\ \A o \in Chosen(ans.items) : isConfiguration(ans.items[o])
  /\ ans.active = Cardinality(Chosen(ans.items))
  /\ ans.saved >= ans.active

\* isCandidateEnvelope with isCandidate.
isCandidateEnvelope(ans) == ans.candidates \subseteq Objects

isSelectionEnvelope(ans) ==
  /\ Chosen(ans.items) # {}
  /\ \A o \in Chosen(ans.items) : isConfiguration(ans.items[o])

isAcquisitionStatus(ans) == ans.configured \in BOOLEAN

isWatchlistStatus(ans) == ans.policy \in Policies

isAcquisitionJobSubmission(ans) == isAcquisitionJob(ans.job)

\* One job that is not recognized rejects the whole list.
isAcquisitionJobList(ans) == \A job \in ans.jobs : isAcquisitionJob(job)

\* readSession: an answer to a mutation must carry a session.
readSession(ans) == ans.session \in Tokens

Recognized(path, ans) ==
  CASE path = "setup/status"         -> isSetupStatus(ans)
    [] path = "setup/discover"       -> isCandidateEnvelope(ans) /\ readSession(ans)
    [] path = "setup/configuration"  -> isSelectionEnvelope(ans) /\ readSession(ans)
    [] path = "acquisition/status"   -> isAcquisitionStatus(ans)
    [] path = "acquisition/settings" -> isAcquisitionStatus(ans) /\ readSession(ans)
    [] path = "acquisition/acquire"  -> isSelectionEnvelope(ans) /\ readSession(ans)
    [] path = "acquisition/jobs"     -> isAcquisitionJobSubmission(ans) /\ readSession(ans)
    [] path = "acquisition/jobs?"    -> isAcquisitionJobList(ans)
    [] path = "acquisition/jobs/id"  -> isAcquisitionJob(ans.job)
    [] path = "watchlist/status"     -> isWatchlistStatus(ans)
    [] path = "watchlist/settings"   -> isWatchlistStatus(ans) /\ readSession(ans)

readJSON(path, ans) ==
  IF ans.ok => Recognized(path, ans) THEN ans ELSE Error("invalid_response")

\* A call that is not under way, one that was sent, one that was answered, and one that
\* nobody waits for any more.  Its caller may hold on to more than what it sends.
Idle == [at |-> "idle"]
SentHolding(request, held) == [at |-> "sent", request |-> request, held |-> held]
Sent(request) == SentHolding(request, {})
Answered(call, ans) ==
  [at |-> "answered", request |-> call.request, held |-> call.held, ans |-> ans]
Abandoned(call) == [at |-> "orphan", request |-> call.request]

\* What the caller of fetch gets: the answer as readJSON leaves it, or nothing at all when
\* the connection was lost on the way.
Results(call) == {readJSON(call.request.path, call.ans), Error("unreachable")}
=============================================================================
