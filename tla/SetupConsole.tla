---------------------------- MODULE SetupConsole ----------------------------
(***************************************************************************)
(* web/src/components/setup-console.tsx: the setup page of one browser tab *)
(* against a running server.  ui is the state of the React component,      *)
(* store the tab's session storage, calls the requests under way, one      *)
(* slot for each handler of the component.                                 *)
(*                                                                         *)
(* Handlers run to their next await; between the request and the code that *)
(* follows it the user goes on clicking, effects run, the process restarts *)
(* and background jobs end.  A handler uses the state of the render in     *)
(* which it was clicked: its request holds what it captured.               *)
(***************************************************************************)
EXTENDS ApiClient

CONSTANTS
  NameOf,      \* [Objects -> Media]: what the file name says (suggestDraft)
  Scenarios    \* what was saved when the page is opened, what the user clicks, and the
               \* bounds: clicks, times the page is loaded again, restarts of the process

ASSUME ConsoleAssumption ==
  /\ NameOf \in [Objects -> Media]
  /\ \A s \in Scenarios :
       /\ s.disk \in Disks
       /\ s.disk.token = None <=> Chosen(s.disk.items) = {}
       /\ Cardinality(Chosen(s.disk.items)) <= MaxItems
       /\ {s.clicks, s.reloads, s.restarts} \subseteq Nat

VARIABLES
  ui,       \* the state of the component
  store,    \* the tab's session storage
  calls,    \* the requests under way
  scenario, \* the scenario, which does not change
  clicks,   \* how often the user clicked
  reloads   \* how often the page was loaded again

browserVars == <<ui, store, calls>>
userVars == <<scenario, clicks, reloads>>
vars == <<serverVars, browserVars, userVars>>

\* Handlers behind the buttons that share `pending', the two that share
\* `watchlistLoading', and the two effects.
ButtonOps == {"findVideos", "apply", "openAcquisition", "connectProwlarr",
              "addRequestedMedia", "prepareRequestedMedia", "refreshAcquisitionJob"}
WatchOps == {"refreshWatchlist", "changeWatchlistPolicy"}
Ops == ButtonOps \cup WatchOps \cup {"load", "poll"}

\* A draft is the metadata of a selected item while the user edits it, valid or not.
MovieDrafts == {"movie", "invalid movie"}
EpisodeDrafts == {"episode", "special", "invalid episode"}
NoJob == [id |-> 0, media |-> None, state |-> None]
NoPolicy == [auto |-> FALSE, show |-> None]

\* The state of a page that was just opened.
NewPage ==
  [phase |-> "loading", csrf |-> 0, tokenConfigured |-> FALSE, token |-> None,
   session |-> None, bootstrap |-> FALSE,
   candidates |-> {}, drafts |-> Empty, kept |-> FALSE, items |-> Empty, degraded |-> FALSE,
   view |-> "closed", offer |-> None, job |-> NoJob, timer |-> "off",
   watch |-> NoPolicy, watchLoading |-> FALSE, watchError |-> FALSE, pending |-> FALSE]

\* availabilityFromStatus: how the counts of a status are shown.
Degraded(status) == status.active > 0 /\ status.saved > status.active

terminalAcquisitionJob(job) == job.state \in {"succeeded", "failed"}

auth == [session |-> ui.session, bootstrap |-> ui.bootstrap]
canUseSavedToken == ui.tokenConfigured /\ (ui.session # None \/ ui.bootstrap)
paired == ui.session # None \/ ui.bootstrap

-----------------------------------------------------------------------------
(* Rendering and the polling effect.                                       *)

\* The effect that polls the job runs again when the job, or an authorization that it
\* uses, changes: its timer starts anew and a poll under way is forgotten.
Rerun(u, jobSet) ==
  jobSet \/ u.session # ui.session \/ u.bootstrap # ui.bootstrap \/ u.csrf # ui.csrf

\* Mutant: the effect depends on what the job says and not on the job that was set.
ArmedByValue(u) ==
  IF u.job # NoJob /\ u.job # ui.job /\ ~terminalAcquisitionJob(u.job) THEN "armed" ELSE "off"

Armed(u) == IF u.job # NoJob /\ ~terminalAcquisitionJob(u.job) THEN "armed" ELSE "off"

\* The component renders state u with requests cs under way; jobSet says that the handler
\* called setActiveJob.
Render(u, cs, jobSet) ==
  /\ ui' = IF Rerun(u, jobSet) THEN [u EXCEPT !.timer = Armed(u)] ELSE u
  /\ calls' = IF Rerun(u, jobSet) THEN [cs EXCEPT !["poll"] = Idle] ELSE cs

Begin(op, request) == [calls EXCEPT ![op] = Sent(request)]
End(op) == [calls EXCEPT ![op] = Idle]

\* Mutant: the session is set and not stored.
AdoptUnstored(session) == UNCHANGED store

\* storeSession and setSession.
Adopt(session) == store' = [store EXCEPT !.session = session]

\* Something the user does, within the bound.
Click(kind) ==
  /\ kind \in scenario.goal
  /\ clicks < scenario.clicks
  /\ clicks' = clicks + 1
  /\ UNCHANGED <<serverVars, store, scenario, reloads>>

\* A button whose handler is behind `pending'.
Press(op) == ~ui.pending /\ calls[op] = Idle

\* A handler goes on after its request to path.
Await(op, path) ==
  /\ calls[op].at = "answered"
  /\ calls[op].request.path = path
  /\ UNCHANGED <<serverVars, userVars>>

-----------------------------------------------------------------------------
(* Loading the page.                                                       *)

\* loadBrowserAuthorization, with or without a secret in the fragment of the address.
loadBrowserAuthorization(fragment) == [store EXCEPT !.bootstrap = @ \/ fragment]

\* The status arrives: ready with the active manifest, or ask for the token.  A paired
\* browser goes on to read the watchlist.
LoadStatus ==
  /\ Await("load", "setup/status")
  /\ \E r \in Results(calls["load"]) :
       LET known == [ui EXCEPT !.session = store.session, !.bootstrap = store.bootstrap]
           ready == r.ok /\ ~r.setupRequired /\ Chosen(r.items) # {}
           next == IF ~r.ok THEN [known EXCEPT !.phase = "credentials"]
                   ELSE [known EXCEPT !.csrf = r.csrf, !.tokenConfigured = r.tokenConfigured,
                           !.degraded = Degraded(r),
                           !.items = IF ready THEN r.items ELSE @,
                           !.phase = IF ready THEN "ready" ELSE "credentials"]
       IN IF ready /\ (store.session # None \/ store.bootstrap)
            THEN Render([next EXCEPT !.watchLoading = TRUE],
                        Begin("load", getWatchlistStatus(r.csrf, store)), FALSE)
            ELSE Render(next, End("load"), FALSE)
  /\ UNCHANGED store

\* Mutant: the error of the panel is cleared with its loading state.
WatchShownQuietly(r) ==
  IF r.ok THEN [ui EXCEPT !.watch = r.policy, !.watchError = FALSE, !.watchLoading = FALSE]
  ELSE [ui EXCEPT !.watchLoading = FALSE]

\* The panel of the watchlist after a status, a new policy, or an error.
WatchShown(r) ==
  IF r.ok THEN [ui EXCEPT !.watch = r.policy, !.watchError = FALSE, !.watchLoading = FALSE]
  ELSE [ui EXCEPT !.watchError = TRUE, !.watchLoading = FALSE]

LoadWatchlist ==
  /\ Await("load", "watchlist/status")
  /\ \E r \in Results(calls["load"]) : Render(WatchShown(r), End("load"), FALSE)
  /\ UNCHANGED store

\* The page is opened again, in the same tab, with or without a secret in its address.
\* Requests that were sent may still reach the server; nobody waits for their answers.
Reload ==
  /\ reloads < scenario.reloads
  /\ reloads' = reloads + 1
  /\ \E fragment \in BOOLEAN : store' = loadBrowserAuthorization(fragment)
  /\ ui' = NewPage
  /\ calls' = [op \in Ops |->
                 IF op = "load" THEN Sent(getStatus)
                 ELSE IF calls[op].at = "sent" /\ calls[op].request.path \in Mutations
                   THEN Abandoned(calls[op])
                 ELSE IF calls[op].at = "orphan" THEN calls[op] ELSE Idle]
  /\ UNCHANGED <<serverVars, scenario, clicks>>

-----------------------------------------------------------------------------
(* Credentials and selection.                                              *)

TypeToken ==
  /\ ui.phase = "credentials" /\ ~ui.pending
  /\ \E t \in Tokens \ {ui.token} : Render([ui EXCEPT !.token = t], calls, FALSE)
  /\ Click("TypeToken")

\* What is on the page: the list of candidates with the drafts, or the card of the manifest
\* with its panels, a form for the search connection, one for media, and the card of a job.
SelectPanel == ui.phase = "select"
ReadyCard == ui.phase = "ready" /\ Chosen(ui.items) # {}
SettingsForm == ReadyCard /\ ui.view = "settings"
SearchForm == ReadyCard /\ ui.view = "search"
JobCard == ReadyCard /\ ui.job # NoJob
WatchlistPanel == ReadyCard /\ ~ui.watchLoading /\ paired

\* "Find my videos" with the token as typed, "Use saved token" and "Change video" without.
\* The handler holds on to the items selected when it was clicked.
findVideos(useSavedToken) ==
  /\ Press("findVideos")
  /\ IF useSavedToken
       THEN canUseSavedToken /\ (ui.phase = "credentials" \/ ReadyCard)
       ELSE ui.phase = "credentials" /\ (ui.tokenConfigured \/ ui.token # None)
  /\ Render([ui EXCEPT !.pending = TRUE],
            [calls EXCEPT !["findVideos"] =
               SentHolding(discoverMedia(IF useSavedToken THEN None ELSE ui.token, ui.csrf, auth),
                           [useSaved |-> useSavedToken, selected |-> ui.items])],
            FALSE)
  /\ Click("findVideos")

\* Mutant: the item of the manifest is taken over as it is.
draftAsIs(media) == media

\* The draft of an item of the manifest; a missing season becomes season 1.
draftOf(media) == IF media = "seasonless" THEN "episode" ELSE media

\* Mutant: the manifest is kept whether or not its items were found.
keptDraftsUnfiltered(held, candidates) ==
  [o \in Objects |-> IF held.useSaved THEN draftOf(held.selected[o]) ELSE None]

\* With the saved token, the drafts start from the items of the manifest that were found.
keptDrafts(held, candidates) ==
  [o \in Objects |->
     IF held.useSaved /\ o \in candidates THEN draftOf(held.selected[o]) ELSE None]

FindVideosDone ==
  /\ Await("findVideos", "setup/discover")
  /\ \E r \in Results(calls["findVideos"]) :
       LET held == calls["findVideos"].held
           found == [ui EXCEPT !.pending = FALSE, !.session = r.session,
                       !.candidates = r.candidates, !.kept = held.useSaved,
                       !.drafts = keptDrafts(held, r.candidates),
                       !.phase = IF r.candidates = {} THEN @ ELSE "select"]
       IN /\ r.ok
          /\ Render(found, End("findVideos"), FALSE)
          /\ Adopt(r.session)

\* suggestDraft: the metadata that the file name suggests, for the type asked for if any.
suggestDraft(o) == NameOf[o]
suggestDraftAs(o, type) ==
  IF type = "movie" THEN "movie" ELSE IF NameOf[o] = "movie" THEN "episode" ELSE NameOf[o]

SetDraft(o, media) == Render([ui EXCEPT !.drafts[o] = media], calls, FALSE)

\* The list of the candidates stays in use while a request is under way.
toggle(o) ==
  /\ SelectPanel /\ o \in ui.candidates
  /\ \/ /\ ui.drafts[o] # None
        /\ SetDraft(o, None)
        /\ Click("deselect")
     \/ /\ ui.drafts[o] = None
        /\ Cardinality(Chosen(ui.drafts)) < MaxItems
        /\ SetDraft(o, suggestDraft(o))
        /\ Click("select")

\* A field of a draft is changed, its season perhaps; the type is not one of them.
updateDraft(o) ==
  /\ SelectPanel /\ ui.drafts[o] # None
  /\ \E drafts \in {MovieDrafts, EpisodeDrafts} :
       /\ ui.drafts[o] \in drafts
       /\ \E media \in drafts \ {ui.drafts[o]} : SetDraft(o, media)
  /\ Click("updateDraft")

replaceDraft(o) ==
  /\ SelectPanel /\ ui.drafts[o] # None
  /\ o \in ui.candidates
  /\ \E type \in {"movie", "episode"} : SetDraft(o, suggestDraftAs(o, type))
  /\ Click("replaceDraft")

validDraft(media) == media \in Media

\* toApplyItem keeps season 0; apply sends whatever token was typed last.
apply ==
  /\ SelectPanel /\ Press("apply")
  /\ Chosen(ui.drafts) # {}
  /\ \A o \in Chosen(ui.drafts) : validDraft(ui.drafts[o])
  /\ Render([ui EXCEPT !.pending = TRUE],
            Begin("apply", applyConfiguration(ui.token, ui.drafts, ui.csrf, auth)), FALSE)
  /\ Click("apply")

ApplyDone ==
  /\ Await("apply", "setup/configuration")
  /\ \E r \in Results(calls["apply"]) :
       /\ r.ok
       /\ Render([ui EXCEPT !.pending = FALSE, !.session = r.session, !.token = None,
                    !.tokenConfigured = TRUE, !.items = r.items, !.degraded = FALSE,
                    !.phase = "ready"], End("apply"), FALSE)
       /\ Adopt(r.session)

Back ==
  /\ SelectPanel /\ ~ui.pending
  /\ Render([ui EXCEPT !.phase = "credentials"], calls, FALSE)
  /\ Click("Back")

\* "Replace token", and "Change video" of a browser that is not paired: neither waits for
\* a request that is under way.
ReplaceToken ==
  /\ ReadyCard
  /\ Render([ui EXCEPT !.phase = "credentials", !.token = None], calls, FALSE)
  /\ Click("ReplaceToken")

-----------------------------------------------------------------------------
(* The acquisition panel.                                                  *)

openAcquisition ==
  /\ ReadyCard /\ Press("openAcquisition")
  /\ Render([ui EXCEPT !.view = "loading", !.pending = TRUE],
            [calls EXCEPT !["openAcquisition"] =
               SentHolding(getAcquisitionStatus, [csrf |-> ui.csrf, auth |-> auth])], FALSE)
  /\ Click("openAcquisition")

\* The search connection is known; the jobs are asked for with what the click captured.
OpenStatusDone ==
  /\ Await("openAcquisition", "acquisition/status")
  /\ \E r \in Results(calls["openAcquisition"]) :
       LET held == calls["openAcquisition"].held IN
       IF r.ok
         THEN /\ calls' = [calls EXCEPT !["openAcquisition"] =
                              SentHolding(listJobs(held.csrf, held.auth),
                                          [configured |-> r.configured])]
              /\ UNCHANGED ui
         ELSE Render([ui EXCEPT !.view = "closed", !.pending = FALSE],
                     End("openAcquisition"), FALSE)
  /\ UNCHANGED store

\* The job shown is one that is not over, if there is one; a list that cannot be read
\* leaves the job as it is.
JobsShown(jobs) ==
  LET open == {job \in jobs : ~terminalAcquisitionJob(job)}
  IN IF open # {} THEN open ELSE IF jobs # {} THEN jobs ELSE {NoJob}

OpenListDone ==
  /\ Await("openAcquisition", "acquisition/jobs?")
  /\ \E r \in Results(calls["openAcquisition"]) :
       LET view == IF calls["openAcquisition"].held.configured THEN "search" ELSE "settings"
           opened == [ui EXCEPT !.view = view, !.pending = FALSE]
       IN IF r.ok
            THEN \E job \in JobsShown(r.jobs) :
                   Render([opened EXCEPT !.job = job], End("openAcquisition"), TRUE)
            ELSE Render(opened, End("openAcquisition"), FALSE)
  /\ UNCHANGED store

CloseAcquisition ==
  /\ ReadyCard /\ ui.view # "closed" /\ ~ui.pending
  /\ Render([ui EXCEPT !.view = "closed"], calls, FALSE)
  /\ Click("CloseAcquisition")

ChangeProwlarr ==
  /\ SearchForm /\ ~ui.pending
  /\ Render([ui EXCEPT !.view = "settings"], calls, FALSE)
  /\ Click("ChangeProwlarr")

connectProwlarr ==
  /\ SettingsForm /\ Press("connectProwlarr")
  /\ Render([ui EXCEPT !.pending = TRUE],
            Begin("connectProwlarr", configureAcquisition(ui.csrf, auth)), FALSE)
  /\ Click("connectProwlarr")

ConnectDone ==
  /\ Await("connectProwlarr", "acquisition/settings")
  /\ \E r \in Results(calls["connectProwlarr"]) :
       /\ r.ok
       /\ Render([ui EXCEPT !.pending = FALSE, !.session = r.session, !.view = "search"],
                 End("connectProwlarr"), FALSE)
       /\ Adopt(r.session)

\* The form is filled in with a valid request for some intent.
addRequestedMedia ==
  /\ SearchForm /\ Press("addRequestedMedia")
  /\ \E intent \in Intents :
       Render([ui EXCEPT !.pending = TRUE],
              Begin("addRequestedMedia", acquireMedia(intent, ui.csrf, auth)), FALSE)
  /\ Click("addRequestedMedia")

AddDone ==
  /\ Await("addRequestedMedia", "acquisition/acquire")
  /\ \E r \in Results(calls["addRequestedMedia"]) :
       \/ /\ r.ok
          /\ Render([ui EXCEPT !.pending = FALSE, !.session = r.session, !.items = r.items,
                       !.degraded = FALSE, !.offer = None], End("addRequestedMedia"), FALSE)
          /\ Adopt(r.session)
       \/ /\ ~r.ok /\ r.code = "not_cached"
          /\ Render([ui EXCEPT !.pending = FALSE,
                       !.offer = calls["addRequestedMedia"].request.intent],
                    End("addRequestedMedia"), FALSE)
          /\ UNCHANGED store

prepareRequestedMedia ==
  /\ SearchForm /\ ui.offer # None /\ Press("prepareRequestedMedia")
  /\ Render([ui EXCEPT !.pending = TRUE],
            Begin("prepareRequestedMedia", submitJob(ui.offer, ui.csrf, auth)), FALSE)
  /\ Click("prepareRequestedMedia")

PrepareDone ==
  /\ Await("prepareRequestedMedia", "acquisition/jobs")
  /\ \E r \in Results(calls["prepareRequestedMedia"]) :
       /\ r.ok
       /\ Render([ui EXCEPT !.pending = FALSE, !.session = r.session, !.job = r.job,
                    !.offer = None], End("prepareRequestedMedia"), TRUE)
       /\ Adopt(r.session)

-----------------------------------------------------------------------------
(* The job card: its button and its timer.                                 *)

\* The manifest and its availability as a status reports them.
Refreshed(u, status) == [u EXCEPT !.items = status.items, !.degraded = Degraded(status)]

refreshAcquisitionJob ==
  /\ JobCard /\ Press("refreshAcquisitionJob")
  /\ Render([ui EXCEPT !.pending = TRUE],
            Begin("refreshAcquisitionJob", getAcquisitionJob(ui.job.id, ui.csrf, auth)), FALSE)
  /\ Click("refreshAcquisitionJob")

\* Mutant: the buttons come back before the status is asked for.
RefreshJobDoneEarly ==
  /\ Await("refreshAcquisitionJob", "acquisition/jobs/id")
  /\ \E r \in Results(calls["refreshAcquisitionJob"]) :
       /\ r.ok
       /\ Render([ui EXCEPT !.job = r.job, !.pending = FALSE],
                 IF r.job.state = "succeeded" THEN Begin("refreshAcquisitionJob", getStatus)
                 ELSE End("refreshAcquisitionJob"), TRUE)
  /\ UNCHANGED store

RefreshJobDone ==
  /\ Await("refreshAcquisitionJob", "acquisition/jobs/id")
  /\ \E r \in Results(calls["refreshAcquisitionJob"]) :
       /\ r.ok
       /\ IF r.job.state = "succeeded"
            THEN Render([ui EXCEPT !.job = r.job],
                        Begin("refreshAcquisitionJob", getStatus), TRUE)
            ELSE Render([ui EXCEPT !.job = r.job, !.pending = FALSE],
                        End("refreshAcquisitionJob"), TRUE)
  /\ UNCHANGED store

RefreshStatusDone ==
  /\ Await("refreshAcquisitionJob", "setup/status")
  /\ \E r \in Results(calls["refreshAcquisitionJob"]) :
       /\ r.ok
       /\ Render(Refreshed([ui EXCEPT !.pending = FALSE], r), End("refreshAcquisitionJob"), FALSE)
  /\ UNCHANGED store

\* Five seconds after the effect ran.
PollTimer ==
  /\ ui.timer = "armed" /\ calls["poll"] = Idle
  /\ ui' = [ui EXCEPT !.timer = "spent"]
  /\ calls' = Begin("poll", getAcquisitionJob(ui.job.id, ui.csrf, auth))
  /\ UNCHANGED <<serverVars, store, userVars>>

\* The job of a poll is shown, which runs the effect again; after "succeeded" the handler
\* goes on to read the status.
PollJobDone ==
  /\ Await("poll", "acquisition/jobs/id")
  /\ \E r \in Results(calls["poll"]) :
       /\ r.ok
       /\ ui' = [ui EXCEPT !.job = r.job, !.timer = Armed([ui EXCEPT !.job = r.job])]
       /\ calls' = IF r.job.state = "succeeded" THEN Begin("poll", getStatus) ELSE End("poll")
  /\ UNCHANGED store

\* The status counts only if it is there before React has cleaned up the effect of the
\* earlier render.
PollStatusDone ==
  /\ Await("poll", "setup/status")
  /\ \E r \in Results(calls["poll"]), cleaned \in BOOLEAN :
       /\ calls' = End("poll")
       /\ ui' = IF r.ok /\ ~cleaned THEN Refreshed(ui, r) ELSE ui
  /\ UNCHANGED store

\* A failed poll is reported and the effect does not run again.
PollFailed ==
  /\ Await("poll", "acquisition/jobs/id")
  /\ \E r \in Results(calls["poll"]) : ~r.ok
  /\ ui' = [ui EXCEPT !.timer = "failed"]
  /\ calls' = End("poll")
  /\ UNCHANGED store

\* Mutant: an error leaves the handler before its finally block.
ButtonFailedStuck ==
  \E op \in ButtonOps \ {"openAcquisition"} :
    /\ calls[op].at = "answered"
    /\ \E r \in Results(calls[op]) : ~r.ok /\ r.code # "not_cached"
    /\ Render(ui, End(op), FALSE)
    /\ UNCHANGED <<serverVars, store, userVars>>

\* A button's handler fails in its last request: the error is shown, the page stays as it
\* is and the buttons come back.  openAcquisition does more; a title that is not cached is
\* not a failure.
ButtonFailed ==
  \E op \in ButtonOps \ {"openAcquisition"} :
    /\ calls[op].at = "answered"
    /\ \E r \in Results(calls[op]) : ~r.ok /\ r.code # "not_cached"
    /\ Render([ui EXCEPT !.pending = FALSE], End(op), FALSE)
    /\ UNCHANGED <<serverVars, store, userVars>>

-----------------------------------------------------------------------------
(* The watchlist panel.                                                    *)

refreshWatchlist ==
  /\ WatchlistPanel /\ calls["refreshWatchlist"] = Idle
  /\ Render([ui EXCEPT !.watchLoading = TRUE, !.watchError = FALSE],
            Begin("refreshWatchlist", getWatchlistStatus(ui.csrf, auth)), FALSE)
  /\ Click("refreshWatchlist")

\* One button switches automatic adding, the other the policy for shows; either sends
\* both values, the other one as the panel shows it.
PolicyButtons ==
  {[ui.watch EXCEPT !.auto = ~@]}
    \cup IF ui.watch.auto
           THEN {[ui.watch EXCEPT !.show = IF @ = "pilot" THEN "off" ELSE "pilot"]} ELSE {}

changeWatchlistPolicy ==
  /\ WatchlistPanel /\ calls["changeWatchlistPolicy"] = Idle
  /\ ui.watch # NoPolicy
  /\ \E policy \in PolicyButtons :
       Render([ui EXCEPT !.watchLoading = TRUE, !.watchError = FALSE],
              Begin("changeWatchlistPolicy", setWatchlistPolicy(policy, ui.csrf, auth)), FALSE)
  /\ Click("changeWatchlistPolicy")

RefreshWatchlistDone ==
  /\ Await("refreshWatchlist", "watchlist/status")
  /\ \E r \in Results(calls["refreshWatchlist"]) :
       Render(WatchShown(r), End("refreshWatchlist"), FALSE)
  /\ UNCHANGED store

ChangePolicyDone ==
  /\ Await("changeWatchlistPolicy", "watchlist/settings")
  /\ \E r \in Results(calls["changeWatchlistPolicy"]) :
       IF r.ok
         THEN /\ Render([WatchShown(r) EXCEPT !.session = r.session],
                        End("changeWatchlistPolicy"), FALSE)
              /\ Adopt(r.session)
         ELSE Render(WatchShown(r), End("changeWatchlistPolicy"), FALSE) /\ UNCHANGED store

-----------------------------------------------------------------------------
(* The whole.                                                              *)

\* The server handles a request.
Serve(op) ==
  /\ calls[op].at \in {"sent", "orphan"}
  /\ \E out \in ServeHTTP(calls[op].request) :
       /\ disk' = out.disk
       /\ srv' = out.srv
       /\ calls' = [calls EXCEPT ![op] = IF @.at = "orphan" THEN Idle ELSE Answered(@, out.ans)]
  /\ UNCHANGED <<ui, store, userVars>>

Init ==
  /\ scenario \in Scenarios
  /\ disk = scenario.disk
  /\ srv = Fresh(1)
  /\ ui = NewPage
  /\ \E fragment \in BOOLEAN : store = [session |-> None, bootstrap |-> fragment]
  /\ calls = [op \in Ops |-> IF op = "load" THEN Sent(getStatus) ELSE Idle]
  /\ clicks = 0
  /\ reloads = 0

User ==
  \/ TypeToken \/ findVideos(TRUE) \/ findVideos(FALSE)
  \/ \E o \in Objects : toggle(o) \/ updateDraft(o) \/ replaceDraft(o)
  \/ apply \/ Back \/ ReplaceToken
  \/ openAcquisition \/ CloseAcquisition \/ ChangeProwlarr \/ connectProwlarr
  \/ addRequestedMedia \/ prepareRequestedMedia \/ refreshAcquisitionJob
  \/ refreshWatchlist \/ changeWatchlistPolicy

\* What the page does when an answer is there.
Continue ==
  \/ LoadStatus \/ LoadWatchlist
  \/ FindVideosDone \/ ApplyDone \/ OpenStatusDone \/ OpenListDone \/ ConnectDone
  \/ AddDone \/ PrepareDone \/ RefreshJobDone \/ RefreshStatusDone \/ ButtonFailed
  \/ PollJobDone \/ PollStatusDone \/ PollFailed
  \/ RefreshWatchlistDone \/ ChangePolicyDone

\* The process restarts, restores its setup and finishes jobs.
Process ==
  /\ \/ srv.csrf <= scenario.restarts /\ Restart
     \/ Restore
     \/ FinishJob
  /\ UNCHANGED <<browserVars, userVars>>

Next ==
  \/ User \/ Reload \/ Continue \/ PollTimer \/ Process
  \/ \E op \in Ops : Serve(op)

\* One of the handlers ops goes on.
Settle(ops) == \E op \in ops : calls[op].at = "answered" /\ Continue /\ calls'[op] # calls[op]

\* Handlers that do not wait for each other: those of the buttons, those of the watchlist
\* panel, and each effect.
Lanes == {ButtonOps, WatchOps, {"load"}, {"poll"}}

\* The server handles every request, every handler goes on when its answer is there and
\* the timer runs out.  The user, the process and its jobs owe nothing.
Fairness ==
  /\ \A ops \in Lanes : WF_vars(Settle(ops))
  /\ \A ops \in Lanes : WF_vars(\E op \in ops : Serve(op))
  /\ WF_vars(PollTimer)

Spec == Init /\ [][Next]_vars /\ Fairness

-----------------------------------------------------------------------------
(* Properties.                                                             *)

\* Handlers of the set that have a request under way.
UnderWay(ops) == {op \in ops : calls[op].at \in {"sent", "answered"}}

\* The request with which the page reads the watchlist while it loads.
LoadingWatchlist ==
  calls["load"].at \in {"sent", "answered"} /\ calls["load"].request.path = "watchlist/status"

\* Every part of the state has its type (the states of the React component, the storage
\* keys, the fields of the setup service).
TypeOK ==
  /\ disk \in Disks
  /\ srv \in Servers
  /\ store \in Authorizations
  /\ ui.phase \in {"loading", "credentials", "select", "ready"}
  /\ ui.csrf \in 0..srv.csrf
  /\ ui.token \in Tokens \cup {None}
  /\ auth \in Authorizations
  /\ ui.candidates \subseteq Objects
  /\ ui.drafts \in [Objects -> MovieDrafts \cup EpisodeDrafts \cup {None}]
  /\ ui.items \in [Objects -> Media \cup {"seasonless", None}]
  /\ ui.view \in {"closed", "loading", "settings", "search"}
  /\ ui.offer \in Intents \cup {None}
  /\ ui.timer \in {"off", "armed", "spent", "failed"}
  /\ ui.watch \in Policies \cup {NoPolicy}
  /\ \A op \in Ops : calls[op].at \in {"idle", "sent", "answered", "orphan"}

\* The buttons are disabled exactly while one handler of theirs has a request under way,
\* and no two have (setPending, setWatchlistLoading and the finally blocks, over handlers
\* of one and of two requests and pages that are left while they run).
PendingExact ==
  /\ Cardinality(UnderWay(ButtonOps)) = IF ui.pending THEN 1 ELSE 0
  /\ Cardinality(UnderWay(WatchOps)) + (IF LoadingWatchlist THEN 1 ELSE 0)
       = IF ui.watchLoading THEN 1 ELSE 0

\* What is selected, and what an apply that is under way asks for, was found by the latest
\* discovery, and is no more than a manifest holds: neither an answer that comes late nor
\* the manifest that the drafts start from brings anything else in.
SelectionDiscovered ==
  /\ Chosen(ui.drafts) \subseteq ui.candidates
  /\ Cardinality(Chosen(ui.drafts)) <= MaxItems
  /\ ui.phase = "select" => ui.candidates # {}
  /\ "apply" \in UnderWay(Ops) => Chosen(calls["apply"].request.items) \subseteq ui.candidates

\* Until the page is loaded again, the watchlist panel shows the policy that is stored,
\* unless it is loading or says that it could not: also when the server saved a policy
\* whose answer was lost (changeWatchlistPolicy, serveWatchlistSettings).
PanelHonest ==
  reloads = 0 /\ ui.watch # NoPolicy /\ ~ui.watchLoading /\ ~ui.watchError
    => ui.watch = disk.policy

\* The tab's storage holds the authorization that the page uses, so that loading the page
\* again keeps the browser paired (storeSession beside setSession in every handler).
ReloadKeepsPairing == ui.phase # "loading" => store = auth

\* A handler of a button ends with an answer that brings a session.
SessionDone ==
  \/ FindVideosDone \/ ApplyDone \/ ConnectDone \/ PrepareDone
  \/ AddDone /\ calls["addRequestedMedia"].ans.ok

\* A button whose request succeeds leaves the page with the session of the token that is saved
\* then, whether that session is new to it or not: whatever token was typed, replaced or refused
\* before, the next request of the page is let in (the session that the handlers issue; until
\* the page is loaded again).  changeWatchlistPolicy is not one of these buttons: it does not
\* wait for them, and an answer of its that an apply with another token overtakes brings back
\* the session of the earlier token (setup-console.tsx:213-215).
AnswerPairs ==
  [][reloads' = 0 /\ disk.token # None /\ SessionDone => ui'.session = disk.token]_vars

\* Every button comes back: no path through a handler, nor a restart of the process while
\* it waits, leaves the page disabled.
ButtonsComeBack == ui.pending ~> ~ui.pending

\* The polling effect has failed and will not run again by itself.
PollingStopped == ui.timer = "failed"

\* A job that is over is in the end shown as over, unless polling stopped at an error or
\* the page shows another job: a late answer that brings back an earlier state of the job
\* starts the timer again.
JobShownInTheEnd ==
  \A id \in 1..MaxJobs :
    /\ id \in DOMAIN disk.jobs
    /\ disk.jobs[id].state # "active"
    /\ ui.job.id = id
    ~> \/ ui.job.id # id
       \/ terminalAcquisitionJob(ui.job)
       \/ PollingStopped

\* Adding videos with the saved token keeps the active manifest: whoever edits nothing gets a
\* manifest in which every item that was found again is as it was ("keeps the active manifest
\* selected when adding videos with the saved token", setup-console.test.tsx).
ChangeKeepsManifest ==
  [][(calls["apply"].at = "sent" /\ ui.kept /\ disk'.items # disk.items)
       => \A o \in Chosen(disk.items) \cap ui.candidates : disk'.items[o] = disk.items[o]]_vars
=============================================================================
