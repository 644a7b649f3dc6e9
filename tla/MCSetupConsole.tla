--------------------------- MODULE MCSetupConsole ---------------------------
(* Small instances of SetupConsole for TLC. *)
EXTENDS SetupConsole, TLC

CONSTANTS t1, t2, o1, o2, i1

\* Two accounts that share a file; the other file of the first is what i1 asks for.
MCAccount == (t1 :> {o1, o2}) @@ (t2 :> {o1})
MCObjectOf == i1 :> o2
MCMediaOf == i1 :> "movie"
MCNameOf == (o1 :> "special") @@ (o2 :> "movie")

NothingSaved ==
  [token |-> None, items |-> Empty, policy |-> [auto |-> FALSE, show |-> "off"],
   search |-> FALSE, jobs |-> <<>>]
OneSaved == [NothingSaved EXCEPT !.token = t1, !.items[o1] = "special", !.search = TRUE]
BothSaved == [OneSaved EXCEPT !.items[o2] = "movie"]
JobUnderWay == [OneSaved EXCEPT !.jobs = <<[intent |-> i1, state |-> "active"]>>]

Scenario(d, goal, clicksMax, reloadsMax, restartsMax) ==
  [disk |-> d, goal |-> goal, clicks |-> clicksMax, reloads |-> reloadsMax, restarts |-> restartsMax]

Choosing == {"TypeToken", "findVideos", "select", "apply"}
Editing == {"findVideos", "deselect", "updateDraft", "replaceDraft", "apply", "Back"}
Replacing == Choosing \cup {"ReplaceToken", "Back"}
Asking == {"openAcquisition", "CloseAcquisition", "ChangeProwlarr", "connectProwlarr",
           "addRequestedMedia", "prepareRequestedMedia", "refreshAcquisitionJob"}
Watching == {"refreshWatchlist", "changeWatchlistPolicy"}

\* First setup; a change of the manifest, also while the process restarts; another token,
\* also while the watchlist panel is in use; media asked for; a job that ends while it is
\* shown, with a restart or a reload; the watchlist.
SetupScenarios == {
  Scenario(NothingSaved, Choosing, 5, 1, 0),
  Scenario(BothSaved, Editing, 4, 0, 0),
  Scenario(BothSaved, {"findVideos", "deselect", "apply"}, 3, 0, 1),
  Scenario(OneSaved, Replacing, 5, 0, 0),
  Scenario(OneSaved, {"changeWatchlistPolicy", "ReplaceToken", "TypeToken", "findVideos", "select", "apply"}, 6, 0, 0),
  Scenario(OneSaved, Asking, 4, 0, 0),
  Scenario(JobUnderWay, {"openAcquisition", "refreshAcquisitionJob"}, 2, 0, 1),
  Scenario(JobUnderWay, {"openAcquisition", "addRequestedMedia", "prepareRequestedMedia", "refreshAcquisitionJob"}, 3, 1, 0),
  Scenario([OneSaved EXCEPT !.search = FALSE], Asking, 3, 0, 0),
  Scenario(OneSaved, Watching, 3, 1, 1)}

ChangeScenarios == {Scenario(OneSaved, Choosing, 3, 0, 0)}
=============================================================================
