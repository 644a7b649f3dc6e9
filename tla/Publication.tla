---------------------------- MODULE Publication ----------------------------
(***************************************************************************)
(* How a manifest becomes the library that Plex sees: the transitions of   *)
(* service/setup (Apply, PublishAcquired, Restore) over the generations of *)
(* repository/setup, the publisher of cmd/blackpearl, and the worker of    *)
(* service/plexrefresh.                                                    *)
(*                                                                         *)
(* One transition runs at a time (transitionMu).  Any call may fail, the   *)
(* client may go away, and between any two calls the process may stop or   *)
(* the machine lose power.  Directory operations reach the disk in their   *)
(* order, as a journal keeps them: after a loss of power the directory is  *)
(* in a state that it was in since it was last synchronized.               *)
(***************************************************************************)
EXTENDS Integers, FiniteSets

CONSTANTS
  Tokens, Items,
  MaxItems,     \* MaximumSetupManifestItems
  Requests,     \* the pairs that Apply is asked for
  Gens,         \* bound: names of generations
  MaxAttempts,  \* bound: transitions that change the manifest
  MaxFaults,    \* bound: calls that fail
  MaxStops      \* bound: times that the process stops

None == "none"

\* A token with a manifest; no pair at all; a generation that cannot be read.
NoPair == [token |-> None, items |-> {}]
Broken == [token |-> "broken", items |-> {}]
Pairs == {p \in [token : Tokens, items : SUBSET Items] :
            p.items # {} /\ Cardinality(p.items) <= MaxItems}

ASSUME PublicationAssumption ==
  /\ None \notin Tokens \cup Items
  /\ Requests \subseteq Pairs
  /\ MaxItems \in Nat \ {0}
  /\ Gens # {} /\ 0 \notin Gens
  /\ {MaxAttempts, MaxFaults, MaxStops} \subseteq Nat

VARIABLES
  fs,        \* the setup directory: the pointer and the generations
  past,      \* earlier states of it that a loss of power may bring back
  tx,        \* the transition under way
  nfs,       \* the items of the namespace that PearlNFS serves
  status,    \* the items of the service's manifest, as Status reports them
  running,   \* whether the process runs
  restoring, \* whether restoreSavedSetup goes on
  notified,  \* the channel of the refresh worker
  plex,      \* the refresh worker, and what Plex has scanned
  last,      \* history: how the latest change of the manifest ended
  kept,      \* history: a whole manifest was published that was not in doubt
  used       \* bounds used up

repositoryVars == <<fs, past>>
serviceVars == <<tx, nfs, status, restoring>>
workerVars == <<notified, plex>>
historyVars == <<last, kept>>
vars == <<repositoryVars, serviceVars, running, workerVars, historyVars, used>>

NoTx == [pc |-> "idle"]
NoResult == [ok |-> TRUE, faults |-> 0, before |-> NoPair, could |-> {}, want |-> NoPair]

-----------------------------------------------------------------------------
(* repository/setup                                                        *)

\* LoadManifest: the pair of the current generation, if there is one and it is whole.
Load(dir) ==
  IF dir.current = 0 THEN NoPair
  ELSE IF dir.current \in DOMAIN dir.gens /\ dir.gens[dir.current] \in Pairs
    THEN dir.gens[dir.current] ELSE Broken

With(dir, gen, pair) ==
  [dir EXCEPT !.gens = [g \in DOMAIN dir.gens \cup {gen} |-> IF g = gen THEN pair ELSE dir.gens[g]]]

Without(dir, gens) ==
  [dir EXCEPT !.gens = [g \in DOMAIN dir.gens \ gens |-> dir.gens[g]]]

\* Mutant: the current generation is not recognized.
InactiveAll(dir, keep) == DOMAIN dir.gens

\* cleanupInactiveGenerations removes these.
Inactive(dir, keep) == DOMAIN dir.gens \ {keep}

\* The directory as it is, or as a loss of power may leave it; what is loaded from these.
Dirs == {fs} \cup past
Loads == {Load(dir) : dir \in Dirs}

\* newGenerationID: a name that is on no state of the disk.
FreshGens == Gens \ UNION {DOMAIN dir.gens : dir \in Dirs}
newGenerationID == CHOOSE g \in FreshGens : TRUE

\* The directory changes; a loss of power may undo it until the next synchronization.
Change(dir) == fs' = dir /\ past' = past \cup {fs}
Flush(dir) == fs' = dir /\ past' = {}

\* A call fails.
Fault(n) ==
  /\ used.faults + n <= MaxFaults
  /\ used' = [used EXCEPT !.faults = @ + n]

-----------------------------------------------------------------------------
(* The transitions of the setup service.                                   *)

Outside == UNCHANGED <<running, restoring, workerVars, nfs, status, kept>>

\* A transition ends; Restore is told of in no result.
Finish(ok, faults) ==
  /\ tx' = NoTx
  /\ last' = IF tx.mode = "restore" THEN last ELSE
              [ok |-> ok, faults |-> faults, before |-> tx.prev, could |-> tx.could, want |-> tx.pair]

\* A transition goes on at pc.
Goto(pc) == tx' = [tx EXCEPT !.pc = pc] /\ UNCHANGED last

\* The context of the request was cancelled; rollbackPersistence and Restore have one of
\* their own.
Cancelled == tx.cancelled /\ tx.mode = "commit"

\* A call fails because its context was cancelled, or for a reason of its own; faults is
\* what this adds to the failures of the transition.
CallFails(faults) ==
  \/ Cancelled /\ faults = 0 /\ UNCHANGED used
  \/ faults = 1 /\ Fault(1)

Begin(pair) ==
  /\ running /\ tx.pc = "idle"
  /\ used.attempts < MaxAttempts
  /\ used' = [used EXCEPT !.attempts = @ + 1]
  /\ tx' = [pc |-> "prepare", mode |-> "commit", pair |-> pair, want |-> pair, show |-> pair.items,
            prev |-> Load(fs), could |-> Loads, gen |-> 0, err |-> None, faults |-> 0,
            cancelled |-> FALSE]
  /\ UNCHANGED <<repositoryVars, last>> /\ Outside

Apply == \E pair \in Requests : Begin(pair)

\* PublishAcquired: one item more, up to the capacity, or one in the place of an item of the
\* same object or media.
PublishAcquired ==
  /\ Load(fs) \in Pairs
  /\ \E item \in Items, same \in SUBSET Load(fs).items :
       LET items == (Load(fs).items \ same) \cup {item} IN
       /\ Cardinality(same) <= 1
       /\ Cardinality(items) <= MaxItems
       /\ Begin([Load(fs) EXCEPT !.items = items])

\* The client goes away.
Cancel ==
  /\ tx.pc # "idle"
  /\ tx.mode = "commit" /\ ~tx.cancelled
  /\ Fault(1)
  /\ tx' = [tx EXCEPT !.cancelled = TRUE, !.faults = @ + 1]
  /\ UNCHANGED <<repositoryVars, last>> /\ Outside

\* commitManifest: the runtime is prepared and probed, the pair before it loaded.
Prepare ==
  /\ tx.pc = "prepare"
  /\ \/ ~Cancelled /\ Goto("create") /\ UNCHANGED used
     \/ \E n \in 0..1 : CallFails(n) /\ Finish(FALSE, tx.faults + n)
  /\ UNCHANGED repositoryVars /\ Outside

-----------------------------------------------------------------------------
(* saveGeneration and Clear, step by step.                                 *)

\* The save returns err; what follows is Decide.
Return(err, faults) ==
  /\ tx' = [tx EXCEPT !.pc = "saved", !.err = err, !.faults = @ + faults]
  /\ UNCHANGED last

\* The context is looked at once; a directory with the token is made.
CreateGeneration ==
  /\ tx.pc = "create"
  /\ \/ /\ ~Cancelled
        /\ FreshGens # {}
        /\ LET g == newGenerationID IN
             /\ Change(With(fs, g, [token |-> tx.want.token, items |-> {}]))
             /\ tx' = [tx EXCEPT !.pc = "state", !.gen = g]
        /\ UNCHANGED <<last, used>>
     \/ \E n \in 0..1 : CallFails(n) /\ Return("error", n) /\ UNCHANGED repositoryVars
  /\ Outside

\* A failure before the pointer is written: the generation is removed, unless that fails.
Abandon ==
  \/ Fault(1) /\ Return("error", 1) /\ Flush(Without(fs, {tx.gen}))
  \/ Fault(2) /\ Return("error", 2) /\ UNCHANGED repositoryVars

WriteState ==
  /\ tx.pc = "state"
  /\ \/ Change(With(fs, tx.gen, [fs.gens[tx.gen] EXCEPT !.items = tx.want.items])) /\ Goto("sync") /\ UNCHANGED used
     \/ Abandon
  /\ Outside

SyncGeneration ==
  /\ tx.pc = "sync"
  /\ \/ Flush(fs) /\ Goto("point") /\ UNCHANGED used
     \/ Abandon
  /\ Outside

\* The pointer is renamed into place, or removed by Clear.
CommitGeneration ==
  /\ tx.pc = "point"
  /\ \/ Change([fs EXCEPT !.current = tx.gen]) /\ Goto("root") /\ UNCHANGED used
     \/ tx.want # NoPair /\ Abandon
     \/ tx.want = NoPair /\ Fault(1) /\ Return("error", 1) /\ UNCHANGED repositoryVars
  /\ Outside

SyncRoot ==
  /\ tx.pc = "root"
  /\ \/ Flush(fs) /\ Goto("clean") /\ UNCHANGED used
     \/ Fault(1) /\ Return("error", 1) /\ UNCHANGED repositoryVars
  /\ Outside

\* The other generations are removed one after the other; a failure leaves some of them.
CleanGenerations ==
  /\ tx.pc = "clean"
  /\ LET others == Inactive(fs, tx.gen) IN
     \/ Flush(Without(fs, others)) /\ Return(None, 0) /\ UNCHANGED used
     \/ Fault(1) /\ Return("deferred", 1)
          /\ \E gone \in SUBSET others : Change(Without(fs, gone))
  /\ Outside

\* rollbackPersistence: the pair before is saved again, or the pointer removed.
RollBack(faults) ==
  /\ tx' = [tx EXCEPT !.mode = "rollback", !.want = tx.prev, !.gen = 0, !.err = None, !.cancelled = FALSE,
              !.pc = IF tx.prev = NoPair THEN "point" ELSE "create", !.faults = @ + faults]
  /\ UNCHANGED last

\* Mutant: an error of SaveManifest is returned as it is.
DecideOnError ==
  /\ tx.pc = "saved"
  /\ IF tx.mode = "commit" /\ tx.err = None THEN Goto("replace") ELSE Finish(FALSE, tx.faults)
  /\ UNCHANGED <<repositoryVars, used>> /\ Outside

\* commitManifest after SaveManifest: after an error it looks at what is saved now.
Decide ==
  /\ tx.pc = "saved"
  /\ IF tx.mode = "rollback" THEN Finish(FALSE, tx.faults) /\ UNCHANGED used
     ELSE IF tx.err = None THEN Goto("replace") /\ UNCHANGED used
     ELSE \/ /\ ~Cancelled
             /\ UNCHANGED used
             /\ IF Load(fs) # tx.want THEN Finish(FALSE, tx.faults)
                ELSE IF tx.err = "deferred" THEN Goto("replace") ELSE RollBack(0)
          \/ \E n \in 0..1 : CallFails(n) /\ Finish(FALSE, tx.faults + n)
  /\ UNCHANGED repositoryVars /\ Outside

-----------------------------------------------------------------------------
(* Publication.                                                            *)

\* setupPublisher.Publish: PearlNFS takes the new namespace first.
Replace ==
  /\ tx.pc = "replace"
  /\ \/ /\ ~Cancelled
        /\ nfs' = tx.show
        /\ kept' = (kept \/ (tx.show = tx.want.items /\ Loads = {tx.want}))
        /\ Goto("notify")
        /\ UNCHANGED used
     \/ /\ \E n \in 0..1 :
             /\ CallFails(n)
             /\ IF tx.mode = "commit" THEN RollBack(n) ELSE Finish(FALSE, n)
        /\ UNCHANGED <<nfs, kept>>
  /\ UNCHANGED <<repositoryVars, running, restoring, workerVars, status>>

\* The switch is set, the refresh worker notified and the status brought up to date.
Notify ==
  /\ tx.pc = "notify"
  /\ notified' = TRUE
  /\ status' = tx.show
  /\ restoring' = (restoring /\ (tx.mode = "restore" => tx.show # tx.want.items))
  /\ Finish(TRUE, tx.faults)
  /\ UNCHANGED <<repositoryVars, nfs, running, plex, kept, used>>

\* Mutant: whatever can be reached is published, whether or not something is already.
RestoreAlways ==
  /\ running /\ restoring /\ tx.pc = "idle"
  /\ Load(fs) \in Pairs
  /\ \E up \in SUBSET Load(fs).items \ {{}} :
       tx' = [pc |-> "replace", mode |-> "restore", pair |-> Load(fs), want |-> Load(fs),
              show |-> up, prev |-> Load(fs), could |-> Loads, gen |-> 0, err |-> None,
              faults |-> 0, cancelled |-> FALSE]
  /\ UNCHANGED <<repositoryVars, running, restoring, workerVars, nfs, status, historyVars, used>>

\* Restore, for restoreSavedSetup: what can be reached of the saved manifest is published,
\* all of it if something is published already.  It ends when nothing is saved.
Restore ==
  /\ running /\ restoring /\ tx.pc = "idle"
  /\ \/ /\ Load(fs) \notin Pairs
        /\ restoring' = FALSE
        /\ UNCHANGED tx
     \/ /\ Load(fs) \in Pairs
        /\ \E up \in SUBSET Load(fs).items \ {{}} :
             /\ up = Load(fs).items \/ status = {}
             /\ tx' = [pc |-> "replace", mode |-> "restore", pair |-> Load(fs), want |-> Load(fs),
                       show |-> up, prev |-> Load(fs), could |-> Loads, gen |-> 0, err |-> None,
                       faults |-> 0, cancelled |-> FALSE]
        /\ UNCHANGED restoring
  /\ UNCHANGED <<repositoryVars, running, workerVars, nfs, status, historyVars, used>>

\* An error that is not worth another attempt ends it too.
RestoreGivesUp ==
  /\ running /\ restoring /\ tx.pc = "idle"
  /\ Fault(1)
  /\ restoring' = FALSE
  /\ UNCHANGED <<repositoryVars, running, workerVars, tx, nfs, status, historyVars>>

-----------------------------------------------------------------------------
(* service/plexrefresh                                                     *)

PlexStep(at, next) ==
  /\ running
  /\ plex.at = at
  /\ plex' = [plex EXCEPT !.at = next]
  /\ UNCHANGED <<repositoryVars, serviceVars, running, historyVars, used>>

\* Run takes a notification, waits, drains the channel and asks for a scan; after an error
\* it waits and does the same again.
TakeNotification == notified /\ notified' = FALSE /\ PlexStep("waiting", "debounce")
drainNotifications ==
  notified' = FALSE /\ (PlexStep("debounce", "drained") \/ PlexStep("retry", "drained"))
RefreshFails ==
  /\ running /\ plex.at = "scanning"
  /\ plex' = [plex EXCEPT !.at = "retry", !.sees = {}]
  /\ UNCHANGED <<repositoryVars, serviceVars, running, notified, historyVars, used>>

\* The scan sees the namespace as it is when the request arrives.
Refresh ==
  /\ running /\ plex.at = "drained"
  /\ plex' = [plex EXCEPT !.at = "scanning", !.sees = nfs]
  /\ UNCHANGED <<repositoryVars, serviceVars, running, notified, historyVars, used>>

\* Mutant: the channel is drained after the scan instead of before it.
RefreshDoneDrains ==
  /\ running /\ plex.at = "scanning"
  /\ plex' = [plex EXCEPT !.at = "waiting", !.library = plex.sees, !.sees = {}]
  /\ notified' = FALSE
  /\ UNCHANGED <<repositoryVars, serviceVars, running, historyVars, used>>

RefreshDone ==
  /\ running /\ plex.at = "scanning"
  /\ plex' = [plex EXCEPT !.at = "waiting", !.library = plex.sees, !.sees = {}]
  /\ UNCHANGED <<repositoryVars, serviceVars, running, notified, historyVars, used>>

-----------------------------------------------------------------------------
(* The process.                                                            *)

Down(dir, before) ==
  /\ running
  /\ used.stops < MaxStops
  /\ used' = [used EXCEPT !.stops = @ + 1]
  /\ fs' = dir /\ past' = before
  /\ tx' = NoTx /\ nfs' = {} /\ status' = {}
  /\ running' = FALSE /\ restoring' = FALSE
  /\ notified' = FALSE /\ plex' = [plex EXCEPT !.at = "waiting", !.sees = {}]
  /\ last' = NoResult /\ UNCHANGED kept

Stop == Down(fs, past)
LosePower == \E dir \in past \cup {fs} : Down(dir, {})

\* New: the generations that are not current are removed, or the process does not start.
Start ==
  /\ ~running
  /\ \/ /\ Flush(Without(fs, Inactive(fs, fs.current)))
        /\ running' = TRUE /\ restoring' = TRUE
        /\ UNCHANGED used
     \/ /\ \E gone \in SUBSET Inactive(fs, fs.current) : Change(Without(fs, gone))
        /\ Fault(1)
        /\ UNCHANGED <<running, restoring>>
  /\ UNCHANGED <<tx, nfs, status, workerVars, historyVars>>

Init ==
  /\ LET empty == [current |-> 0, gens |-> <<>>]
         first == CHOOSE g \in Gens : TRUE
     IN \/ fs = empty
        \/ \E pair \in Requests : fs = [With(empty, first, pair) EXCEPT !.current = first]
  /\ past = {}
  /\ tx = NoTx /\ nfs = {} /\ status = {}
  /\ running = TRUE /\ restoring = TRUE
  /\ notified = FALSE /\ plex = [at |-> "waiting", sees |-> {}, library |-> {}]
  /\ last = NoResult /\ kept = FALSE
  /\ used = [attempts |-> 0, faults |-> 0, stops |-> 0]

Transition ==
  \/ Prepare \/ CreateGeneration \/ WriteState \/ SyncGeneration \/ CommitGeneration
  \/ SyncRoot \/ CleanGenerations \/ Decide \/ Replace \/ Notify

Worker == TakeNotification \/ drainNotifications \/ Refresh

Next ==
  \/ Apply \/ PublishAcquired \/ Cancel \/ Transition \/ Restore \/ RestoreGivesUp
  \/ Worker \/ RefreshDone \/ RefreshFails
  \/ Stop \/ LosePower \/ Start

\* A transition and the refresh worker go on while the process runs, and a scan that is
\* asked for again and again succeeds in the end.
Fairness == WF_vars(Transition) /\ WF_vars(Worker) /\ SF_vars(RefreshDone)

Spec == Init /\ [][Next]_vars /\ Fairness

-----------------------------------------------------------------------------
(* Properties.                                                             *)

\* Every part of the state has its type: whatever a loss of power brings back is a
\* directory whose pointer leads to a whole generation (Repository, Service, Worker).
TypeOK ==
  /\ \A dir \in Dirs : DOMAIN dir.gens \subseteq Gens /\ Load(dir) \in Pairs \cup {NoPair}
  /\ tx.pc \in {"idle", "prepare", "create", "state", "sync", "point", "root", "clean",
                "saved", "replace", "notify"}
  /\ nfs \subseteq Items /\ status \subseteq Items
  /\ {running, restoring, notified, kept} \subseteq BOOLEAN
  /\ plex.at \in {"waiting", "debounce", "drained", "scanning", "retry"}
  /\ plex.library \subseteq Items

\* A transition that reports success is saved, published and safe from a loss of power; one
\* that reports an error after a single failure, wherever it struck, leaves the saved pair
\* as it was, and a process that starts after a loss of power with nothing that it could not
\* have loaded before (commitManifest with rollbackPersistence).
AllOrNothing ==
  tx.pc = "idle" /\ last # NoResult =>
    /\ last.ok => Loads = {last.want}
    /\ ~last.ok /\ last.faults <= 1 => Load(fs) = last.before /\ Loads \subseteq last.could
    /\ status = nfs

\* The latest attempt failed more than once, or once where one before it had left in doubt
\* what is saved.
Doubt == ~last.ok /\ (last.faults > 1 \/ last.could # {last.before})

\* The service keeps the promises of DurableManifest.
Durable == INSTANCE DurableManifest WITH
  Nothing <- NoPair, saved <- Load(fs), maybe <- Loads, active <- nfs, doubt <- Doubt

ImplementsDurableManifest == Durable!Spec

\* What is published is scanned by Plex in the end, however notifications are coalesced and
\* scans fail, unless the process stops or something else is published.
PlexSeesInTheEnd ==
  \A items \in SUBSET Items \ {{}} :
    nfs = items ~> (plex.library = items \/ nfs # items)
=============================================================================
