------------------------- MODULE PublicationProofs -------------------------
(***************************************************************************)
(* Proofs about Publication for every set of tokens and items, any number  *)
(* of attempts, failures and stops: a change of the manifest is all or     *)
(* nothing on every state of the disk that a loss of power may leave, and  *)
(* the service implements DurableManifest.                                 *)
(***************************************************************************)
EXTENDS Publication, TLAPS

Saved == Pairs \cup {NoPair}

\* A directory whose pointer leads to a whole generation, or is not there.
IsDir(d) ==
  /\ d = [current |-> d.current, gens |-> d.gens]
  /\ DOMAIN d.gens \subseteq Gens
  /\ Load(d) \in Saved

Modes == {"commit", "rollback", "restore"}
Steps == {"prepare", "create", "state", "sync", "point", "root", "clean", "saved", "replace", "notify"}

Tx == [pc : Steps, mode : Modes, pair : Pairs, want : Saved, show : SUBSET Items, prev : Saved,
       could : SUBSET Saved, gen : Gens \cup {0}, err : {None, "error", "deferred"},
       faults : Nat, cancelled : BOOLEAN]

Result == [ok : BOOLEAN, faults : Nat, before : Saved, could : SUBSET Saved, want : Saved]

Used == [attempts : Nat, faults : Nat, stops : Nat]

PlexStates == [at : {"waiting", "debounce", "drained", "scanning", "retry"},
               sees : SUBSET Items, library : SUBSET Items]

\* The types of the variables.
TypeInv ==
  /\ \A d \in Dirs : IsDir(d)
  /\ tx \in Tx \cup {NoTx}
  /\ nfs \in SUBSET Items /\ status \in SUBSET Items
  /\ running \in BOOLEAN /\ restoring \in BOOLEAN /\ notified \in BOOLEAN /\ kept \in BOOLEAN
  /\ plex \in PlexStates
  /\ last \in Result
  /\ used \in Used

\* What a transition is after, and the failures that it has met.
ModeInv ==
  /\ tx.mode = "commit" => tx.want = tx.pair /\ tx.show = tx.pair.items
  /\ tx.mode = "rollback" =>
       /\ tx.want = tx.prev /\ tx.faults >= 1 /\ ~tx.cancelled
       /\ tx.pc \in {"create", "state", "sync", "point", "root", "clean", "saved"}
       /\ tx.pc \in {"create", "state", "sync"} => tx.want # NoPair
  /\ tx.mode = "restore" =>
       /\ tx.pc \in {"replace", "notify"}
       /\ tx.want = Load(fs) /\ tx.want \in Pairs /\ tx.show \subseteq tx.want.items
       /\ tx.pc = "replace" /\ tx.show # tx.want.items => nfs = {}
  /\ tx.cancelled => tx.faults >= 1
  /\ tx.prev \in tx.could
  /\ tx.pc = "notify" => nfs = tx.show

\* The generation that a save writes is not the current one until the pointer is renamed, and
\* is whole by then.
GenerationInv ==
  /\ tx.pc \in {"state", "sync"} =>
       tx.want \in Pairs /\ tx.gen \in DOMAIN fs.gens /\ tx.gen # fs.current
  /\ tx.pc = "state" => fs.gens[tx.gen] = [token |-> tx.want.token, items |-> {}]
  /\ tx.pc = "sync" => fs.gens[tx.gen] = tx.want
  /\ tx.pc = "point" =>
       \/ tx.want = NoPair /\ tx.gen = 0
       \/ /\ tx.want \in Pairs /\ tx.gen \in DOMAIN fs.gens /\ tx.gen # fs.current
          /\ fs.gens[tx.gen] = tx.want
  /\ tx.pc \in {"root", "clean"} => fs.current = tx.gen /\ Load(fs) = tx.want

\* What may be loaded, now or after a loss of power, at each step of a transition.
Untouched == Load(fs) = tx.prev /\ Loads \subseteq tx.could
Certain == Loads = {tx.want}

LoadsInv ==
  /\ tx.mode = "commit" =>
       /\ tx.pc \in {"prepare", "create", "state", "sync", "point"} => Untouched
       /\ tx.pc \in {"replace", "notify"} => Certain
       /\ tx.pc = "saved" =>
            /\ tx.err = None => Certain
            /\ tx.err = "deferred" => Certain /\ tx.faults >= 1 /\ (tx.cancelled => tx.faults >= 2)
            /\ tx.err = "error" =>
                 /\ tx.faults >= 1
                 /\ Untouched \/ (Load(fs) = tx.want /\ (tx.cancelled => tx.faults >= 2))
  /\ tx.pc = "clean" => Certain
  /\ tx.mode = "rollback" /\ tx.pc = "saved" =>
       IF tx.err = None THEN Certain ELSE tx.faults >= 2

\* No transition changes the manifest.
Quiet == tx = NoTx \/ tx.mode = "restore"

\* What the latest result says of the disk.
ResultInv ==
  /\ Quiet /\ last # NoResult =>
       /\ last.ok => Loads = {last.want}
       /\ ~last.ok /\ last.faults <= 1 => Load(fs) = last.before /\ Loads \subseteq last.could
  /\ Quiet /\ running => Loads = {Load(fs)} \/ Doubt
  /\ ~running => tx = NoTx /\ last = NoResult /\ nfs = {} /\ status = {}
  /\ tx.pc # "notify" => status = nfs

\* Once a manifest was published for certain, one is there for certain.
KeptInv ==
  /\ kept => NoPair \notin Loads
  /\ tx # NoTx /\ tx.mode # "restore" /\ tx.pc # "notify" /\ tx.prev = NoPair => ~kept

\* The inductive invariant.
Inv == TypeInv /\ (tx # NoTx => ModeInv /\ GenerationInv /\ LoadsInv) /\ ResultInv /\ KeptInv

-----------------------------------------------------------------------------
(* Directories.                                                            *)

\* A pair is no broken one, and is not nothing.
LEMMA PairFacts ==
  /\ Broken \notin Saved /\ NoPair \notin Pairs
  /\ \A p \in Pairs : p.items # {} /\ p.items \subseteq Items /\ p.token \in Tokens
                      /\ p = [token |-> p.token, items |-> p.items]
<1>1. \A p \in Pairs : p \in [token : Tokens, items : SUBSET Items] /\ p.items # {}
  BY DEF Pairs
<1>2. NoPair \notin Pairs /\ Broken \notin Pairs
  BY <1>1 DEF NoPair, Broken
<1>3. Broken # NoPair
  BY DEF NoPair, Broken, None
<1>4. QED BY <1>1, <1>2, <1>3 DEF Saved

\* The pointer of a directory leads to one of its generations.
LEMMA DirFacts ==
  ASSUME NEW d, IsDir(d)
  PROVE  /\ d.current = 0 => Load(d) = NoPair
         /\ d.current # 0 => /\ d.current \in DOMAIN d.gens /\ d.gens[d.current] \in Pairs
                             /\ Load(d) = d.gens[d.current]
BY PairFacts DEF IsDir, Load

\* A generation that is not current is written.
LEMMA WithKeeps ==
  ASSUME NEW d, IsDir(d), NEW g \in Gens, g # d.current, NEW pair
  PROVE  /\ IsDir(With(d, g, pair)) /\ Load(With(d, g, pair)) = Load(d)
         /\ With(d, g, pair).current = d.current
         /\ g \in DOMAIN With(d, g, pair).gens /\ With(d, g, pair).gens[g] = pair
<1> DEFINE G == [h \in DOMAIN d.gens \cup {g} |-> IF h = g THEN pair ELSE d.gens[h]]
           new == With(d, g, pair)
<1>1. d = [current |-> d.current, gens |-> d.gens]
  BY DEF IsDir
<1>2. new = [current |-> d.current, gens |-> G]
  BY <1>1 DEF With
<1>3. /\ DOMAIN G = DOMAIN d.gens \cup {g} /\ G[g] = pair
      /\ \A h \in DOMAIN d.gens : h # g => G[h] = d.gens[h]
  OBVIOUS
<1> HIDE DEF G, new
<1>4. new.current = d.current /\ new.gens = G
  BY <1>2
<1>5. Load(new) = Load(d)
  <2>1. CASE d.current = 0
    BY <1>4, <2>1 DEF Load
  <2>2. CASE d.current # 0
    <3>1. d.current \in DOMAIN d.gens /\ d.gens[d.current] \in Pairs /\ Load(d) = d.gens[d.current]
      BY <2>2, DirFacts
    <3>2. G[d.current] = d.gens[d.current] /\ d.current \in DOMAIN G
      BY <1>3, <3>1
    <3>3. QED BY <1>4, <2>2, <3>1, <3>2 DEF Load
  <2>3. QED BY <2>1, <2>2
<1>6. IsDir(new)
  BY <1>2, <1>3, <1>4, <1>5 DEF IsDir
<1>7. QED BY <1>3, <1>4, <1>5, <1>6 DEF new

\* Generations that are not current are removed.
LEMMA WithoutKeeps ==
  ASSUME NEW d, IsDir(d), NEW S, d.current \notin S
  PROVE  /\ IsDir(Without(d, S)) /\ Load(Without(d, S)) = Load(d)
         /\ Without(d, S).current = d.current
<1> DEFINE G == [h \in DOMAIN d.gens \ S |-> d.gens[h]]
           new == Without(d, S)
<1>1. d = [current |-> d.current, gens |-> d.gens]
  BY DEF IsDir
<1>2. new = [current |-> d.current, gens |-> G]
  BY <1>1 DEF Without
<1>3. DOMAIN G = DOMAIN d.gens \ S /\ \A h \in DOMAIN d.gens \ S : G[h] = d.gens[h]
  OBVIOUS
<1> HIDE DEF G, new
<1>4. new.current = d.current /\ new.gens = G
  BY <1>2
<1>5. Load(new) = Load(d)
  <2>1. CASE d.current = 0
    BY <1>4, <2>1 DEF Load
  <2>2. CASE d.current # 0
    <3>1. d.current \in DOMAIN d.gens /\ d.gens[d.current] \in Pairs /\ Load(d) = d.gens[d.current]
      BY <2>2, DirFacts
    <3>2. G[d.current] = d.gens[d.current] /\ d.current \in DOMAIN G
      BY <1>3, <3>1
    <3>3. QED BY <1>4, <2>2, <3>1, <3>2 DEF Load
  <2>3. QED BY <2>1, <2>2
<1>6. IsDir(new)
  BY <1>2, <1>3, <1>4, <1>5 DEF IsDir
<1>7. QED BY <1>4, <1>5, <1>6 DEF new

\* The pointer is moved to a whole generation, or taken away.
LEMMA PointLoads ==
  ASSUME NEW d, IsDir(d), NEW g, NEW pair,
         \/ g = 0 /\ pair = NoPair
         \/ g \in DOMAIN d.gens /\ pair = d.gens[g] /\ pair \in Pairs
  PROVE  /\ IsDir([d EXCEPT !.current = g]) /\ Load([d EXCEPT !.current = g]) = pair
         /\ [d EXCEPT !.current = g].current = g
<1> DEFINE new == [d EXCEPT !.current = g]
<1>1. d = [current |-> d.current, gens |-> d.gens] /\ DOMAIN d.gens \subseteq Gens
  BY DEF IsDir
<1>2. new = [current |-> g, gens |-> d.gens]
  BY <1>1
<1> HIDE DEF new
<1>3. new.current = g /\ new.gens = d.gens
  BY <1>2
<1>4. g # 0 => g \in DOMAIN d.gens
  OBVIOUS
<1>5. 0 \notin DOMAIN d.gens
  BY <1>1, PublicationAssumption
<1>6. Load(new) = pair
  BY <1>3, <1>4, <1>5 DEF Load
<1>7. pair \in Saved
  BY DEF Saved
<1>8. IsDir(new)
  BY <1>1, <1>2, <1>3, <1>6, <1>7 DEF IsDir
<1>9. QED BY <1>3, <1>6, <1>8 DEF new

-----------------------------------------------------------------------------
(* Changes of the disk.                                                    *)

\* The disk stays as it is.
LEMMA DiskSame ==
  ASSUME TypeInv, UNCHANGED repositoryVars
  PROVE  Load(fs') = Load(fs) /\ Loads' = Loads /\ (\A d \in Dirs' : IsDir(d)) /\ fs' = fs
<1>1. fs' = fs /\ past' = past
  BY DEF repositoryVars
<1>2. QED BY <1>1 DEF TypeInv, Loads, Dirs

\* A change that may be lost.
LEMMA DiskChange ==
  ASSUME TypeInv, NEW d, IsDir(d), Change(d)
  PROVE  /\ fs' = d /\ Load(fs') = Load(d) /\ Loads' = Loads \cup {Load(d)}
         /\ \A x \in Dirs' : IsDir(x)
<1>1. fs' = d /\ past' = past \cup {fs} /\ Dirs' = Dirs \cup {d}
  BY DEF Change, Dirs
<1>2. QED BY <1>1 DEF TypeInv, Loads

\* A change that cannot be lost.
LEMMA DiskFlush ==
  ASSUME TypeInv, NEW d, IsDir(d), Flush(d)
  PROVE  /\ fs' = d /\ Load(fs') = Load(d) /\ Loads' = {Load(d)}
         /\ \A x \in Dirs' : IsDir(x)
<1>1. fs' = d /\ past' = {} /\ Dirs' = {d}
  BY DEF Flush, Dirs
<1>2. QED BY <1>1 DEF Loads

\* What is loaded now is among what may be loaded.
LEMMA LoadsFacts ==
  ASSUME TypeInv
  PROVE  IsDir(fs) /\ Load(fs) \in Loads /\ Loads \subseteq Saved /\ Load(fs) \in Saved
<1>1. fs \in Dirs /\ \A d \in Dirs : IsDir(d)
  BY DEF TypeInv, Dirs
<1>2. QED BY <1>1 DEF Loads, IsDir

-----------------------------------------------------------------------------
(* Changes of the transition.                                              *)

\* A transition is under way exactly when it is at one of its steps.
LEMMA TxBusy ==
  ASSUME TypeInv
  PROVE  /\ tx = NoTx <=> tx.pc = "idle"
         /\ tx # NoTx => tx \in Tx /\ tx.pc \in Steps
BY DEF TypeInv, Tx, NoTx, Steps

LEMMA GotoFacts ==
  ASSUME tx \in Tx, NEW p \in Steps, Goto(p)
  PROVE  /\ tx' \in Tx /\ tx'.pc = p /\ last' = last
         /\ tx'.mode = tx.mode /\ tx'.pair = tx.pair /\ tx'.want = tx.want /\ tx'.show = tx.show
         /\ tx'.prev = tx.prev /\ tx'.could = tx.could /\ tx'.gen = tx.gen /\ tx'.err = tx.err
         /\ tx'.faults = tx.faults /\ tx'.cancelled = tx.cancelled
BY DEF Goto, Tx

LEMMA ReturnFacts ==
  ASSUME tx \in Tx, NEW e \in {None, "error", "deferred"}, NEW n \in Nat, Return(e, n)
  PROVE  /\ tx' \in Tx /\ tx'.pc = "saved" /\ tx'.err = e /\ tx'.faults = tx.faults + n /\ last' = last
         /\ tx'.mode = tx.mode /\ tx'.pair = tx.pair /\ tx'.want = tx.want /\ tx'.show = tx.show
         /\ tx'.prev = tx.prev /\ tx'.could = tx.could /\ tx'.gen = tx.gen
         /\ tx'.cancelled = tx.cancelled
<1> DEFINE f == tx.faults + n
<1>1. tx' = [tx EXCEPT !.pc = "saved", !.err = e, !.faults = f] /\ last' = last
  BY DEF Return
<1>2. f \in Nat
  BY DEF Tx
<1>3. "saved" \in Steps
  BY DEF Steps
<1> HIDE DEF f
<1>4. /\ tx' \in Tx /\ tx'.pc = "saved" /\ tx'.err = e /\ tx'.faults = f
      /\ tx'.mode = tx.mode /\ tx'.pair = tx.pair /\ tx'.want = tx.want /\ tx'.show = tx.show
      /\ tx'.prev = tx.prev /\ tx'.could = tx.could /\ tx'.gen = tx.gen
      /\ tx'.cancelled = tx.cancelled
  BY <1>1, <1>2, <1>3 DEF Tx
<1>5. QED BY <1>1, <1>4 DEF f

LEMMA RollBackFacts ==
  ASSUME tx \in Tx, NEW n \in Nat, RollBack(n)
  PROVE  /\ tx' \in Tx /\ tx'.mode = "rollback" /\ tx'.want = tx.prev /\ tx'.gen = 0
         /\ tx'.pc = (IF tx.prev = NoPair THEN "point" ELSE "create")
         /\ tx'.faults = tx.faults + n /\ ~tx'.cancelled /\ last' = last
         /\ tx'.pair = tx.pair /\ tx'.prev = tx.prev /\ tx'.could = tx.could
<1> DEFINE f == tx.faults + n
           p == IF tx.prev = NoPair THEN "point" ELSE "create"
<1>1. tx' = [tx EXCEPT !.mode = "rollback", !.want = tx.prev, !.gen = 0, !.err = None,
                       !.cancelled = FALSE, !.pc = p, !.faults = f] /\ last' = last
  BY DEF RollBack
<1>2. f \in Nat /\ tx.prev \in Saved
  BY DEF Tx
<1>3. p \in Steps /\ "rollback" \in Modes
  BY DEF Steps, Modes
<1> HIDE DEF f, p
<1>4. /\ tx' \in Tx /\ tx'.mode = "rollback" /\ tx'.want = tx.prev /\ tx'.gen = 0
      /\ tx'.pc = p /\ tx'.faults = f /\ ~tx'.cancelled
      /\ tx'.pair = tx.pair /\ tx'.prev = tx.prev /\ tx'.could = tx.could
  BY <1>1, <1>2, <1>3 DEF Tx
<1>5. QED BY <1>1, <1>4 DEF f, p

LEMMA FinishFacts ==
  ASSUME tx \in Tx, NEW b \in BOOLEAN, NEW n \in Nat, Finish(b, n), last \in Result
  PROVE  /\ tx' = NoTx /\ last' \in Result
         /\ tx.mode = "restore" => last' = last
         /\ tx.mode # "restore" =>
              /\ last'.ok = b /\ last'.faults = n /\ last'.before = tx.prev
              /\ last'.could = tx.could /\ last'.want = tx.pair
BY DEF Finish, Tx, Result, Saved

-----------------------------------------------------------------------------
(* The steps of a transition.                                              *)

\* A call that fails is counted.
LEMMA FaultFacts ==
  ASSUME TypeInv, NEW n \in Nat, Fault(n)
  PROVE  used' \in Used
<1>1. used \in Used
  BY DEF TypeInv
<1>2. used' = [used EXCEPT !.faults = used.faults + n]
  BY DEF Fault
<1>3. used.faults + n \in Nat
  BY <1>1 DEF Used
<1>4. QED BY <1>1, <1>2, <1>3 DEF Used

\* A call fails of its own, or because the client has gone, which was counted already.
LEMMA CallFailsFacts ==
  ASSUME TypeInv, tx \in Tx, NEW n \in Nat, CallFails(n)
  PROVE  /\ used' \in Used
         /\ n = 1 \/ (n = 0 /\ tx.mode = "commit" /\ tx.cancelled)
<1>1. CASE UNCHANGED used /\ Cancelled /\ n = 0
  BY <1>1 DEF TypeInv, Cancelled
<1>2. CASE n = 1 /\ Fault(n)
  BY <1>2, FaultFacts
<1>3. QED BY <1>1, <1>2 DEF CallFails

\* The saved pair stays; what a loss of power may do stays too, or is ruled out.
KeepsSaved ==
  /\ Load(fs') = Load(fs) /\ (Loads' = Loads \/ Loads' = {Load(fs)})
  /\ UNCHANGED <<nfs, kept>>

\* A transition that changes the manifest goes on.
LEMMA Continues ==
  ASSUME Inv, Outside, tx # NoTx, tx.mode # "restore", tx'.pc = "notify" <=> tx.pc = "notify",
         tx' \in Tx, tx'.mode # "restore", tx'.prev = tx.prev,
         last' = last, used' \in Used, \A d \in Dirs' : IsDir(d), kept => NoPair \notin Loads',
         (ModeInv /\ GenerationInv /\ LoadsInv)'
  PROVE  Inv'
<1>1. UNCHANGED <<running, restoring, notified, plex, nfs, status, kept>>
  BY DEF Outside, workerVars
<1>2. tx' # NoTx /\ tx'.pc # "idle"
  BY DEF Tx, Steps, NoTx
<1>3. TypeInv'
  BY <1>1 DEF Inv, TypeInv
<1>4. running
  BY DEF Inv, ResultInv, TypeInv
<1>5. ResultInv'
  BY <1>1, <1>2, <1>4 DEF Inv, ResultInv, Quiet
<1>6. KeptInv'
  BY <1>1 DEF Inv, KeptInv
<1>7. QED BY <1>3, <1>5, <1>6 DEF Inv

\* A transition fails where it has left everything as it was, or after two failures.
LEMMA Ends ==
  ASSUME Inv, Outside, tx # NoTx, tx.mode # "restore", tx.pc # "notify",
         UNCHANGED repositoryVars, NEW n \in Nat, Finish(FALSE, n), used' \in Used,
         n >= 2 \/ Untouched
  PROVE  Inv' /\ KeepsSaved
<1>1. UNCHANGED <<running, restoring, notified, plex, nfs, status, kept>>
  BY DEF Outside, workerVars
<1>2. TypeInv /\ tx \in Tx /\ last \in Result
  BY TxBusy DEF Inv, TypeInv
<1>3. /\ tx' = NoTx /\ last' \in Result /\ last'.ok = FALSE /\ last'.faults = n
      /\ last'.before = tx.prev /\ last'.could = tx.could
  BY <1>2, FinishFacts
<1>4. Load(fs') = Load(fs) /\ Loads' = Loads /\ (\A d \in Dirs' : IsDir(d)) /\ Load(fs) \in Loads
  BY <1>2, DiskSame, LoadsFacts
<1>5. TypeInv'
  BY <1>1, <1>3, <1>4 DEF Inv, TypeInv
<1>6. running
  BY DEF Inv, ResultInv, TypeInv
<1>7. ResultInv'
  <2>1. n >= 2 \/ (Load(fs') = last'.before /\ Loads' \subseteq last'.could)
    BY <1>3, <1>4 DEF Untouched
  <2>2. Loads' = {Load(fs')} \/ Doubt'
    <3>1. n > 1 => Doubt'
      BY <1>3 DEF Doubt
    <3>2. last'.could # {last'.before} => Doubt'
      BY <1>3 DEF Doubt
    <3>3. QED BY <1>4, <2>1, <3>1, <3>2
  <2>3. tx'.pc = "idle"
    BY <1>3 DEF NoTx
  <2>4. status = nfs
    BY DEF Inv, ResultInv
  <2>5. QED BY <1>1, <1>3, <1>6, <2>1, <2>2, <2>3, <2>4 DEF ResultInv
<1>8. KeptInv'
  BY <1>1, <1>3, <1>4 DEF Inv, KeptInv
<1>9. KeepsSaved
  BY <1>1, <1>4 DEF KeepsSaved
<1>10. QED BY <1>3, <1>5, <1>7, <1>8, <1>9 DEF Inv

\* commitManifest before SaveManifest.
LEMMA PrepareStep ==
  ASSUME Inv, Prepare
  PROVE  Inv' /\ KeepsSaved
<1>1. tx # NoTx /\ tx \in Tx /\ TypeInv /\ ModeInv /\ GenerationInv /\ LoadsInv
  BY TxBusy DEF Inv, Prepare
<1>2. tx.pc = "prepare" /\ tx.mode = "commit" /\ Untouched
  BY <1>1 DEF Prepare, ModeInv, LoadsInv, Tx, Modes
<1>3. UNCHANGED repositoryVars /\ Outside
  BY DEF Prepare
<1>4. Load(fs') = Load(fs) /\ Loads' = Loads /\ (\A d \in Dirs' : IsDir(d)) /\ fs' = fs
  BY <1>1, <1>3, DiskSame
<1>5. CASE Goto("create") /\ UNCHANGED used
  <2>1. /\ tx' \in Tx /\ tx'.pc = "create" /\ last' = last
        /\ tx'.mode = tx.mode /\ tx'.pair = tx.pair /\ tx'.want = tx.want /\ tx'.show = tx.show
        /\ tx'.prev = tx.prev /\ tx'.could = tx.could /\ tx'.gen = tx.gen /\ tx'.err = tx.err
        /\ tx'.faults = tx.faults /\ tx'.cancelled = tx.cancelled
    BY <1>1, <1>5, GotoFacts DEF Steps
  <2>2. ModeInv' /\ GenerationInv'
    BY <1>1, <1>2, <2>1 DEF ModeInv, GenerationInv
  <2>3. LoadsInv'
    BY <1>2, <1>4, <2>1 DEF LoadsInv, Untouched
  <2>4. kept => NoPair \notin Loads'
    BY <1>4 DEF Inv, KeptInv
  <2>5. Inv'
    BY <1>1, <1>2, <1>3, <1>4, <1>5, <2>1, <2>2, <2>3, <2>4, Continues DEF TypeInv
  <2>6. QED BY <1>3, <1>4, <2>5 DEF KeepsSaved, Outside
<1>6. ASSUME NEW n \in 0..1, CallFails(n), Finish(FALSE, tx.faults + n)
      PROVE  Inv' /\ KeepsSaved
  <2>1. used' \in Used /\ tx.faults + n \in Nat
    BY <1>1, <1>6, CallFailsFacts DEF Tx
  <2>2. QED BY <1>1, <1>2, <1>3, <1>6, <2>1, Ends
<1>7. QED BY <1>5, <1>6 DEF Prepare

\* SaveManifest returns an error that leaves the saved pair as it was, or one after the pointer
\* was written.
LEMMA SaveFails ==
  ASSUME Inv, Outside, tx # NoTx, tx.mode # "restore", tx.pc # "notify",
         NEW n \in Nat, Return("error", n), n >= 1 \/ (n = 0 /\ tx.mode = "commit" /\ tx.cancelled),
         used' \in Used, \A d \in Dirs' : IsDir(d), Load(fs') = Load(fs),
         Loads' = Loads \/ Loads' = {Load(fs)},
         tx.mode = "commit" => Untouched \/ (Load(fs) = tx.want /\ n >= 1)
  PROVE  Inv' /\ KeepsSaved
<1>1. tx \in Tx /\ TypeInv /\ ModeInv /\ Load(fs) \in Loads
  BY TxBusy, LoadsFacts DEF Inv
<1>2. /\ tx' \in Tx /\ tx'.pc = "saved" /\ tx'.err = "error" /\ tx'.faults = tx.faults + n /\ last' = last
      /\ tx'.mode = tx.mode /\ tx'.pair = tx.pair /\ tx'.want = tx.want /\ tx'.show = tx.show
      /\ tx'.prev = tx.prev /\ tx'.could = tx.could /\ tx'.gen = tx.gen
      /\ tx'.cancelled = tx.cancelled
  BY <1>1, ReturnFacts
<1>3. tx.faults \in Nat /\ tx.faults + n >= tx.faults /\ tx.faults + n >= 1
  BY <1>1 DEF Tx, ModeInv
<1>4. ModeInv' /\ GenerationInv'
  BY <1>1, <1>2, <1>3 DEF ModeInv, GenerationInv
<1>5. LoadsInv'
  <2>1. CASE tx.mode = "commit" /\ Untouched
    BY <1>1, <1>2, <1>3, <2>1 DEF LoadsInv, Untouched, None
  <2>2. CASE tx.mode = "commit" /\ Load(fs) = tx.want /\ n >= 1
    <3>1. tx.cancelled => tx.faults + n >= 2
      BY <1>1, <1>3, <2>2 DEF ModeInv
    <3>2. QED BY <1>2, <1>3, <2>2, <3>1 DEF LoadsInv, None
  <2>3. CASE tx.mode = "rollback"
    <3>1. tx.faults + n >= 2
      BY <1>1, <1>3, <2>3 DEF ModeInv
    <3>2. QED BY <1>2, <2>3, <3>1 DEF LoadsInv, None
  <2>4. QED BY <1>1, <2>1, <2>2, <2>3 DEF Tx, Modes
<1>6. kept => NoPair \notin Loads'
  BY <1>1 DEF Inv, KeptInv
<1>7. Inv'
  BY <1>1, <1>2, <1>4, <1>5, <1>6, Continues
<1>8. QED BY <1>7 DEF KeepsSaved, Outside

\* A generation is abandoned.
LEMMA AbandonStep ==
  ASSUME Inv, Outside, Abandon, tx.pc \in {"state", "sync", "point"}, tx.gen # fs.current
  PROVE  Inv' /\ KeepsSaved
<1>1. tx # NoTx /\ tx \in Tx /\ TypeInv /\ ModeInv /\ LoadsInv /\ IsDir(fs)
  BY TxBusy, LoadsFacts DEF Inv, NoTx
<1>2. tx.mode # "restore" /\ (tx.mode = "commit" => Untouched)
  BY <1>1 DEF ModeInv, LoadsInv
<1>3. CASE Fault(1) /\ Return("error", 1) /\ Flush(Without(fs, {tx.gen}))
  <2>1. IsDir(Without(fs, {tx.gen})) /\ Load(Without(fs, {tx.gen})) = Load(fs)
    BY <1>1, WithoutKeeps
  <2>2. Load(fs') = Load(fs) /\ Loads' = {Load(fs)} /\ \A d \in Dirs' : IsDir(d)
    BY <1>1, <1>3, <2>1, DiskFlush
  <2>3. used' \in Used
    BY <1>1, <1>3, FaultFacts
  <2>4. QED BY <1>1, <1>2, <1>3, <2>2, <2>3, SaveFails
<1>4. CASE Fault(2) /\ Return("error", 2) /\ UNCHANGED repositoryVars
  <2>1. used' \in Used
    BY <1>1, <1>4, FaultFacts
  <2>2. Load(fs') = Load(fs) /\ Loads' = Loads /\ \A d \in Dirs' : IsDir(d)
    BY <1>1, <1>4, DiskSame
  <2>3. QED BY <1>1, <1>2, <1>4, <2>1, <2>2, SaveFails
<1>5. QED BY <1>3, <1>4 DEF Abandon

\* saveGeneration makes the directory of a generation.
LEMMA CreateStep ==
  ASSUME Inv, CreateGeneration
  PROVE  Inv' /\ KeepsSaved
<1>1. tx # NoTx /\ tx \in Tx /\ TypeInv /\ ModeInv /\ LoadsInv /\ IsDir(fs) /\ Load(fs) \in Loads
  BY TxBusy, LoadsFacts DEF Inv, CreateGeneration
<1>2. tx.pc = "create" /\ tx.mode # "restore" /\ (tx.mode = "commit" => Untouched) /\ Outside
  BY <1>1 DEF CreateGeneration, ModeInv, LoadsInv
<1>3. ASSUME NEW g \in FreshGens,
             Change(With(fs, g, [token |-> tx.want.token, items |-> {}])),
             tx' = [tx EXCEPT !.pc = "state", !.gen = g], UNCHANGED <<last, used>>
      PROVE  Inv' /\ KeepsSaved
  <2> DEFINE new == [token |-> tx.want.token, items |-> {}]
             dir == With(fs, g, new)
  <2>1. g \in Gens /\ g \notin DOMAIN fs.gens
    BY <1>3 DEF FreshGens, Dirs
  <2>2. g # fs.current
    BY <1>1, <2>1, DirFacts, PublicationAssumption
  <2> HIDE DEF new
  <2>3. /\ IsDir(dir) /\ Load(dir) = Load(fs) /\ dir.current = fs.current
        /\ g \in DOMAIN dir.gens /\ dir.gens[g] = new
    BY <1>1, <2>1, <2>2, WithKeeps
  <2>4. Change(dir)
    BY <1>3 DEF new
  <2> HIDE DEF dir
  <2>5. /\ fs' = dir /\ Load(fs') = Load(fs) /\ Loads' = Loads /\ \A d \in Dirs' : IsDir(d)
    BY <1>1, <2>3, <2>4, DiskChange
  <2>6. /\ tx' \in Tx /\ tx'.pc = "state" /\ tx'.gen = g
        /\ tx'.mode = tx.mode /\ tx'.pair = tx.pair /\ tx'.want = tx.want /\ tx'.show = tx.show
        /\ tx'.prev = tx.prev /\ tx'.could = tx.could /\ tx'.err = tx.err
        /\ tx'.faults = tx.faults /\ tx'.cancelled = tx.cancelled
    BY <1>1, <1>3, <2>1 DEF Tx, Steps
  <2>7. tx.want \in Pairs
    BY <1>1, <1>2 DEF ModeInv, Tx, Modes, Saved
  <2>8. ModeInv'
    BY <1>1, <1>2, <2>6 DEF ModeInv
  <2>9. GenerationInv'
    BY <2>2, <2>3, <2>5, <2>6, <2>7 DEF GenerationInv, new
  <2>10. LoadsInv'
    BY <1>2, <2>5, <2>6 DEF LoadsInv, Untouched
  <2>11. kept => NoPair \notin Loads'
    BY <2>5 DEF Inv, KeptInv
  <2>12. Inv'
    BY <1>1, <1>2, <1>3, <2>5, <2>6, <2>8, <2>9, <2>10, <2>11, Continues DEF TypeInv
  <2>13. QED BY <1>2, <2>5, <2>12 DEF KeepsSaved, Outside
<1>4. ASSUME NEW n \in 0..1, CallFails(n), Return("error", n), UNCHANGED repositoryVars
      PROVE  Inv' /\ KeepsSaved
  <2>1. used' \in Used /\ (n >= 1 \/ (n = 0 /\ tx.mode = "commit" /\ tx.cancelled))
    BY <1>1, <1>4, CallFailsFacts
  <2>2. Load(fs') = Load(fs) /\ Loads' = Loads /\ \A d \in Dirs' : IsDir(d)
    BY <1>1, <1>4, DiskSame
  <2>3. QED BY <1>1, <1>2, <1>4, <2>1, <2>2, SaveFails
<1>5. CASE /\ FreshGens # {}
           /\ Change(With(fs, newGenerationID, [token |-> tx.want.token, items |-> {}]))
           /\ tx' = [tx EXCEPT !.pc = "state", !.gen = newGenerationID] /\ UNCHANGED <<last, used>>
  <2>1. newGenerationID \in FreshGens
    BY <1>5 DEF newGenerationID
  <2>2. QED BY <1>3, <1>5, <2>1
<1>6. QED BY <1>4, <1>5 DEF CreateGeneration

\* saveGeneration writes the manifest beside the token.
LEMMA WriteStep ==
  ASSUME Inv, WriteState
  PROVE  Inv' /\ KeepsSaved
<1>1. /\ tx # NoTx /\ tx \in Tx /\ TypeInv /\ ModeInv /\ GenerationInv /\ LoadsInv
      /\ IsDir(fs) /\ Load(fs) \in Loads
  BY TxBusy, LoadsFacts DEF Inv, WriteState
<1>2. /\ tx.pc = "state" /\ tx.mode # "restore" /\ (tx.mode = "commit" => Untouched) /\ Outside
      /\ tx.want \in Pairs /\ tx.gen \in DOMAIN fs.gens /\ tx.gen # fs.current
      /\ fs.gens[tx.gen] = [token |-> tx.want.token, items |-> {}]
  BY <1>1 DEF WriteState, ModeInv, LoadsInv, GenerationInv
<1>3. CASE /\ Change(With(fs, tx.gen, [fs.gens[tx.gen] EXCEPT !.items = tx.want.items]))
           /\ Goto("sync") /\ UNCHANGED used
  <2> DEFINE dir == With(fs, tx.gen, tx.want)
  <2>1. [fs.gens[tx.gen] EXCEPT !.items = tx.want.items] = tx.want
    BY <1>2, PairFacts
  <2>2. tx.gen \in Gens
    BY <1>1, <1>2 DEF IsDir
  <2>3. /\ IsDir(dir) /\ Load(dir) = Load(fs) /\ dir.current = fs.current
        /\ tx.gen \in DOMAIN dir.gens /\ dir.gens[tx.gen] = tx.want
    BY <1>1, <1>2, <2>2, WithKeeps
  <2>4. Change(dir)
    BY <1>3, <2>1
  <2> HIDE DEF dir
  <2>5. /\ fs' = dir /\ Load(fs') = Load(fs) /\ Loads' = Loads /\ \A d \in Dirs' : IsDir(d)
    BY <1>1, <2>3, <2>4, DiskChange
  <2>6. /\ tx' \in Tx /\ tx'.pc = "sync" /\ last' = last
        /\ tx'.mode = tx.mode /\ tx'.pair = tx.pair /\ tx'.want = tx.want /\ tx'.show = tx.show
        /\ tx'.prev = tx.prev /\ tx'.could = tx.could /\ tx'.gen = tx.gen /\ tx'.err = tx.err
        /\ tx'.faults = tx.faults /\ tx'.cancelled = tx.cancelled
    BY <1>1, <1>3, GotoFacts DEF Steps
  <2>7. ModeInv'
    BY <1>1, <1>2, <2>6 DEF ModeInv
  <2>8. GenerationInv'
    BY <1>2, <2>3, <2>5, <2>6 DEF GenerationInv
  <2>9. LoadsInv'
    BY <1>2, <2>5, <2>6 DEF LoadsInv, Untouched
  <2>10. kept => NoPair \notin Loads'
    BY <2>5 DEF Inv, KeptInv
  <2>11. Inv'
    BY <1>1, <1>2, <1>3, <2>5, <2>6, <2>7, <2>8, <2>9, <2>10, Continues DEF TypeInv
  <2>12. QED BY <1>2, <2>5, <2>11 DEF KeepsSaved, Outside
<1>4. CASE Abandon
  BY <1>2, <1>4, AbandonStep
<1>5. QED BY <1>3, <1>4 DEF WriteState

\* saveGeneration synchronizes the generation and its parent.
LEMMA SyncStep ==
  ASSUME Inv, SyncGeneration
  PROVE  Inv' /\ KeepsSaved
<1>1. /\ tx # NoTx /\ tx \in Tx /\ TypeInv /\ ModeInv /\ GenerationInv /\ LoadsInv
      /\ IsDir(fs) /\ Load(fs) \in Loads
  BY TxBusy, LoadsFacts DEF Inv, SyncGeneration
<1>2. /\ tx.pc = "sync" /\ tx.mode # "restore" /\ (tx.mode = "commit" => Untouched) /\ Outside
      /\ tx.want \in Pairs /\ tx.gen \in DOMAIN fs.gens /\ tx.gen # fs.current
      /\ fs.gens[tx.gen] = tx.want
  BY <1>1 DEF SyncGeneration, ModeInv, LoadsInv, GenerationInv
<1>3. CASE Flush(fs) /\ Goto("point") /\ UNCHANGED used
  <2>1. /\ fs' = fs /\ Load(fs') = Load(fs) /\ Loads' = {Load(fs)} /\ \A d \in Dirs' : IsDir(d)
    BY <1>1, <1>3, DiskFlush
  <2>2. /\ tx' \in Tx /\ tx'.pc = "point" /\ last' = last
        /\ tx'.mode = tx.mode /\ tx'.pair = tx.pair /\ tx'.want = tx.want /\ tx'.show = tx.show
        /\ tx'.prev = tx.prev /\ tx'.could = tx.could /\ tx'.gen = tx.gen /\ tx'.err = tx.err
        /\ tx'.faults = tx.faults /\ tx'.cancelled = tx.cancelled
    BY <1>1, <1>3, GotoFacts DEF Steps
  <2>3. ModeInv' /\ GenerationInv'
    BY <1>1, <1>2, <2>1, <2>2 DEF ModeInv, GenerationInv
  <2>4. LoadsInv'
    BY <1>1, <1>2, <2>1, <2>2 DEF LoadsInv, Untouched
  <2>5. kept => NoPair \notin Loads'
    BY <1>1, <2>1 DEF Inv, KeptInv
  <2>6. Inv'
    BY <1>1, <1>2, <1>3, <2>1, <2>2, <2>3, <2>4, <2>5, Continues DEF TypeInv
  <2>7. QED BY <1>2, <2>1, <2>6 DEF KeepsSaved, Outside
<1>4. CASE Abandon
  BY <1>2, <1>4, AbandonStep
<1>5. QED BY <1>3, <1>4 DEF SyncGeneration

\* Another pair is saved: what was saved before may still come back.
SavesAnother ==
  /\ Load(fs') \in Saved /\ Loads' = Loads \cup {Load(fs')}
  /\ Load(fs') = NoPair => ~kept
  /\ UNCHANGED <<nfs, kept>>

\* The pointer is renamed into place, or removed by Clear.
LEMMA CommitStep ==
  ASSUME Inv, CommitGeneration
  PROVE  Inv' /\ (KeepsSaved \/ SavesAnother)
<1>1. /\ tx # NoTx /\ tx \in Tx /\ TypeInv /\ ModeInv /\ GenerationInv /\ LoadsInv
      /\ IsDir(fs) /\ Load(fs) \in Loads
  BY TxBusy, LoadsFacts DEF Inv, CommitGeneration
<1>2. /\ tx.pc = "point" /\ tx.mode # "restore" /\ (tx.mode = "commit" => Untouched) /\ Outside
      /\ \/ tx.want = NoPair /\ tx.gen = 0
         \/ /\ tx.want \in Pairs /\ tx.gen \in DOMAIN fs.gens /\ tx.gen # fs.current
            /\ fs.gens[tx.gen] = tx.want
  BY <1>1 DEF CommitGeneration, ModeInv, LoadsInv, GenerationInv
<1>3. CASE Change([fs EXCEPT !.current = tx.gen]) /\ Goto("root") /\ UNCHANGED used
  <2> DEFINE dir == [fs EXCEPT !.current = tx.gen]
  <2>1. IsDir(dir) /\ Load(dir) = tx.want /\ dir.current = tx.gen
    BY <1>1, <1>2, PointLoads
  <2>2. Change(dir)
    BY <1>3
  <2> HIDE DEF dir
  <2>3. /\ fs'.current = tx.gen /\ Load(fs') = tx.want /\ Loads' = Loads \cup {tx.want}
        /\ \A d \in Dirs' : IsDir(d)
    BY <1>1, <2>1, <2>2, DiskChange
  <2>4. /\ tx' \in Tx /\ tx'.pc = "root" /\ last' = last
        /\ tx'.mode = tx.mode /\ tx'.pair = tx.pair /\ tx'.want = tx.want /\ tx'.show = tx.show
        /\ tx'.prev = tx.prev /\ tx'.could = tx.could /\ tx'.gen = tx.gen /\ tx'.err = tx.err
        /\ tx'.faults = tx.faults /\ tx'.cancelled = tx.cancelled
    BY <1>1, <1>3, GotoFacts DEF Steps
  <2>5. tx.want = NoPair => ~kept
    <3>1. tx.want = NoPair => tx.prev = NoPair
      BY <1>1, <1>2, PairFacts DEF ModeInv, Tx, Modes
    <3>2. QED BY <1>1, <1>2, <3>1 DEF Inv, KeptInv
  <2>6. ModeInv' /\ GenerationInv'
    BY <1>1, <1>2, <2>3, <2>4 DEF ModeInv, GenerationInv
  <2>7. LoadsInv'
    BY <2>4 DEF LoadsInv
  <2>8. kept => NoPair \notin Loads'
    BY <2>3, <2>5 DEF Inv, KeptInv
  <2>9. Inv'
    BY <1>1, <1>2, <1>3, <2>3, <2>4, <2>6, <2>7, <2>8, Continues DEF TypeInv
  <2>10. SavesAnother
    BY <1>1, <1>2, <2>3, <2>5 DEF SavesAnother, Outside, Tx
  <2>11. QED BY <2>9, <2>10
<1>4. CASE tx.want # NoPair /\ Abandon
  BY <1>2, <1>4, AbandonStep
<1>5. CASE Fault(1) /\ Return("error", 1) /\ UNCHANGED repositoryVars
  <2>1. used' \in Used
    BY <1>1, <1>5, FaultFacts
  <2>2. Load(fs') = Load(fs) /\ Loads' = Loads /\ \A d \in Dirs' : IsDir(d)
    BY <1>1, <1>5, DiskSame
  <2>3. QED BY <1>1, <1>2, <1>5, <2>1, <2>2, SaveFails
<1>6. QED BY <1>3, <1>4, <1>5 DEF CommitGeneration

\* The pointer is synchronized.
LEMMA RootStep ==
  ASSUME Inv, SyncRoot
  PROVE  Inv' /\ KeepsSaved
<1>1. /\ tx # NoTx /\ tx \in Tx /\ TypeInv /\ ModeInv /\ GenerationInv
      /\ IsDir(fs) /\ Load(fs) \in Loads
  BY TxBusy, LoadsFacts DEF Inv, SyncRoot
<1>2. /\ tx.pc = "root" /\ tx.mode # "restore" /\ Outside
      /\ fs.current = tx.gen /\ Load(fs) = tx.want
  BY <1>1 DEF SyncRoot, ModeInv, GenerationInv
<1>3. CASE Flush(fs) /\ Goto("clean") /\ UNCHANGED used
  <2>1. /\ fs' = fs /\ Load(fs') = Load(fs) /\ Loads' = {Load(fs)} /\ \A d \in Dirs' : IsDir(d)
    BY <1>1, <1>3, DiskFlush
  <2>2. /\ tx' \in Tx /\ tx'.pc = "clean" /\ last' = last
        /\ tx'.mode = tx.mode /\ tx'.pair = tx.pair /\ tx'.want = tx.want /\ tx'.show = tx.show
        /\ tx'.prev = tx.prev /\ tx'.could = tx.could /\ tx'.gen = tx.gen /\ tx'.err = tx.err
        /\ tx'.faults = tx.faults /\ tx'.cancelled = tx.cancelled
    BY <1>1, <1>3, GotoFacts DEF Steps
  <2>3. ModeInv' /\ GenerationInv'
    BY <1>1, <1>2, <2>1, <2>2 DEF ModeInv, GenerationInv
  <2>4. LoadsInv'
    BY <1>2, <2>1, <2>2 DEF LoadsInv, Certain
  <2>5. kept => NoPair \notin Loads'
    BY <1>1, <2>1 DEF Inv, KeptInv
  <2>6. Inv'
    BY <1>1, <1>2, <1>3, <2>1, <2>2, <2>3, <2>4, <2>5, Continues DEF TypeInv
  <2>7. QED BY <1>2, <2>1, <2>6 DEF KeepsSaved, Outside
<1>4. CASE Fault(1) /\ Return("error", 1) /\ UNCHANGED repositoryVars
  <2>1. used' \in Used
    BY <1>1, <1>4, FaultFacts
  <2>2. Load(fs') = Load(fs) /\ Loads' = Loads /\ \A d \in Dirs' : IsDir(d)
    BY <1>1, <1>4, DiskSame
  <2>3. QED BY <1>1, <1>2, <1>4, <2>1, <2>2, SaveFails
<1>5. QED BY <1>3, <1>4 DEF SyncRoot

\* The generations that are not current are removed.
LEMMA CleanStep ==
  ASSUME Inv, CleanGenerations
  PROVE  Inv' /\ KeepsSaved
<1>1. /\ tx # NoTx /\ tx \in Tx /\ TypeInv /\ ModeInv /\ GenerationInv /\ LoadsInv
      /\ IsDir(fs) /\ Load(fs) \in Loads
  BY TxBusy, LoadsFacts DEF Inv, CleanGenerations
<1>2. /\ tx.pc = "clean" /\ tx.mode # "restore" /\ Outside
      /\ fs.current = tx.gen /\ Load(fs) = tx.want /\ Loads = {tx.want}
  BY <1>1 DEF CleanGenerations, ModeInv, GenerationInv, LoadsInv, Certain
<1>3. ASSUME NEW S \in SUBSET Inactive(fs, tx.gen)
      PROVE  IsDir(Without(fs, S)) /\ Load(Without(fs, S)) = Load(fs)
  BY <1>1, <1>2, WithoutKeeps DEF Inactive
<1>4. ASSUME NEW e \in {None, "deferred"}, NEW n \in Nat, Return(e, n), used' \in Used,
             Load(fs') = Load(fs), Loads' = {Load(fs)}, \A d \in Dirs' : IsDir(d),
             e = "deferred" => n = 1
      PROVE  Inv' /\ KeepsSaved
  <2>1. /\ tx' \in Tx /\ tx'.pc = "saved" /\ tx'.err = e /\ tx'.faults = tx.faults + n /\ last' = last
        /\ tx'.mode = tx.mode /\ tx'.pair = tx.pair /\ tx'.want = tx.want /\ tx'.show = tx.show
        /\ tx'.prev = tx.prev /\ tx'.could = tx.could /\ tx'.gen = tx.gen
        /\ tx'.cancelled = tx.cancelled
    BY <1>1, <1>4, ReturnFacts
  <2>2. tx.faults \in Nat /\ tx.faults + n >= tx.faults
    BY <1>1 DEF Tx
  <2>3. ModeInv' /\ GenerationInv'
    BY <1>1, <1>2, <2>1, <2>2 DEF ModeInv, GenerationInv
  <2>4. Certain'
    BY <1>2, <1>4, <2>1 DEF Certain
  <2>5. e = "deferred" => tx'.faults >= 1 /\ (tx.cancelled \/ tx.mode = "rollback" => tx'.faults >= 2)
    BY <1>1, <1>4, <2>1, <2>2 DEF ModeInv
  <2>6. LoadsInv'
    BY <1>4, <2>1, <2>4, <2>5 DEF LoadsInv, None
  <2>7. kept => NoPair \notin Loads'
    BY <1>1, <1>4 DEF Inv, KeptInv
  <2>8. Inv'
    BY <1>1, <1>2, <1>4, <2>1, <2>3, <2>6, <2>7, Continues
  <2>9. QED BY <1>2, <1>4, <2>8 DEF KeepsSaved, Outside
<1>5. CASE Flush(Without(fs, Inactive(fs, tx.gen))) /\ Return(None, 0) /\ UNCHANGED used
  <2>1. Load(fs') = Load(fs) /\ Loads' = {Load(fs)} /\ \A d \in Dirs' : IsDir(d)
    BY <1>1, <1>3, <1>5, DiskFlush
  <2>2. used' \in Used
    BY <1>1, <1>5 DEF TypeInv
  <2>3. QED BY <1>4, <1>5, <2>1, <2>2 DEF None
<1>6. ASSUME Fault(1), Return("deferred", 1), NEW S \in SUBSET Inactive(fs, tx.gen), Change(Without(fs, S))
      PROVE  Inv' /\ KeepsSaved
  <2>1. Load(fs') = Load(fs) /\ Loads' = {Load(fs)} /\ \A d \in Dirs' : IsDir(d)
    BY <1>1, <1>2, <1>3, <1>6, DiskChange
  <2>2. used' \in Used
    BY <1>1, <1>6, FaultFacts
  <2>3. QED BY <1>4, <1>6, <2>1, <2>2
<1>7. QED BY <1>2, <1>5, <1>6 DEF CleanGenerations

\* rollbackPersistence begins.
LEMMA RollBackStep ==
  ASSUME Inv, Outside, tx # NoTx, tx.mode = "commit", tx.pc # "notify", UNCHANGED repositoryVars,
         NEW n \in Nat, RollBack(n), tx.faults + n >= 1, used' \in Used
  PROVE  Inv' /\ KeepsSaved
<1>1. tx \in Tx /\ TypeInv /\ ModeInv
  BY TxBusy DEF Inv
<1>2. Load(fs') = Load(fs) /\ Loads' = Loads /\ (\A d \in Dirs' : IsDir(d)) /\ fs' = fs
  BY <1>1, DiskSame
<1>3. /\ tx' \in Tx /\ tx'.mode = "rollback" /\ tx'.want = tx.prev /\ tx'.gen = 0
      /\ tx'.pc = (IF tx.prev = NoPair THEN "point" ELSE "create")
      /\ tx'.faults = tx.faults + n /\ ~tx'.cancelled /\ last' = last
      /\ tx'.pair = tx.pair /\ tx'.prev = tx.prev /\ tx'.could = tx.could
  BY <1>1, RollBackFacts
<1>4. ModeInv'
  BY <1>1, <1>3 DEF ModeInv
<1>5. GenerationInv' /\ LoadsInv'
  BY <1>3 DEF GenerationInv, LoadsInv
<1>6. kept => NoPair \notin Loads'
  BY <1>2 DEF Inv, KeptInv
<1>7. Inv'
  BY <1>1, <1>2, <1>3, <1>4, <1>5, <1>6, Continues
<1>8. QED BY <1>2, <1>7 DEF KeepsSaved, Outside

\* What commitManifest makes of the result of SaveManifest.
LEMMA DecideStep ==
  ASSUME Inv, Decide
  PROVE  Inv' /\ KeepsSaved
<1>1. /\ tx # NoTx /\ tx \in Tx /\ TypeInv /\ ModeInv /\ LoadsInv /\ Load(fs) \in Loads
      /\ tx.faults \in Nat
  BY TxBusy, LoadsFacts DEF Inv, Decide, Tx
<1>2. /\ tx.pc = "saved" /\ tx.mode # "restore" /\ Outside /\ UNCHANGED repositoryVars
  BY <1>1 DEF Decide, ModeInv
<1>3. Load(fs') = Load(fs) /\ Loads' = Loads /\ (\A d \in Dirs' : IsDir(d)) /\ fs' = fs
  BY <1>1, <1>2, DiskSame
<1>4. CASE tx.mode = "rollback"
  <2>1. Finish(FALSE, tx.faults) /\ used' \in Used
    BY <1>1, <1>4 DEF Decide, TypeInv
  <2>2. tx.faults >= 2 \/ Untouched
    BY <1>1, <1>2, <1>4 DEF LoadsInv, Certain, ModeInv, Untouched
  <2>3. QED BY <1>1, <1>2, <2>1, <2>2, Ends
<1>5. CASE tx.mode = "commit" /\ Goto("replace") /\ UNCHANGED used /\ Certain
  <2>1. /\ tx' \in Tx /\ tx'.pc = "replace" /\ last' = last
        /\ tx'.mode = tx.mode /\ tx'.pair = tx.pair /\ tx'.want = tx.want /\ tx'.show = tx.show
        /\ tx'.prev = tx.prev /\ tx'.could = tx.could /\ tx'.gen = tx.gen /\ tx'.err = tx.err
        /\ tx'.faults = tx.faults /\ tx'.cancelled = tx.cancelled
    BY <1>1, <1>5, GotoFacts DEF Steps
  <2>2. ModeInv' /\ GenerationInv'
    BY <1>1, <1>5, <2>1 DEF ModeInv, GenerationInv
  <2>3. LoadsInv'
    BY <1>3, <1>5, <2>1 DEF LoadsInv, Certain
  <2>4. kept => NoPair \notin Loads'
    BY <1>3 DEF Inv, KeptInv
  <2>5. Inv'
    BY <1>1, <1>2, <1>3, <1>5, <2>1, <2>2, <2>3, <2>4, Continues DEF TypeInv
  <2>6. QED BY <1>2, <1>3, <2>5 DEF KeepsSaved, Outside
<1>6. CASE tx.mode = "commit" /\ tx.err # None
  <2>1. /\ tx.err \in {"error", "deferred"} /\ tx.faults >= 1
        /\ tx.err = "deferred" => Certain
        /\ Untouched \/ (tx.cancelled => tx.faults >= 2)
        /\ Load(fs) # tx.want => Untouched
    BY <1>1, <1>2, <1>6 DEF LoadsInv, Tx, Certain
  <2>2. CASE UNCHANGED used /\ Load(fs) # tx.want /\ Finish(FALSE, tx.faults)
    BY <1>1, <1>2, <2>1, <2>2, Ends DEF TypeInv
  <2>3. CASE tx.err = "deferred" /\ Goto("replace") /\ UNCHANGED used
    BY <1>5, <1>6, <2>1, <2>3
  <2>4. CASE UNCHANGED used /\ RollBack(0)
    BY <1>1, <1>2, <1>6, <2>1, <2>4, RollBackStep DEF TypeInv
  <2>5. ASSUME NEW n \in 0..1, CallFails(n), Finish(FALSE, tx.faults + n)
        PROVE  Inv' /\ KeepsSaved
    <3>1. used' \in Used /\ (n = 1 \/ (n = 0 /\ tx.cancelled)) /\ tx.faults + n \in Nat
      BY <1>1, <2>5, CallFailsFacts
    <3>2. tx.faults + n >= 2 \/ Untouched
      BY <1>1, <2>1, <3>1
    <3>3. QED BY <1>1, <1>2, <2>5, <3>1, <3>2, Ends
  <2>6. QED BY <1>6, <2>2, <2>3, <2>4, <2>5 DEF Decide
<1>7. CASE tx.mode = "commit" /\ tx.err = None
  <2>1. Goto("replace") /\ UNCHANGED used /\ Certain
    BY <1>1, <1>2, <1>7 DEF Decide, LoadsInv
  <2>2. QED BY <1>5, <1>7, <2>1
<1>8. QED BY <1>1, <1>2, <1>4, <1>6, <1>7 DEF Tx, Modes

-----------------------------------------------------------------------------
(* Publication.                                                            *)

\* A catalog is published: the whole of what is saved, or part of it where nothing was.
Publishes ==
  /\ Load(fs) \in Pairs /\ Load(fs') = Load(fs) /\ Loads' = Loads
  /\ Loads = {Load(fs)} \/ Doubt
  /\ \/ nfs' = Load(fs).items /\ kept' = (kept \/ Loads = {Load(fs)})
     \/ nfs = {} /\ nfs' \subseteq Load(fs).items /\ UNCHANGED kept

\* PearlNFS takes the namespace, or does not.
LEMMA ReplaceStep ==
  ASSUME Inv, Replace
  PROVE  Inv' /\ (KeepsSaved \/ Publishes)
<1>1. /\ tx # NoTx /\ tx \in Tx /\ TypeInv /\ ModeInv /\ LoadsInv /\ ResultInv /\ KeptInv
      /\ Load(fs) \in Loads /\ tx.faults \in Nat
  BY TxBusy, LoadsFacts DEF Inv, Replace, Tx
<1>2. /\ tx.pc = "replace" /\ tx.mode \in {"commit", "restore"} /\ running
      /\ UNCHANGED repositoryVars /\ UNCHANGED <<running, restoring, notified, plex, status>>
  BY <1>1 DEF Replace, ModeInv, Tx, Modes, workerVars, ResultInv, TypeInv
<1>3. Load(fs') = Load(fs) /\ Loads' = Loads /\ (\A d \in Dirs' : IsDir(d)) /\ fs' = fs
  BY <1>1, <1>2, DiskSame
<1>4. /\ tx.want \in Pairs /\ tx.want = Load(fs) /\ tx.show \subseteq tx.want.items
      /\ tx.show = tx.want.items \/ nfs = {}
      /\ Loads = {Load(fs)} \/ Doubt
  <2>1. CASE tx.mode = "commit"
    BY <1>1, <1>2, <2>1 DEF ModeInv, LoadsInv, Certain, Tx
  <2>2. CASE tx.mode = "restore"
    BY <1>1, <1>2, <2>2 DEF ModeInv, ResultInv, Quiet
  <2>3. QED BY <1>2, <2>1, <2>2
<1>5. CASE /\ nfs' = tx.show /\ kept' = (kept \/ (tx.show = tx.want.items /\ Loads = {tx.want}))
           /\ Goto("notify") /\ UNCHANGED used
  <2>1. /\ tx' \in Tx /\ tx'.pc = "notify" /\ last' = last
        /\ tx'.mode = tx.mode /\ tx'.pair = tx.pair /\ tx'.want = tx.want /\ tx'.show = tx.show
        /\ tx'.prev = tx.prev /\ tx'.could = tx.could /\ tx'.gen = tx.gen /\ tx'.err = tx.err
        /\ tx'.faults = tx.faults /\ tx'.cancelled = tx.cancelled
    BY <1>1, <1>5, GotoFacts DEF Steps
  <2>2. nfs' \in SUBSET Items /\ kept' \in BOOLEAN
    BY <1>1, <1>5 DEF TypeInv, Tx
  <2>3. TypeInv'
    BY <1>1, <1>2, <1>3, <1>5, <2>1, <2>2 DEF TypeInv
  <2>4. ModeInv' /\ GenerationInv'
    BY <1>1, <1>2, <1>3, <1>5, <2>1 DEF ModeInv, GenerationInv
  <2>5. LoadsInv'
    BY <1>1, <1>2, <1>3, <2>1 DEF LoadsInv, Certain
  <2>6. ResultInv'
    <3>1. tx' # NoTx
      BY <2>1 DEF NoTx
    <3>2. Doubt' <=> Doubt
      BY <2>1 DEF Doubt
    <3>3. QED BY <1>1, <1>2, <1>3, <2>1, <3>1, <3>2 DEF ResultInv, Quiet
  <2>7. KeptInv'
    BY <1>1, <1>3, <1>4, <1>5, <2>1, PairFacts DEF KeptInv
  <2>8. Publishes
    <3>1. CASE tx.show = tx.want.items
      BY <1>3, <1>4, <1>5, <3>1 DEF Publishes
    <3>2. CASE tx.show # tx.want.items
      BY <1>1, <1>3, <1>4, <1>5, <3>2 DEF Publishes, TypeInv
    <3>3. QED BY <3>1, <3>2
  <2>9. QED BY <2>3, <2>4, <2>5, <2>6, <2>7, <2>8 DEF Inv
<1>6. ASSUME NEW n \in 0..1, CallFails(n), UNCHANGED <<nfs, kept>>,
             (tx.mode = "commit" /\ RollBack(n)) \/ (tx.mode # "commit" /\ Finish(FALSE, n))
      PROVE  Inv' /\ KeepsSaved
  <2>1. used' \in Used /\ (n = 1 \/ (n = 0 /\ tx.cancelled)) /\ Outside
    BY <1>1, <1>2, <1>6, CallFailsFacts DEF Outside, workerVars
  <2>2. CASE tx.mode = "commit"
    <3>1. tx.faults + n >= 1
      BY <1>1, <2>1 DEF ModeInv
    <3>2. QED BY <1>1, <1>2, <1>6, <2>1, <2>2, <3>1, RollBackStep
  <2>3. CASE tx.mode = "restore"
    <3>1. tx' = NoTx /\ last' = last
      <4>1. tx.mode # "commit"
        BY <2>3
      <4>2. Finish(FALSE, n)
        BY <1>6, <4>1, Zenon
      <4>3. n \in Nat /\ last \in Result
        BY <1>1 DEF TypeInv
      <4>4. QED BY <1>1, <2>3, <4>2, <4>3, FinishFacts
    <3>2. TypeInv'
      BY <1>1, <1>2, <1>3, <1>6, <2>1, <3>1 DEF TypeInv
    <3>3. ResultInv'
      <4>1. Doubt' <=> Doubt
        BY <3>1 DEF Doubt
      <4>2. QED BY <1>1, <1>2, <1>3, <1>6, <2>3, <3>1, <4>1 DEF ResultInv, Quiet, NoTx
    <3>4. KeptInv' /\ KeepsSaved
      BY <1>1, <1>3, <1>6, <3>1 DEF KeptInv, KeepsSaved
    <3>5. QED BY <3>1, <3>2, <3>3, <3>4 DEF Inv
  <2>4. QED BY <1>2, <2>2, <2>3
<1>7. QED BY <1>5, <1>6 DEF Replace

\* The catalog is switched and the result told.
LEMMA NotifyStep ==
  ASSUME Inv, Notify
  PROVE  Inv' /\ KeepsSaved
<1>1. /\ tx # NoTx /\ tx \in Tx /\ TypeInv /\ ModeInv /\ LoadsInv /\ ResultInv /\ KeptInv
      /\ Load(fs) \in Loads /\ tx.faults \in Nat
  BY TxBusy, LoadsFacts DEF Inv, Notify, Tx
<1>2. /\ tx.pc = "notify" /\ tx.mode \in {"commit", "restore"} /\ nfs = tx.show /\ running
      /\ UNCHANGED repositoryVars /\ UNCHANGED <<running, plex, nfs, kept, used>>
      /\ notified' = TRUE /\ status' = tx.show /\ Finish(TRUE, tx.faults)
  BY <1>1 DEF Notify, ModeInv, Tx, Modes, ResultInv, TypeInv
<1>3. Load(fs') = Load(fs) /\ Loads' = Loads /\ (\A d \in Dirs' : IsDir(d))
  BY <1>1, <1>2, DiskSame
<1>4. /\ tx' = NoTx /\ last' \in Result
      /\ tx.mode = "restore" => last' = last
      /\ tx.mode = "commit" => last'.ok = TRUE /\ last'.want = tx.pair
  BY <1>1, <1>2, FinishFacts DEF TypeInv
<1>5. status' \in SUBSET Items /\ restoring' \in BOOLEAN
  BY <1>1, <1>2 DEF TypeInv, Notify
<1>6. TypeInv'
  BY <1>1, <1>2, <1>3, <1>4, <1>5 DEF TypeInv
<1>7. ResultInv'
  <2>1. CASE tx.mode = "commit"
    <3>1. Loads' = {last'.want} /\ Loads' = {Load(fs')}
      BY <1>1, <1>2, <1>3, <1>4, <2>1 DEF LoadsInv, Certain, ModeInv
    <3>2. QED BY <1>2, <1>4, <2>1, <3>1 DEF ResultInv
  <2>2. CASE tx.mode = "restore"
    <3>1. Doubt' <=> Doubt
      BY <1>4, <2>2 DEF Doubt
    <3>2. QED BY <1>1, <1>2, <1>3, <1>4, <2>2, <3>1 DEF ResultInv, Quiet
  <2>3. QED BY <1>2, <2>1, <2>2
<1>8. KeptInv' /\ KeepsSaved
  BY <1>1, <1>2, <1>3, <1>4 DEF KeptInv, KeepsSaved
<1>9. QED BY <1>4, <1>6, <1>7, <1>8 DEF Inv

-----------------------------------------------------------------------------
(* The beginning of a transition, and the rest of the system.              *)

\* Apply or PublishAcquired begins.
LEMMA BeginStep ==
  ASSUME Inv, NEW pair \in Pairs, Begin(pair)
  PROVE  Inv' /\ KeepsSaved
<1>1. TypeInv /\ ResultInv /\ KeptInv /\ tx = NoTx /\ Load(fs) \in Loads /\ Loads \subseteq Saved /\ Load(fs) \in Saved
  BY TxBusy, LoadsFacts DEF Inv, Begin
<1>2. /\ running /\ UNCHANGED repositoryVars /\ last' = last
      /\ UNCHANGED <<running, restoring, notified, plex, nfs, status, kept>>
  BY DEF Begin, Outside, workerVars
<1>3. Load(fs') = Load(fs) /\ Loads' = Loads /\ (\A d \in Dirs' : IsDir(d)) /\ fs' = fs
  BY <1>1, <1>2, DiskSame
<1>4. used' \in Used
  <2>1. used \in Used /\ used' = [used EXCEPT !.attempts = used.attempts + 1]
    BY <1>1 DEF TypeInv, Begin
  <2>2. used.attempts + 1 \in Nat
    BY <2>1 DEF Used
  <2>3. QED BY <2>1, <2>2 DEF Used
<1>5. tx' = [pc |-> "prepare", mode |-> "commit", pair |-> pair, want |-> pair, show |-> pair.items,
             prev |-> Load(fs), could |-> Loads, gen |-> 0, err |-> None, faults |-> 0,
             cancelled |-> FALSE]
  BY DEF Begin
<1>6. /\ tx'.pc = "prepare" /\ tx'.mode = "commit" /\ tx'.pair = pair /\ tx'.want = pair
      /\ tx'.show = pair.items /\ tx'.prev = Load(fs) /\ tx'.could = Loads /\ tx'.faults = 0
      /\ ~tx'.cancelled
  BY <1>5
<1>7. tx' \in Tx
  <2>1. pair.items \in SUBSET Items /\ pair \in Saved
    BY PairFacts DEF Saved
  <2>2. QED BY <1>1, <1>5, <2>1 DEF Tx, Steps, Modes, None
<1>8. tx' # NoTx
  BY <1>6 DEF NoTx
<1>9. TypeInv'
  BY <1>1, <1>2, <1>3, <1>4, <1>7 DEF TypeInv
<1>10. ModeInv' /\ GenerationInv'
  BY <1>1, <1>6 DEF ModeInv, GenerationInv
<1>11. LoadsInv'
  BY <1>3, <1>6 DEF LoadsInv, Untouched
<1>12. ResultInv'
  BY <1>1, <1>2, <1>6, <1>8 DEF ResultInv, Quiet, NoTx
<1>13. KeptInv' /\ KeepsSaved
  BY <1>1, <1>2, <1>3, <1>6 DEF KeptInv, KeepsSaved
<1>14. QED BY <1>9, <1>10, <1>11, <1>12, <1>13 DEF Inv

\* PublishAcquired adds an item to the pair that is saved, or replaces one in it.
LEMMA PublishAcquiredStep ==
  ASSUME Inv, PublishAcquired
  PROVE  Inv' /\ KeepsSaved
<1>1. PICK item \in Items, same \in SUBSET Load(fs).items :
        /\ Load(fs) \in Pairs
        /\ Cardinality((Load(fs).items \ same) \cup {item}) <= MaxItems
        /\ Begin([Load(fs) EXCEPT !.items = (Load(fs).items \ same) \cup {item}])
  BY DEF PublishAcquired
<1> DEFINE more == (Load(fs).items \ same) \cup {item}
           pair == [token |-> Load(fs).token, items |-> more]
<1>2. /\ Load(fs) = [token |-> Load(fs).token, items |-> Load(fs).items]
      /\ Load(fs).token \in Tokens /\ more \in SUBSET Items /\ more # {}
  BY <1>1, PairFacts
<1>3. [Load(fs) EXCEPT !.items = (Load(fs).items \ same) \cup {item}] = pair
  BY <1>2
<1>4. Cardinality(more) <= MaxItems
  BY <1>1
<1> HIDE DEF more
<1>5. pair \in Pairs
  BY <1>2, <1>4 DEF Pairs
<1>6. QED BY <1>1, <1>3, <1>5, BeginStep

\* The client goes away.
LEMMA CancelStep ==
  ASSUME Inv, Cancel
  PROVE  Inv' /\ KeepsSaved
<1>1. /\ tx # NoTx /\ tx \in Tx /\ TypeInv /\ ModeInv /\ GenerationInv /\ LoadsInv
      /\ tx.faults \in Nat
  BY TxBusy DEF Inv, Cancel, Tx
<1>2. tx.mode = "commit" /\ Outside /\ UNCHANGED repositoryVars /\ last' = last /\ used' \in Used
  BY <1>1, FaultFacts DEF Cancel
<1>3. Load(fs') = Load(fs) /\ Loads' = Loads /\ (\A d \in Dirs' : IsDir(d)) /\ fs' = fs
  BY <1>1, <1>2, DiskSame
<1>4. /\ tx' \in Tx /\ tx'.pc = tx.pc
      /\ tx'.mode = tx.mode /\ tx'.pair = tx.pair /\ tx'.want = tx.want /\ tx'.show = tx.show
      /\ tx'.prev = tx.prev /\ tx'.could = tx.could /\ tx'.gen = tx.gen /\ tx'.err = tx.err
      /\ tx'.faults = tx.faults + 1 /\ tx'.cancelled
  <2> DEFINE f == tx.faults + 1
  <2>1. tx' = [tx EXCEPT !.cancelled = TRUE, !.faults = f] /\ f \in Nat
    BY <1>1 DEF Cancel
  <2> HIDE DEF f
  <2>2. /\ tx' \in Tx /\ tx'.pc = tx.pc
        /\ tx'.mode = tx.mode /\ tx'.pair = tx.pair /\ tx'.want = tx.want /\ tx'.show = tx.show
        /\ tx'.prev = tx.prev /\ tx'.could = tx.could /\ tx'.gen = tx.gen /\ tx'.err = tx.err
        /\ tx'.faults = f /\ tx'.cancelled
    BY <1>1, <2>1 DEF Tx
  <2>3. QED BY <2>2 DEF f
<1>5. UNCHANGED nfs
  BY <1>2 DEF Outside
<1>6. ModeInv' /\ GenerationInv'
  BY <1>1, <1>2, <1>3, <1>4, <1>5 DEF ModeInv, GenerationInv
<1>7. LoadsInv'
  <2>1. Untouched' <=> Untouched
    BY <1>3, <1>4 DEF Untouched
  <2>2. Certain' <=> Certain
    BY <1>3, <1>4 DEF Certain
  <2>3. QED BY <1>1, <1>2, <1>3, <1>4, <2>1, <2>2 DEF LoadsInv
<1>8. kept => NoPair \notin Loads'
  BY <1>3 DEF Inv, KeptInv
<1>9. Inv'
  BY <1>1, <1>2, <1>3, <1>4, <1>6, <1>7, <1>8, Continues
<1>10. QED BY <1>2, <1>3, <1>9 DEF KeepsSaved, Outside

\* A step that touches neither the disk nor the service.
LEMMA Elsewhere ==
  ASSUME Inv, UNCHANGED <<fs, past, tx, nfs, status, running, last, kept>>,
         restoring' \in BOOLEAN, notified' \in BOOLEAN, plex' \in PlexStates, used' \in Used
  PROVE  Inv' /\ KeepsSaved
<1>1. TypeInv /\ UNCHANGED repositoryVars
  BY DEF Inv, repositoryVars
<1>2. Load(fs') = Load(fs) /\ Loads' = Loads /\ (\A d \in Dirs' : IsDir(d))
  BY <1>1, DiskSame
<1>3. TypeInv'
  BY <1>1, <1>2 DEF TypeInv
<1>4. tx # NoTx => (ModeInv /\ GenerationInv /\ LoadsInv)'
  BY <1>2 DEF Inv, ModeInv, GenerationInv, LoadsInv, Untouched, Certain
<1>5. ResultInv' /\ KeptInv'
  BY <1>2 DEF Inv, ResultInv, Quiet, Doubt, KeptInv
<1>6. QED BY <1>2, <1>3, <1>4, <1>5 DEF Inv, KeepsSaved

\* The restore loop takes what is saved.
LEMMA RestoreStep ==
  ASSUME Inv, Restore
  PROVE  Inv' /\ KeepsSaved
<1>1. /\ TypeInv /\ ResultInv /\ KeptInv /\ tx = NoTx /\ Load(fs) \in Loads /\ Loads \subseteq Saved
      /\ Load(fs) \in Saved /\ status = nfs /\ running
  BY TxBusy, LoadsFacts DEF Inv, Restore, ResultInv
<1>2. /\ UNCHANGED repositoryVars
      /\ UNCHANGED <<running, notified, plex, nfs, status, last, kept, used>>
  BY DEF Restore, workerVars, historyVars
<1>3. CASE restoring' = FALSE /\ UNCHANGED tx
  BY <1>1, <1>2, <1>3, Elsewhere DEF TypeInv, repositoryVars
<1>4. ASSUME Load(fs) \in Pairs, NEW up \in SUBSET Load(fs).items, up = Load(fs).items \/ status = {},
             UNCHANGED restoring,
             tx' = [pc |-> "replace", mode |-> "restore", pair |-> Load(fs), want |-> Load(fs),
                    show |-> up, prev |-> Load(fs), could |-> Loads, gen |-> 0, err |-> None,
                    faults |-> 0, cancelled |-> FALSE]
      PROVE  Inv' /\ KeepsSaved
  <2>1. Load(fs') = Load(fs) /\ Loads' = Loads /\ (\A d \in Dirs' : IsDir(d))
    BY <1>1, <1>2, DiskSame
  <2>2. /\ tx'.pc = "replace" /\ tx'.mode = "restore" /\ tx'.want = Load(fs) /\ tx'.show = up
        /\ tx'.prev = Load(fs) /\ tx'.could = Loads /\ ~tx'.cancelled
    BY <1>4
  <2>3. tx' \in Tx
    <3>1. up \in SUBSET Items
      BY <1>4, PairFacts
    <3>2. QED BY <1>1, <1>4, <3>1 DEF Tx, Steps, Modes, None
  <2>4. TypeInv'
    BY <1>1, <1>2, <1>4, <2>1, <2>3 DEF TypeInv
  <2>5. ModeInv' /\ GenerationInv' /\ LoadsInv'
    BY <1>1, <1>2, <1>4, <2>1, <2>2 DEF ModeInv, GenerationInv, LoadsInv
  <2>6. ResultInv'
    <3>1. Doubt' <=> Doubt
      BY <1>2 DEF Doubt
    <3>2. QED BY <1>1, <1>2, <2>1, <2>2, <3>1 DEF ResultInv, Quiet
  <2>7. KeptInv' /\ KeepsSaved
    BY <1>1, <1>2, <2>1, <2>2 DEF KeptInv, KeepsSaved
  <2>8. QED BY <2>4, <2>5, <2>6, <2>7 DEF Inv
<1>5. QED BY <1>3, <1>4 DEF Restore

\* The process stops, with the power or without it.
Stops ==
  /\ nfs' = {} /\ UNCHANGED kept
  /\ \/ Load(fs') = Load(fs) /\ Loads' = Loads
     \/ Load(fs') \in Loads /\ Loads' = {Load(fs')}

LEMMA DownStep ==
  ASSUME Inv, Stop \/ LosePower
  PROVE  Inv' /\ Stops
<1>1. TypeInv /\ KeptInv /\ \A d \in Dirs : IsDir(d)
  BY DEF Inv, TypeInv
<1>2. PICK dir \in Dirs, before \in {past, {}} : Down(dir, before) /\ (before = past => dir = fs \/ past = {})
  <2>1. CASE Stop
    BY <2>1 DEF Stop, Dirs
  <2>2. CASE LosePower
    <3>1. PICK dir \in past \cup {fs} : Down(dir, {})
      BY <2>2 DEF LosePower
    <3>2. dir \in Dirs /\ (past = {} => dir = fs)
      BY DEF Dirs
    <3>3. QED BY <3>1, <3>2
  <2>3. QED BY <2>1, <2>2
<1>3. fs' = dir /\ past' = before /\ Dirs' = {dir} \cup before
  BY <1>2 DEF Down, Dirs
<1>4. /\ tx' = NoTx /\ nfs' = {} /\ status' = {} /\ running' = FALSE /\ restoring' = FALSE
      /\ notified' = FALSE /\ last' = NoResult /\ kept' = kept
  BY <1>2 DEF Down
<1>5. Dirs' \subseteq Dirs /\ \A d \in Dirs' : IsDir(d)
  BY <1>1, <1>2, <1>3 DEF Dirs
<1>6. used' \in Used /\ plex' \in PlexStates
  <2>1. used \in Used /\ used' = [used EXCEPT !.stops = used.stops + 1]
    BY <1>1, <1>2 DEF TypeInv, Down
  <2>2. used.stops + 1 \in Nat
    BY <2>1 DEF Used
  <2>3. used' \in Used
    BY <2>1, <2>2 DEF Used
  <2>4. plex' \in PlexStates
    BY <1>1, <1>2 DEF TypeInv, Down, PlexStates
  <2>5. QED BY <2>3, <2>4
<1>7. NoResult \in Result
  BY DEF NoResult, Result, Saved
<1>8. TypeInv'
  BY <1>1, <1>4, <1>5, <1>6, <1>7 DEF TypeInv
<1>9. Loads' \subseteq Loads
  BY <1>5 DEF Loads
<1>10. ResultInv' /\ KeptInv'
  BY <1>1, <1>4, <1>9 DEF ResultInv, KeptInv
<1>11. Stops
  <2>1. CASE dir = fs /\ before = past
    <3>1. Load(fs') = Load(fs) /\ Dirs' = Dirs
      BY <1>3, <2>1 DEF Dirs
    <3>2. QED BY <1>4, <3>1 DEF Stops, Loads
  <2>2. CASE before = {}
    <3>1. Load(fs') = Load(dir) /\ Loads' = {Load(dir)} /\ Load(dir) \in Loads
      BY <1>2, <1>3, <2>2 DEF Loads
    <3>2. QED BY <1>4, <3>1 DEF Stops
  <2>3. QED BY <1>2, <2>1, <2>2
<1>12. QED BY <1>4, <1>8, <1>10, <1>11 DEF Inv

\* The process starts, or removes some generations and does not.
LEMMA StartStep ==
  ASSUME Inv, Start
  PROVE  Inv' /\ KeepsSaved
<1>1. /\ TypeInv /\ ResultInv /\ KeptInv /\ IsDir(fs) /\ Load(fs) \in Loads
      /\ tx = NoTx /\ last = NoResult /\ nfs = {} /\ status = {}
  BY LoadsFacts DEF Inv, Start, ResultInv
<1>2. UNCHANGED <<tx, nfs, status, notified, plex, last, kept>>
  BY DEF Start, workerVars, historyVars
<1>3. ASSUME NEW S \in SUBSET Inactive(fs, fs.current)
      PROVE  IsDir(Without(fs, S)) /\ Load(Without(fs, S)) = Load(fs)
  BY <1>1, WithoutKeeps DEF Inactive
<1>4. /\ Load(fs') = Load(fs) /\ Loads' \in {Loads, {Load(fs)}} /\ \A d \in Dirs' : IsDir(d)
      /\ used' \in Used /\ running' \in BOOLEAN /\ restoring' \in BOOLEAN
      /\ running' => Loads' = {Load(fs')}
  <2>1. CASE /\ Flush(Without(fs, Inactive(fs, fs.current)))
             /\ running' = TRUE /\ restoring' = TRUE /\ UNCHANGED used
    BY <1>1, <1>3, <2>1, DiskFlush DEF TypeInv
  <2>2. ASSUME NEW S \in SUBSET Inactive(fs, fs.current), Change(Without(fs, S)), Fault(1),
               UNCHANGED <<running, restoring>>
        PROVE  /\ Load(fs') = Load(fs) /\ Loads' = Loads /\ \A d \in Dirs' : IsDir(d)
               /\ used' \in Used /\ running' \in BOOLEAN /\ restoring' \in BOOLEAN /\ ~running'
    <3>1. Load(fs') = Load(fs) /\ Loads' = Loads /\ \A d \in Dirs' : IsDir(d)
      BY <1>1, <1>3, <2>2, DiskChange
    <3>2. used' \in Used
      BY <1>1, <2>2, FaultFacts
    <3>3. QED BY <1>1, <2>2, <3>1, <3>2 DEF Start, TypeInv
  <2>3. QED BY <2>1, <2>2 DEF Start
<1>5. TypeInv'
  BY <1>1, <1>2, <1>4 DEF TypeInv
<1>6. ResultInv' /\ KeptInv' /\ KeepsSaved
  BY <1>1, <1>2, <1>4 DEF ResultInv, KeptInv, KeepsSaved
<1>7. QED BY <1>1, <1>2, <1>5, <1>6 DEF Inv

\* The refresh worker and the end of the restore loop.
LEMMA WorkerStep ==
  ASSUME Inv, Worker \/ RefreshDone \/ RefreshFails \/ RestoreGivesUp
  PROVE  Inv' /\ KeepsSaved
<1>1. /\ TypeInv /\ restoring \in BOOLEAN /\ notified \in BOOLEAN /\ plex \in PlexStates
      /\ nfs \in SUBSET Items /\ used \in Used
  BY DEF Inv, TypeInv
<1>2. CASE RestoreGivesUp
  <2>1. used' \in Used
    BY <1>1, <1>2, FaultFacts DEF RestoreGivesUp
  <2>2. QED BY <1>1, <1>2, <2>1, Elsewhere DEF RestoreGivesUp, repositoryVars, workerVars, historyVars
<1>3. CASE Worker \/ RefreshDone \/ RefreshFails
  <2>1. UNCHANGED <<fs, past, tx, nfs, status, restoring, running, last, kept, used>>
    BY <1>3 DEF Worker, TakeNotification, drainNotifications, Refresh, RefreshDone, RefreshFails,
                PlexStep, repositoryVars, serviceVars, historyVars
  <2>2. notified' \in BOOLEAN
    BY <1>1, <1>3 DEF Worker, TakeNotification, drainNotifications, Refresh, RefreshDone, RefreshFails
  <2>3. plex' \in PlexStates
    <3>1. CASE \E at \in {"debounce", "drained"} : plex' = [plex EXCEPT !.at = at]
      BY <1>1, <3>1 DEF PlexStates
    <3>2. CASE Refresh
      BY <1>1, <3>2 DEF Refresh, PlexStates
    <3>3. CASE RefreshDone
      BY <1>1, <3>3 DEF RefreshDone, PlexStates
    <3>4. CASE RefreshFails
      BY <1>1, <3>4 DEF RefreshFails, PlexStates
    <3>5. QED BY <1>3, <3>1, <3>2, <3>3, <3>4 DEF Worker, TakeNotification, drainNotifications, PlexStep
  <2>4. QED BY <1>1, <2>1, <2>2, <2>3, Elsewhere
<1>4. QED BY <1>2, <1>3

-----------------------------------------------------------------------------
(* The theorems.                                                           *)

\* The invariant holds at the start.
LEMMA InvInit == Init => Inv
<1> SUFFICES ASSUME Init PROVE Inv
  OBVIOUS
<1> DEFINE empty == [current |-> 0, gens |-> <<>>]
           first == CHOOSE g \in Gens : TRUE
<1>1. IsDir(empty)
  BY DEF IsDir, Load, Saved
<1>2. first \in Gens /\ first # empty.current
  BY PublicationAssumption
<1>3. fs = empty \/ \E pair \in Requests : fs = [With(empty, first, pair) EXCEPT !.current = first]
  BY DEF Init
<1>4. IsDir(fs)
  <2>1. ASSUME NEW pair \in Requests
        PROVE  IsDir([With(empty, first, pair) EXCEPT !.current = first])
    <3> HIDE DEF first, empty
    <3>1. /\ IsDir(With(empty, first, pair)) /\ first \in DOMAIN With(empty, first, pair).gens
          /\ With(empty, first, pair).gens[first] = pair
      BY <1>1, <1>2, WithKeeps
    <3>2. pair \in Pairs
      BY PublicationAssumption
    <3>3. QED BY <3>1, <3>2, PointLoads
  <2>2. QED BY <1>1, <1>3, <2>1
<1>5. /\ past = {} /\ tx = NoTx /\ nfs = {} /\ status = {} /\ running = TRUE /\ restoring = TRUE
      /\ notified = FALSE /\ plex = [at |-> "waiting", sees |-> {}, library |-> {}]
      /\ last = NoResult /\ kept = FALSE /\ used = [attempts |-> 0, faults |-> 0, stops |-> 0]
  BY DEF Init
<1>6. Dirs = {fs} /\ Loads = {Load(fs)}
  BY <1>5 DEF Dirs, Loads
<1>7. TypeInv
  <2>1. NoResult \in Result
    BY DEF NoResult, Result, Saved
  <2>2. plex \in PlexStates /\ used \in Used
    BY <1>5 DEF PlexStates, Used
  <2>3. QED BY <1>4, <1>5, <1>6, <2>1, <2>2 DEF TypeInv
<1>8. ResultInv /\ KeptInv
  BY <1>5, <1>6 DEF ResultInv, KeptInv
<1>9. QED BY <1>5, <1>7, <1>8 DEF Inv

\* What a step does to what is saved and published: one of the abstract steps.
Effect == KeepsSaved \/ SavesAnother \/ Publishes \/ Stops

\* Every step keeps the invariant and has one of these effects.
LEMMA InvStep ==
  ASSUME Inv, [Next]_vars
  PROVE  Inv' /\ Effect
<1> USE DEF Effect
<1>1. CASE Apply
  BY <1>1, BeginStep, PublicationAssumption DEF Apply
<1>2. CASE PublishAcquired
  BY <1>2, PublishAcquiredStep
<1>3. CASE Cancel
  BY <1>3, CancelStep
<1>4. CASE Transition
  BY <1>4, PrepareStep, CreateStep, WriteStep, SyncStep, CommitStep, RootStep, CleanStep,
     DecideStep, ReplaceStep, NotifyStep DEF Transition
<1>5. CASE Restore
  BY <1>5, RestoreStep
<1>6. CASE Worker \/ RefreshDone \/ RefreshFails \/ RestoreGivesUp
  BY <1>6, WorkerStep
<1>7. CASE Stop \/ LosePower
  BY <1>7, DownStep
<1>8. CASE Start
  BY <1>8, StartStep
<1>9. CASE UNCHANGED vars
  <2>1. UNCHANGED <<fs, past, tx, nfs, status, running, last, kept, restoring, notified, plex, used>>
    BY <1>9 DEF vars, repositoryVars, serviceVars, workerVars, historyVars
  <2>2. QED BY <2>1, Elsewhere DEF Inv, TypeInv
<1>10. QED BY <1>1, <1>2, <1>3, <1>4, <1>5, <1>6, <1>7, <1>8, <1>9 DEF Next

\* Whatever a loss of power brings back is a directory whose pointer leads to a whole
\* generation, and every other part of the state has its type (saveGeneration,
\* cleanupInactiveGenerations, New).
THEOREM PublicationTypes == Spec => []TypeOK
<1>1. Inv => TypeOK
  <2> SUFFICES ASSUME Inv PROVE TypeOK
    OBVIOUS
  <2>1. TypeInv /\ tx.pc \in Steps \cup {"idle"}
    BY TxBusy DEF Inv
  <2>2. \A d \in Dirs : DOMAIN d.gens \subseteq Gens /\ Load(d) \in Pairs \cup {NoPair}
    BY <2>1 DEF TypeInv, IsDir, Saved
  <2>3. plex.at \in {"waiting", "debounce", "drained", "scanning", "retry"} /\ plex.library \subseteq Items
    BY <2>1 DEF TypeInv, PlexStates
  <2>4. {running, restoring, notified, kept} \subseteq BOOLEAN
    BY <2>1 DEF TypeInv
  <2>5. QED BY <2>1, <2>2, <2>3, <2>4 DEF TypeOK, TypeInv, Steps
<1>2. QED BY <1>1, InvInit, InvStep, PTL DEF Spec

\* A change of the manifest is all or nothing, on every state of the disk that a loss of power
\* may leave (commitManifest with rollbackPersistence).
THEOREM ChangeAllOrNothing == Spec => []AllOrNothing
<1>1. Inv => AllOrNothing
  <2> SUFFICES ASSUME Inv, tx.pc = "idle", last # NoResult
               PROVE  /\ last.ok => Loads = {last.want}
                      /\ ~last.ok /\ last.faults <= 1 => Load(fs) = last.before /\ Loads \subseteq last.could
                      /\ status = nfs
    BY DEF AllOrNothing
  <2>1. tx = NoTx
    BY TxBusy DEF Inv
  <2>2. QED BY <2>1 DEF Inv, ResultInv, Quiet
<1>2. QED BY <1>1, InvInit, InvStep, PTL DEF Spec

\* The initial states are initial states of DurableManifest.
LEMMA DurableInit == Init => Durable!Init
<1> SUFFICES ASSUME Init PROVE Durable!Init
  OBVIOUS
<1>1. Load(fs) \in Saved
  BY InvInit, LoadsFacts DEF Inv
<1>2. Loads = {Load(fs)} /\ nfs = {} /\ kept = FALSE
  BY DEF Init, Loads, Dirs
<1>3. QED BY <1>1, <1>2 DEF Durable!Init, Saved

\* Every step is a step of DurableManifest, or changes nothing there.
LEMMA DurableStep ==
  ASSUME Inv, Effect
  PROVE  [Durable!Next]_(Durable!abstractVars)
<1>0. NoPair \notin Pairs
  BY PairFacts
<1>1. CASE KeepsSaved
  <2>1. CASE Loads' = Loads
    BY <1>1, <2>1 DEF KeepsSaved, Durable!abstractVars
  <2>2. CASE Loads' = {Load(fs)}
    <3>1. Durable!Sync
      BY <1>1, <2>2 DEF KeepsSaved, Durable!Sync
    <3>2. QED BY <3>1 DEF Durable!Next
  <2>3. QED BY <1>1, <2>1, <2>2 DEF KeepsSaved
<1>2. CASE SavesAnother
  <2>1. Durable!Save
    BY <1>2 DEF SavesAnother, Durable!Save, Saved
  <2>2. QED BY <2>1 DEF Durable!Next
<1>3. CASE Publishes
  <2>1. Load(fs) # NoPair
    BY <1>0, <1>3 DEF Publishes
  <2>2. Durable!Publish \/ Durable!Degrade
    BY <1>3, <2>1 DEF Publishes, Durable!Publish, Durable!Degrade
  <2>3. QED BY <2>2 DEF Durable!Next
<1>4. CASE Stops
  <2>1. Durable!Stop \/ Durable!LosePower
    BY <1>4 DEF Stops, Durable!Stop, Durable!LosePower
  <2>2. QED BY <2>1 DEF Durable!Next
<1>5. QED BY <1>1, <1>2, <1>3, <1>4 DEF Effect

\* The setup service over its generations implements DurableManifest (Apply, PublishAcquired,
\* Restore, saveGeneration, rollbackPersistence, New).
THEOREM ServiceImplementsDurableManifest == Spec => ImplementsDurableManifest
<1>1. Inv /\ [Next]_vars => Inv' /\ [Durable!Next]_(Durable!abstractVars)
  BY InvStep, DurableStep
<1>2. QED BY <1>1, InvInit, DurableInit, PTL DEF Spec, ImplementsDurableManifest, Durable!Spec
=============================================================================
