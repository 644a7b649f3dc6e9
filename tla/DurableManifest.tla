-------------------------- MODULE DurableManifest --------------------------
(***************************************************************************)
(* What the setup service promises of the saved manifest and of the        *)
(* catalog that Plex sees, whatever call fails and whenever the process    *)
(* stops or the power does.                                                *)
(*                                                                         *)
(*   - What is saved is always nothing, or the token and the manifest of   *)
(*     one request.                                                        *)
(*   - A catalog is published only from a manifest that no loss of power   *)
(*     can take back, unless an attempt that was reported as failed has    *)
(*     met more than one failure.                                          *)
(*   - Part of a manifest is published only where nothing was published.   *)
(*   - Nothing takes away the last manifest once one was published that no *)
(*     loss of power could take back.                                      *)
(***************************************************************************)
CONSTANTS
  Pairs,   \* records with a token and a set of items
  Nothing  \* the value of `saved' before anything is

VARIABLES
  saved,   \* what a process that starts now would load
  maybe,   \* what a process that starts after a loss of power may load
  active,  \* the items that are published
  doubt,   \* whether failed attempts left in doubt what is saved (read only here)
  kept     \* whether a whole manifest was ever published that was not in doubt

abstractVars == <<saved, maybe, active, kept>>

Init ==
  /\ saved \in Pairs \cup {Nothing}
  /\ maybe = {saved}
  /\ active = {}
  /\ kept = FALSE

\* Another pair is saved: a new one, or the one before it once more.
Save ==
  /\ saved' \in Pairs \cup {Nothing}
  /\ saved' = Nothing => ~kept
  /\ maybe' = maybe \cup {saved'}
  /\ UNCHANGED <<active, kept>>

Sync ==
  /\ maybe' = {saved}
  /\ UNCHANGED <<saved, active, kept>>

Publish ==
  /\ saved # Nothing
  /\ maybe = {saved} \/ doubt
  /\ active' = saved.items
  /\ kept' = (kept \/ maybe = {saved})
  /\ UNCHANGED <<saved, maybe>>

Degrade ==
  /\ saved # Nothing
  /\ maybe = {saved} \/ doubt
  /\ active = {}
  /\ active' \in SUBSET saved.items
  /\ UNCHANGED <<saved, maybe, kept>>

Stop ==
  /\ active' = {}
  /\ UNCHANGED <<saved, maybe, kept>>

LosePower ==
  /\ active' = {}
  /\ saved' \in maybe
  /\ maybe' = {saved'}
  /\ UNCHANGED kept

Next == Save \/ Sync \/ Publish \/ Degrade \/ Stop \/ LosePower

Spec == Init /\ [][Next]_abstractVars
=============================================================================
