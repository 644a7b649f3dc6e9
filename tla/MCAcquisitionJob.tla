-------------------------- MODULE MCAcquisitionJob --------------------------
(* Small instances of AcquisitionJob for TLC. *)
EXTENDS AcquisitionJob, TLC

CONSTANTS j1, j2, i1, i2, h1, h2, d1, w1, w2

MCOneIntent == j1 :> i1
MCTwoIntents == (j1 :> i1) @@ (j2 :> i2)

\* Jobs of different intents may be exchanged: no variable holds an intent.
MCSymmetry == Permutations(Jobs)

\* One pack that serves every intent, cached or not, beside a direct range; the same with
\* a second torrent; and nothing at all.
MCOnePack == {[eligible |-> <<h1>>, cached |-> {}, direct |-> <<>>],
              [eligible |-> <<h1>>, cached |-> {}, direct |-> <<d1>>]}
MCOffers == {[eligible |-> <<h1, h2>>, cached |-> {h2}, direct |-> <<d1>>],
             [eligible |-> <<>>, cached |-> {}, direct |-> <<>>]}
=============================================================================
