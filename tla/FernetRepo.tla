----------------------------- MODULE FernetRepo -----------------------------
(***************************************************************************)
(* What ensureFernetKeys (internal/controller/keystoneapi_controller.go)   *)
(* promises about the fernet key repository: a sequence of keys that       *)
(* starts with the staged key and ends with the primary one, in which a    *)
(* key is staged, becomes primary, ages as a secondary key and is dropped. *)
(***************************************************************************)
EXTENDS Naturals, Sequences, SequencesExt

CONSTANTS Keys, Sizes

VARIABLES
  repo,      \* the keys, staged key first, primary key last
  pristine   \* are these the keys of one creation, in their first order?

\* The keys not in the repository.
Fresh == Keys \ ToSet(repo)

\* All keys are new.  The controller may create a repository twice, if it has
\* not seen the first one yet, but never one that has been rotated.
Create ==
  /\ pristine /\ pristine' = TRUE
  /\ \E m \in Sizes : repo' \in {s \in [1..m -> Fresh] : IsInjective(s)}

\* The staged key becomes primary, the oldest secondary key is dropped and a
\* new key is staged.
Rotate ==
  /\ Len(repo) > 1 /\ pristine' = FALSE
  /\ \E k \in Fresh : repo' = <<k>> \o SubSeq(repo, 3, Len(repo)) \o <<Head(repo)>>

\* The oldest secondary keys make way; the staged and the primary key stay.
\* After a growth the keys of the creation may be all that is left.
Shrink ==
  /\ pristine' \in BOOLEAN
  /\ \E m \in Sizes :
       /\ m < Len(repo)
       /\ repo' = <<Head(repo)>> \o SubSeq(repo, Len(repo) - m + 2, Len(repo))

\* New secondary keys come in as the oldest ones.
Grow ==
  /\ pristine' = FALSE
  /\ \E m \in Sizes :
       /\ 0 < Len(repo) /\ Len(repo) < m
       /\ \E s \in [1..(m - Len(repo)) -> Fresh] :
            /\ IsInjective(s)
            /\ repo' = <<Head(repo)>> \o s \o Tail(repo)

Init == repo = <<>> /\ pristine = TRUE
Next == Create \/ Rotate \/ Shrink \/ Grow
Spec == Init /\ [][Next]_<<repo, pristine>>
=============================================================================
