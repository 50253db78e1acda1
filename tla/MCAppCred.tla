------------------------------ MODULE MCAppCred ------------------------------
(* Instances of AppCred for TLC. *)
EXTENDS AppCred, TLC

CONSTANTS a1, a2, a3, a4, n0, n1, n2, n3, h0, h1

\* Three credentials, each with a Secret name of its own.
ThreeNames == (a1 :> n1) @@ (a2 :> n2) @@ (a3 :> n3)

\* ... which may be exchanged together with their names.
Exchange ==
  {[x \in DOMAIN p \cup {n1, n2, n3} |->
      IF x \in DOMAIN p THEN p[x]
      ELSE ThreeNames[p[CHOOSE a \in DOMAIN p : ThreeNames[a] = x]]] :
     p \in Permutations({a1, a2, a3})}

\* A fourth one with the first five characters of a1.
CollidingNames == ThreeNames @@ (a4 :> n1)

\* Two credentials, likewise.
TwoNames == (a1 :> n1) @@ (a2 :> n2)

\* One edit of the security fields.
EditOnce == (0 :> h0) @@ (1 :> h1)

\* The security fields are never edited.
NoEdit == (0 :> h0)
=============================================================================
