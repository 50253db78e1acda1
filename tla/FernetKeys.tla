----------------------------- MODULE FernetKeys -----------------------------
(***************************************************************************)
(* ensureFernetKeys (internal/controller/keystoneapi_controller.go), one   *)
(* step per turn of its loops, the Secret "keystone" it maintains, and the *)
(* keystone pods that mount the keys (internal/keystone/volumes.go).       *)
(*                                                                         *)
(* Keys are numbered in the order in which they are generated; 0 is "no    *)
(* such entry in Secret.Data".  In a key repository index 0 is the staged  *)
(* key and the highest index the primary one, which encrypts new tokens; a *)
(* token is accepted by a pod that has its key at any index.               *)
(***************************************************************************)
EXTENDS Integers, FiniteSets

CONSTANTS
  Pods,      \* replicas of the keystone deployment
  MinKeys, MaxKeys,  \* FernetMaxActiveKeys is in MinKeys..MaxKeys
  MaxKey,    \* bound: at most MaxKey keys are generated
  UserOps,   \* what users do: subset of {"grow", "shrink", "annotation"}
  Combine,   \* may a rotation fall due while a resize is pending?
  Reread     \* may the cache catch up between the two reads of a creation?

ASSUME ConstantsAssumption ==
  /\ MinKeys \in Nat /\ MaxKeys \in Nat /\ MaxKey \in Nat
  /\ 2 < MinKeys  \* the CRD's validation
  /\ MinKeys <= MaxKeys /\ MaxKeys <= MaxKey
  /\ UserOps \subseteq {"grow", "shrink", "annotation"}
  /\ Combine \in BOOLEAN /\ Reread \in BOOLEAN

VARIABLES
  n,          \* spec.fernetMaxActiveKeys
  secret,     \* the Secret in the API server: keys and rotatedat annotation
  cache,      \* the Secret in the informer cache
  dueUpTo,    \* annotations up to this stamp are older than fernetRotationDays
  stored,     \* number of keys that ever were in the Secret
  pc, read, data, num, changed, i, val, gen,   \* ensureFernetKeys in progress:
              \* Secret as read and in memory, number of keys wanted, loop index,
              \* key to insert, last key generated
  deployed,   \* number of keys the deployment mounts
  pod         \* the running pods: mounted items and the keys kubelet put there

envVars == <<n, dueUpTo>>
memVars == <<pc, read, data, num, changed, i, val, gen>>
podVars == <<deployed, pod>>
vars == <<envVars, secret, cache, stored, memVars, podVars>>

Idx == 0..MaxKeys
Data == [Idx -> 0..MaxKey]
NoData == [j \in Idx |-> 0]

\* rotatedat: a stamp, or BadStamp when it is missing or cannot be parsed.
BadStamp == -1
NoSecret == [keys |-> NoData, rotatedat |-> 0]
Exists(s) == s.keys[0] # 0
IsDue(s) == s.rotatedat # BadStamp /\ s.rotatedat <= dueUpTo

Present(d) == {j \in Idx : d[j] # 0}
Highest(d) == CHOOSE j \in Present(d) : \A k \in Present(d) : k <= j
Primary(d) == d[Highest(d)]
KeySet(d) == {d[j] : j \in Present(d)}

NoPod == [items |-> 0, keys |-> NoData]
Running(p) == pod[p].items # 0

Init ==
  /\ n \in MinKeys..MaxKeys
  /\ secret = NoSecret /\ cache = NoSecret
  /\ dueUpTo = 0 /\ stored = 0
  /\ pc = "idle" /\ read = NoSecret /\ data = NoData /\ num = 0
  /\ changed = FALSE /\ i = 0 /\ val = 0 /\ gen = 0
  /\ deployed = 0 /\ pod = [p \in Pods |-> NoPod]

----------------------------------------------------------------------------
(* ensureFernetKeys *)

Unchanged == UNCHANGED <<envVars, cache, podVars>>

\* ensureFernetKeys returns; `then' says whether the reconcile goes on.
Return(then, m) ==
  /\ pc' = then /\ num' = m
  /\ read' = NoSecret /\ data' = NoData /\ changed' = FALSE /\ i' = 0 /\ val' = 0 /\ gen' = 0

\* Number of keys and Secret are read.
EnsureFernetKeys ==
  /\ pc = "idle"
  /\ read' = cache /\ data' = cache.keys /\ num' = n
  /\ changed' = FALSE /\ i' = 0 /\ val' = 0 /\ gen' = stored
  /\ pc' = IF Exists(cache) THEN "rotate" ELSE "create"
  /\ UNCHANGED <<secret, stored>> /\ Unchanged

Replaced == Reread /\ Exists(cache) /\ cache = secret /\ stored + num <= MaxKey
NewKeys == [j \in Idx |-> IF j < num THEN stored + j + 1 ELSE 0]

\* The Secret is created with num keys.  EnsureSecrets reads the cache once
\* more: it fails on a Secret the cache does not show, and replaces the keys of
\* one that it shows by now (keeping the annotation).
CreateKeys ==
  /\ pc = "create"
  /\ \/ /\ ~Exists(secret)
        /\ secret' = [keys |-> NewKeys, rotatedat |-> dueUpTo + 1]
        /\ stored' = stored + num
        /\ Return("deploy", num)
     \/ /\ Replaced
        /\ secret' = [secret EXCEPT !.keys = NewKeys]
        /\ stored' = stored + num
        /\ Return("deploy", num)
     \/ Exists(secret) /\ ~Replaced /\ Return("idle", 0) /\ UNCHANGED <<secret, stored>>
  /\ Unchanged

\* Mutant: the new key becomes primary at once, without having been staged.
RotateKeysMutant ==
  /\ pc = "rotate"
  /\ IF IsDue(read) /\ gen < MaxKey
     THEN data' = [data EXCEPT ![num] = gen + 1] /\ gen' = gen + 1
     ELSE UNCHANGED <<data, gen>>
  /\ pc' = "trim"
  /\ UNCHANGED <<secret, stored, read, num, changed, i, val>> /\ Unchanged

\* The staged key is copied to index num and a new one staged.  An annotation
\* that cannot be parsed is only rewritten.
RotateKeys ==
  /\ pc = "rotate"
  /\ \/ /\ IsDue(read) /\ gen < MaxKey
        /\ data' = [data EXCEPT ![num] = data[0], ![0] = gen + 1]
        /\ gen' = gen + 1
        /\ UNCHANGED changed
     \/ /\ ~IsDue(read)
        /\ changed' = (read.rotatedat = BadStamp)
        /\ UNCHANGED <<data, gen>>
  /\ pc' = "trim"
  /\ UNCHANGED <<secret, stored, read, num, i, val>> /\ Unchanged

\* "Remove extra keys": as long as there is an entry at index num ...
TrimKeys ==
  /\ pc = "trim"
  /\ \/ data[num] # 0 /\ changed' = TRUE /\ i' = 1 /\ pc' = "shift"
     \/ data[num] = 0 /\ UNCHANGED <<changed, i>> /\ pc' = "grow"
  /\ UNCHANGED <<secret, stored, read, data, num, val, gen>> /\ Unchanged

\* Mutant: the next entry is deleted without being copied down.
ShiftDownLosesMutant ==
  /\ pc = "shift"
  /\ i' = i + 1
  /\ IF i + 1 \in Idx /\ data[i + 1] # 0
     THEN data' = [data EXCEPT ![i + 1] = 0] /\ UNCHANGED pc
     ELSE pc' = "trim" /\ UNCHANGED data
  /\ UNCHANGED <<secret, stored, read, num, changed, val, gen>> /\ Unchanged

\* Mutant: the entry that was copied down is not deleted.
ShiftDownKeepsMutant ==
  /\ pc = "shift"
  /\ i' = i + 1
  /\ IF i + 1 \in Idx /\ data[i + 1] # 0
     THEN data' = [data EXCEPT ![i] = data[i + 1]] /\ UNCHANGED pc
     ELSE pc' = "trim" /\ UNCHANGED data
  /\ UNCHANGED <<secret, stored, read, num, changed, val, gen>> /\ Unchanged

\* ... every entry from index 2 moves down by one, up to the first gap.
ShiftDown ==
  /\ pc = "shift"
  /\ i' = i + 1
  /\ IF i + 1 \in Idx /\ data[i + 1] # 0
     THEN data' = [data EXCEPT ![i] = data[i + 1], ![i + 1] = 0] /\ UNCHANGED pc
     ELSE pc' = "trim" /\ UNCHANGED data
  /\ UNCHANGED <<secret, stored, read, num, changed, val, gen>> /\ Unchanged

\* Mutant: the new key pushes out the staged one.
GrowKeysMutant ==
  /\ pc = "grow"
  /\ IF data[num - 1] # 0 \/ gen = MaxKey
     THEN pc' = "save" /\ UNCHANGED <<changed, i, val, gen>>
     ELSE /\ changed' = TRUE /\ i' = 0 /\ val' = gen + 1 /\ gen' = gen + 1
          /\ pc' = "insert"
  /\ UNCHANGED <<secret, stored, read, data, num>> /\ Unchanged

\* "Add extra keys": as long as there is no entry at index num - 1 ...
GrowKeys ==
  /\ pc = "grow"
  /\ \/ data[num - 1] # 0 /\ pc' = "save" /\ UNCHANGED <<changed, i, val, gen>>
     \/ /\ data[num - 1] = 0 /\ gen < MaxKey
        /\ changed' = TRUE /\ i' = 1 /\ val' = gen + 1 /\ gen' = gen + 1
        /\ pc' = "insert"
  /\ UNCHANGED <<secret, stored, read, data, num>> /\ Unchanged

\* ... a new key goes to index 1 and pushes the others up.
InsertKey ==
  /\ pc = "insert"
  /\ data' = [data EXCEPT ![i] = val]
  /\ val' = data[i] /\ i' = i + 1
  /\ pc' = IF data[i] = 0 THEN "grow" ELSE "insert"
  /\ UNCHANGED <<secret, stored, read, num, changed, gen>> /\ Unchanged

\* Update, refused if the Secret is no longer the one that was read.
SaveKeys ==
  /\ pc = "save"
  /\ \/ ~changed /\ Return("deploy", num) /\ UNCHANGED <<secret, stored>>
     \/ /\ changed /\ secret = read
        /\ secret' = [keys |-> data, rotatedat |-> dueUpTo + 1]
        /\ stored' = gen
        /\ Return("deploy", num)
     \/ changed /\ secret # read /\ Return("idle", 0) /\ UNCHANGED <<secret, stored>>
  /\ Unchanged

\* Mutant: the volume lists one item too many.
DeployMutant ==
  /\ pc = "deploy"
  /\ deployed' = num + 1 /\ Return("idle", 0)
  /\ UNCHANGED <<envVars, secret, cache, stored, pod>>

\* Later in the reconcile: the deployment mounts num items.
Deploy ==
  /\ pc = "deploy"
  /\ deployed' = num /\ Return("idle", 0)
  /\ UNCHANGED <<envVars, secret, cache, stored, pod>>

\* An error (GenerateFernetKey, the API server) or a crash: nothing is saved.
Abort ==
  /\ pc # "idle" /\ Return("idle", 0)
  /\ UNCHANGED <<secret, stored>> /\ Unchanged

----------------------------------------------------------------------------
(* Users, time, caches *)

SyncCache ==
  /\ cache # secret /\ cache' = secret
  /\ UNCHANGED <<envVars, secret, stored, memVars, podVars>>

\* The webhook admits MinKeys and more.  Bound: at most MaxKeys.
EditMaxActiveKeys(m) ==
  /\ m # n
  /\ m < n => "shrink" \in UserOps
  /\ m > n => "grow" \in UserOps
  /\ Combine \/ (~IsDue(secret) /\ ~IsDue(cache))
  /\ stored + m - n <= MaxKey
  /\ n' = m
  /\ UNCHANGED <<dueUpTo, secret, cache, stored, memVars, podVars>>

\* What kubelet mounts for a pod of m items; it needs every item.
Mountable(m) == \A j \in 0..(m - 1) : secret.keys[j] # 0
Mounted(m) == [items |-> m, keys |-> [j \in Idx |-> IF j < m THEN secret.keys[j] ELSE 0]]

\* Every pod has the keys of the Secret.
PodsUpToDate == \A p \in Pods : pod[p] = Mounted(n)

\* fernetRotationDays pass.  A day is far longer than kubelet and the rollout
\* take, so the pods have the keys of the last rotation by then.
TimePasses ==
  /\ Exists(secret) /\ ~IsDue(secret) /\ secret.rotatedat # BadStamp
  /\ PodsUpToDate \/ (Combine /\ \A p \in Pods : pod[p] = Mounted(deployed))
  /\ Combine \/ (Cardinality(Present(secret.keys)) = n /\ cache = secret /\ pc = "idle")
  /\ stored < MaxKey /\ dueUpTo < MaxKey
  /\ dueUpTo' = secret.rotatedat
  /\ UNCHANGED <<n, secret, cache, stored, memVars, podVars>>

\* Someone drops or garbles the annotation.
LoseAnnotation ==
  /\ "annotation" \in UserOps /\ Exists(secret) /\ secret.rotatedat # BadStamp
  /\ secret' = [secret EXCEPT !.rotatedat = BadStamp]
  /\ UNCHANGED <<envVars, cache, stored, memVars, podVars>>

----------------------------------------------------------------------------
(* Pods *)

\* The rollout of the deployment replaces a pod, or starts the first ones.
StartPod(p) ==
  /\ deployed # 0 /\ pod[p].items # deployed /\ Mountable(deployed)
  /\ pod' = [pod EXCEPT ![p] = Mounted(deployed)]
  /\ UNCHANGED <<envVars, secret, cache, stored, memVars, deployed>>

\* Kubelet propagates the Secret into a running pod.
PropagateKeys(p) ==
  /\ Running(p) /\ Mountable(pod[p].items)
  /\ pod' = [pod EXCEPT ![p] = Mounted(@.items)]
  /\ pod' # pod
  /\ UNCHANGED <<envVars, secret, cache, stored, memVars, deployed>>

----------------------------------------------------------------------------
Ensure ==
  \/ EnsureFernetKeys \/ CreateKeys \/ RotateKeys \/ TrimKeys \/ ShiftDown
  \/ GrowKeys \/ InsertKey \/ SaveKeys \/ Deploy

Next ==
  \/ Ensure \/ Abort \/ SyncCache \/ TimePasses \/ LoseAnnotation
  \/ \E m \in MinKeys..MaxKeys : EditMaxActiveKeys(m)
  \/ \E p \in Pods : StartPod(p) \/ PropagateKeys(p)

Spec == Init /\ [][Next]_vars

\* A reconcile that has begun goes on.
FairSpec == Spec /\ WF_vars(Ensure)

----------------------------------------------------------------------------
(* Properties *)

\* The types of the state; no loop of ensureFernetKeys runs past its bounds.
TypeOK ==
  /\ n \in MinKeys..MaxKeys /\ dueUpTo \in Nat /\ stored \in 0..MaxKey /\ gen \in 0..MaxKey
  /\ {secret, cache, read} \subseteq [keys: Data, rotatedat: Nat \cup {BadStamp}]
  /\ data \in Data /\ num \in 0..MaxKeys /\ changed \in BOOLEAN
  /\ i \in 0..(MaxKeys + 2) /\ val \in 0..MaxKey
  /\ pc \in {"idle", "create", "rotate", "trim", "shift", "grow", "insert", "save", "deploy"}
  /\ deployed \in 0..MaxKeys
  /\ pod \in [Pods -> [items: 0..MaxKeys, keys: Data]]

\* A token issued by any pod is accepted by every pod, although kubelet
\* refreshes the pods' keys at different times.
TokensAccepted ==
  \A p, q \in Pods : Running(p) /\ Running(q) =>
    Primary(pod[p].keys) \in KeySet(pod[q].keys)

\* The key that encrypts tokens is not dropped by the update that follows: a
\* pod that still uses it as primary is understood by those that have the new
\* keys.  (Only a Secret created twice loses it, see CreateKeys.)
PrimaryKept ==
  [][Exists(secret) /\ pc # "create" => Primary(secret.keys) \in KeySet(secret'.keys)]_vars

\* Untouched keys are numbered one after the other.
Pristine(d) == \A j \in Present(d) : d[j] = d[0] + j

\* The keys in the order of their indices.
Sequence(d) == [j \in 1..Cardinality(Present(d)) |-> d[j - 1]]

\* What the Secret holds evolves as the key repository promises.
Repo == INSTANCE FernetRepo WITH
  Keys <- 1..MaxKey, Sizes <- MinKeys..MaxKeys,
  repo <- Sequence(secret.keys), pristine <- Pristine(secret.keys)
RepoSpec == Repo!Spec

\* ensureFernetKeys returns (or the model has no key left to generate).
Terminates == pc # "idle" ~> (pc = "idle" \/ gen = MaxKey)

\* The loops of ensureFernetKeys; how many keys there are once the inner loop
\* under way is over, how far that is from the number asked for, and a bound for
\* the turns that are still to come.
InLoops == pc \in {"trim", "shift", "grow", "insert"}
Entries ==
  IF pc = "shift" THEN Cardinality(Present(data) \ {i})
  ELSE IF pc = "insert" THEN Cardinality(Present(data)) + 1
  ELSE Cardinality(Present(data))
Distance == IF Entries > num THEN Entries - num ELSE num - Entries
Span == MaxKeys + 3
InnerTurns ==
  IF pc \in {"shift", "insert"} THEN Span - i
  ELSE IF pc = "trim" THEN 2 ELSE IF pc = "grow" THEN 1 ELSE 0
TurnsLeft == Span * Distance + InnerTurns

\* Every turn of the loops of ensureFernetKeys, whose ends depend on the entries
\* they move, brings it nearer to its end: no removal makes another one
\* necessary, no addition leaves a gap below the key that is looked for.
LoopsAdvance ==
  [][InLoops => pc' = "idle" \/ TurnsLeft' \in 0..(TurnsLeft - 1)]_memVars
=============================================================================
