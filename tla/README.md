# Verification of keystone-operator

TLA+ models of the state-changing core of keystone-operator, the operator that
runs OpenStack Keystone on Kubernetes: the TLC configurations that check them on
small instances, and TLAPS proofs of what matters most. The models are
translated from the Go source; `PROJECT.json` maps every definition to its lines.

    tlc -workers 2 -config MCAppCred_rotation.cfg MCAppCred
    tlapm AppCredProofs.tla

## 1. The system

| Part | State it keeps | Operations | What makes it correct |
|---|---|---|---|
| KeystoneApplicationCredential (AC) controller | CR status (current and previous Secret, AC ID, security hash), immutable Secrets with a protection finalizer, credentials in Keystone | rotate, clean up, revoke, migrate old Secrets, delete | credentials in use are never revoked; rotations and cleanups that are due happen; deletion completes |
| AC consumers (`ManageACSecretFinalizer` in other operators) | a finalizer on the Secret in use, the rendered config, the EDPM nodes | attach to the new Secret, render, release the old one | a held credential works until it is released |
| Fernet keys (`ensureFernetKeys`) | Secret `keystone`, with one entry per index, and the pods that mount it | create, rotate, grow, shrink | no token of one pod is refused by another; the loops end |
| KeystoneService controller | CR status, finalizer on the KeystoneAPI, service and user in Keystone | register, deregister | what is registered holds the KeystoneAPI |
| KeystoneEndpoint controller | CR status, finalizers on KeystoneAPI and KeystoneService, endpoints in Keystone | register, update, prune, deregister | Keystone holds the endpoints of the spec |
| KeystoneAPI controller | conditions, hashes, finalizers on Database, account and Memcached, config Secret, jobs, Deployment, CronJob, cloud config | reconcile pipeline, change of account, image or URL, external Keystone, deletion | pods run on a schema that fits; Ready tells the truth; everything comes to the spec; dependencies outlive what depends on them |
| Transport URL rotation | consumer finalizers on RabbitMQ Secrets | hand over from the old Secret to the new one | the Secret a pod runs with is held |
| Webhooks | none | defaulting, validation | what they admit can be deployed |
| API helpers | none | lookups, clients | pure reads |

The parts interact only through Kubernetes objects and Keystone. The controllers
write finalizers to each other's objects: service and endpoint to the
KeystoneAPI, the endpoint to the service, consumers to the AC Secrets. Each
controller runs one reconcile of an object at a time; different controllers run
at the same time. Objects are read from informer caches, which lag behind what
was written. Every reconcile ends with a deferred patch of its own object.

What is hard here, and hardly reached by the envtest suites: interleavings of
the controllers between a read and the write that rests on it; a cached copy
older than one's own last write; calls that fail, or that succeed and lose their
answer; a restart between a call to Keystone and the patch that records its
result; deletion in any order; loops over a map of keys; returns without error
and requeue, which rest on a watch to wake the controller; a Secret, an account
or an endpoint replaced while pods still run with the one before. The list, by line, is
`hazards` in `PROJECT.json`.

## 2. Modules

| Module | Models |
|---|---|
| `AppCred` | AC controller, one CR with its Secrets, Keystone, a consumer and EDPM nodes |
| `AppCredProofs` | theorems about `AppCred` |
| `FernetRepo` | what a fernet key repository promises (abstract) |
| `FernetKeys` | `ensureFernetKeys` turn by turn, Secret, cache and pods; implements `FernetRepo` |
| `FernetKeysProofs` | theorems about `FernetKeys`, the refinement of `FernetRepo` among them |
| `Catalog` | service and endpoint controllers and the KeystoneAPI's deletion, composed over the objects they share |
| `CatalogProofs` | theorems about `Catalog` |
| `KeystoneAPI` | the KeystoneAPI controller with jobs, Deployment and pods, bus Secrets, inputs, webhook, external Keystone and deletion |
| `KeystoneAPIProofs` | theorems about `KeystoneAPI` |
| `MCAppCred`, `MCFernetKeys`, `MCCatalog`, `MCKeystoneAPI` | the constants of the instances |

A definition called `...Mutant` is a plausible wrong version of the definition
that follows it, not part of the specification: substituted for it, it has to
break the property that `PROJECT.json` names.

### AppCred

A reconcile is a sequence of steps, one per call to Kubernetes or Keystone, and
`pc` names the next one. `inst` and `base` are the CR in memory and as it was
read; with `newID`, `listed`, `todo` and `cur` they are lost when the reconcile
ends (`PatchInstance`) or the operator restarts (`Crash`).

| Code | Actions |
|---|---|
| `Reconcile`, `reconcileNormal` | `Reconcile`, `Decide` |
| `createACWithName`, `createImmutableACSecret` | `CreateAC`, `StoreSecret`, their failures, `RevokeNew` |
| `ensureServiceLabel` | `EnsureServiceLabel` |
| `cleanupUnusedRotatedSecrets` | `CleanupGate` ... `CleanupEnds` |
| `reconcileDelete` | `DeleteGate`, `DeleteList`, `DeleteRevoke`, `DeleteStrip`, `DeleteFallback` |
| deferred `PatchInstance` | `PatchInstance` |
| `ManageACSecretFinalizer` and its caller | `ConsumerNotice`, `ConsumerAttach`, `ConsumerRender`, `ConsumerRelease` |
| EDPM deployment, garbage collector, informers | `DeployNodes`, `GarbageCollect`, `SyncCR`, `SyncSecrets` (external) |

Abstracted: roles, access rules and secret text (a spec version stands for its
security hash), the clock (`due` holds the ACs whose rotation time has passed).
The initial states are a new CR, and one left by a release with one mutable,
unlabelled Secret.

### FernetKeys

Keys are numbered as they are generated and 0 is a missing entry. Each turn of
the three loops of `ensureFernetKeys` is a step. Pods mount as many items as the
deployment had when they started (`StartPod`); kubelet refreshes them one by one
(`PropagateKeys`). `Repo` maps the Secret to the sequence of keys of
`FernetRepo`. A Secret that the first read missed is created a second time if
the cache shows it to `EnsureSecrets` (`Reread`); `FernetRepo` allows that as
long as the keys are those of one creation.

### Catalog

One object of each kind. `spc`, `epc` and `apc` are the next steps of the three
reconciles, which interleave. `Accepted` is the API server's answer to an Update:
refused if the object is no longer the one that was read. `Merge` and
`PatchRefused` are the deferred merge patch, which writes the list of finalizers
as a whole when it differs from the one read, and may add none to an object that
is being deleted. The KeystoneAPI's four dependencies are one flag, `deps`; its
reconcile pipeline is `APIReady`; both are taken apart in `KeystoneAPI`. `Lag`
names the informer caches that are behind: that of the KeystoneAPI, of the service, of
the endpoint object.

### KeystoneAPI

A reconcile is a sequence of steps, one per object it reads or writes, and `pc`
names the next one. `inst` is the KeystoneAPI in memory; what it learned reaches
the API server with `Patch`, which every return leads to. `queued` says that a
reconcile is due: an error, a RequeueAfter or a watched change sets it. Nothing else starts one, so
a return that forgets to requeue shows as a violation of `Settles`.

| Code | Actions |
|---|---|
| `Reconcile`, deferred `PatchInstance` | `Reconcile`, `Patch` |
| `reconcileNormal`, the inputs | `VerifySecret`, `EnsureDB`, `TransportURL`, `HoldSecret`, `Memcached`, `GenerateServiceConfigMaps`, `EnsureFernetKeys`, `VerifyInputs` |
| `reconcileInit`, `Job.DoJob` | `DbSync`, `CreateServices`, `Bootstrap` |
| the Deployment and what follows it | `Deploy`, `DeploymentReady`, `ReleaseAccounts`, `CreateCronJob`, `ReconcileCloudConfig` |
| the end of a rotation | `FinalizeSecretRotation`, `PruneSecretConsumerFinalizers` |
| `reconcileExternalKeystoneAPI` | `ReconcileExternal` |
| `reconcileDelete` | `ReleaseMemcached`, `ReleaseDB`, `ReleaseOldSecret`, `ReleaseNewSecret` |
| webhook | `ValidateCreate`, `ValidateUpdate`: the guard of `Init` and of `EditSpec` |
| errors, restarts | `CallFails`, `Crash` |
| users, infra-operator, Kubernetes | `EditSpec`, `DeleteAPI`, `IssueSecret`, `InputArrives`, `InputVanishes`, `JobFinishes`, `ObserveDeployment`, `ReplacePod`, `RestartPod` |

Account, image, URL and bus Secret are version numbers, and a hash is the value
it is taken of, so equal hashes are equal inputs. What a pod was configured from (`pods[p].cfg`) and
the template it was made of (`pods[p].tmpl`) are kept apart: a pod that restarts reads
the config Secret of that moment, under the old template. The keys enter only with whether their
Secret exists; `FernetKeys` has the rest.

### Assumptions about what is not in the repository

Marked `external` in the map, modelled from how the code uses it:
kube-apiserver (finalizers, deletion timestamp; "the object differs from the
copy" for "its resourceVersion differs", so a change that was undone is not
noticed, which only admits more behaviours), lib-common's `PatchInstance`
(metadata, then status, each field if it changed), its `DoJob`,
`FinalizeSecretRotation`, `PruneSecretConsumerFinalizers` and `IsReadyForInput`,
the Deployment controller, infra-operator and mariadb-operator, `EnsureSecrets` (a cached
read, then create or replace), `AreSecretHashesInSync` (compares node and config),
Keystone (IDs are never given out twice; deleting what is gone succeeds; deleting
a service deletes its endpoints), generated keys (distinct).

## 3. Runs

| Run | Shows | Bounds |
|---|---|---|
| `appcred_rotation` | `CredentialsUsable`, `HeldCredentialLive`, `RevokedFirst`, and the inductive invariant `StatusProtected` | 3 credentials, one edit, all four faults, lagging Secret cache |
| `appcred_cleanup` | `CredentialsUsable`, `Rotates`, `CleanedUp` | 4 credentials, two of which share a Secret name, failing calls that end, Secrets removed by hand |
| `appcred_deletion` | `NoLabelledOrphan`, `DeletionCompletes` | 2 credentials, EDPM service, a consumer, restarts |
| `appcred_stale_status` | violation of `CredentialsUsable` | 3 credentials, no fault, cached status older than the last patch |
| `appcred_edpm_cleanup` | violation of `EDPMCredentialLive` | 3 credentials, no fault |
| `fernetkeys_rotate` | `TokensAccepted` | 2 pods, 3 to 5 keys, 9 generated |
| `fernetkeys_repo` | `RepoSpec` (refinement), `PrimaryKept`, `LoopsAdvance`, `Terminates` | 3 to 5 keys, 7 generated |
| `fernetkeys_grow_rotate` | violation of `Terminates` | 1 pod, 3 to 4 keys |
| `catalog_hold` | `KeystoneHeld`, `NoDanglingFinalizer`, `DependenciesHeld` | all deletions, one recreation, failing patches, restarts |
| `catalog_live` | `Registered`, `DeletionCompletes` | 1 interface, 2 URLs, one edit, service and endpoint deleted, lagging cache of the KeystoneAPI, failing calls and lost answers that end |
| `catalog_stuck` | violation of `DeletionCompletes` | the KeystoneAPI is deleted as well; no fault |
| `keystoneapi_deploy` | `TransportHeld`, `SchemaBeforePods`, `NothingStranded`, `ReadyHonest`, `Settles`, `DeletionCompletes` | 1 pod, 2 bus Secrets, one edit of account, image, URL or external, deletion, one fault (failing call, restart, lost patch, TLS Secret that vanishes) |

Why these bounds: three credentials are a current, a previous and an unused one,
which is what the cleanup tells apart, and with an older release's Secret a
fourth name; two are enough for the deletion, whose Secrets differ only in being
in the status or not. Three keys are the smallest repository the webhook admits;
up to five lets one shrink run the outer loop twice. Two pods are the pair of
`TokensAccepted`. In `Catalog` a finalizer conflict takes two writers, and there
are three; a second interface would be another turn of the loops over them. With a
lagging cache of endpoint objects as well (`"ep"` in `Lag`) the invariants of `catalog_hold` hold
too, in 4.9 million states, which is too long for a run kept beside the code; the theorems of
section 4 are about that lag. In
`KeystoneAPI` one edit and two Secrets make one rollout overlap with a rotation
and with a deletion, and one fault may come at every step of each of them. One pod
is enough for the liveness, because pods of two templates also exist with one,
before and after it is replaced; with two pods and the same bounds the safety
properties hold as well (2.2 million states). With one of the other
inputs flaky in place of the TLS Secret (password Secret, database, Memcached,
federation, network attachment) `Settles` holds too. The model's counters (`MaxSpec`, `MaxKey`, `MaxEdits`, `MaxCreated`,
`MaxVersion`, `MaxSecret`, `MaxFaults`, the sets of IDs) are bounds of the model and named as such; liveness properties say
where a bound excuses them (`Exhausted`, `gen = MaxKey`, `used = IDs`).

CHECK_DEADLOCK is off where everything may come to rest: objects deleted, or IDs
or keys used up.

### Findings

- `appcred_stale_status`: a reconcile that starts from a status older than the
  controller's own last patch rotates again; while it runs the cache gets the
  older patch, and the next reconcile revokes the credential the API server's
  status names as current.
- `appcred_edpm_cleanup`: the EDPM check precedes the list of Secrets. If the
  consumer renders the new credential and lets go of the old Secret in between,
  the credential the nodes run with is revoked.
- `fernetkeys_grow_rotate`: FernetMaxActiveKeys raised and a rotation due in one
  reconcile leaves a gap below the rotated key, and "remove extra keys" never ends.
- `catalog_stuck`: service and KeystoneAPI deleted together. The service takes its
  finalizer off the KeystoneAPI, its own patch is refused because the endpoint
  controller changed the finalizers meanwhile, the KeystoneAPI disappears, and
  the service waits for it for ever.

The notes under `hazards` name further limits of the code the models have, for
which there is no run: a rotation without a cause when the Secret cache lags;
a Secret of the status removed by hand, whose namesake is created and revoked (section 4);
unlabelled Secrets of older releases pushed out of the status; a pod that misses
the primary key while the repository grows; shrinking in the pass that rotates;
services and endpoints left in Keystone after a restart or an edit just before
the deletion; RemoveFinalizer on a cached copy without the finalizer; of the service
controller, a deferred patch that writes the metadata and fails on the status: a service
being deleted, held by the endpoint only, keeps its ID, and the patch of its next
reconcile may land on the service created anew, which then is ready without a
finalizer; the endpoint's finalizer comes back with a later patch and stays when the
endpoint is gone (`NoDanglingFinalizer`, with two recreations and "unready" in
`UserOps`); and of the KeystoneAPI controller:

- a second rotation of the bus Secret before the first is over (`Rapid`): the
  Secret in the middle is pruned while a pod runs with it (`TransportHeld`), and a
  deletion releases the Secret of the status and the newest one, so that the one
  in the middle keeps its finalizer (`NothingStranded`);
- an edit taken back (`Revert`) while its bootstrap job runs: the job of the
  original spec is skipped and Keystone's catalog keeps the other URL (`Settles`);
  taken back after a pod has restarted with the edited account's config and before
  the Deployment is updated: the template is what it was, so the Deployment counts as rolled
  out at once, and the KeystoneAPI is ready with a pod on the other account (`ReadyHonest`);
- an account that is no longer in the spec is released when `readyCount`, which
  counts the pods of any template, equals the replicas, and not at all by a deletion that
  comes before that;
- what an internal Keystone held stays held when it is made external and deleted.

`Rapid` and `Revert` are FALSE in the run for these reasons, and
`NothingStranded` speaks of the account of the spec and of internal Keystone.

### Fairness

Weak fairness only, each of what its step moves (a controller's program counter, a
cache, an object), of: each controller (an object that exists is reconciled
again, by watch, RequeueAfter, error backoff or resync, and a step under way
goes on), the informer caches, the garbage collector (of some Secret), the consumer and EDPM
deployments, and the end of the faults (`CalmDown`): a call is not refused for
ever. `FernetKeys` assumes only that a reconcile under way goes on. Nothing is assumed of users or
time; in `Catalog` the KeystoneAPI becomes ready once faults have ended.

`KeystoneAPI` assumes weak fairness of the controller, but a reconcile starts only if
it is due, so the requeues and watches of the code have to be enough; of jobs,
Deployment and pods; of infra-operator naming the first Secret of a TransportURL; and of
missing inputs arriving. Rotations, edits and deletions are not
assumed to happen.

## 4. Proofs

All theorems hold for every value of the constants their modules' assumptions
admit: any credentials, names, pods and numbers of keys, any number of edits,
rotations and faults. They are about safety; each rests on an inductive invariant
whose steps are lemmas of their own.

### AppCredProofs

- `TypeCorrect`: `Spec => [](TypeOK /\ IDsKnown)`.
- `StatusStaysProtected` and `CredentialsStayUsable`: if `~StaleCR` and
  `NamesSafe`, then `[]StatusProtected`, hence `[]CredentialsUsable`.
- `HeldStaysLive`: if `~StaleCR`, `NamesSafe` and `Consumer # "slow"`, then
  `[]HeldCredentialLive`.
- `RevokedStaysFirst`: `Spec => RevokedFirst`, with no hypothesis.
- `NothingOrphaned`: `~StaleCR /\ Spec => []NoLabelledOrphan`.

`CredentialsUsable` alone is not inductive: nothing in it keeps a reconcile in
flight from revoking a credential that the status names. `StatusProtected` adds
that the status in memory is the one in the API server until the patch
(`SingleWriter`), that what is listed for cleanup is outside the status and
shares no credential with another Secret (`CleanupElsewhere`,
`SecretsDistinct`), that a new credential is in no other Secret
(`NewUnstored`), that the Secrets of the status are there (`StatusPresent`), that a
deletion is not taken back (`DeletingSticks`) and that the
status about to be patched is usable already (`PatchSafe`).

`HoldInv` adds to it that nobody holds what the cleanup has listed
(`TodoUnheld`) or the credential that is revoked because it could not be stored
(`NewUnheld`): a consumer that attaches to a Secret of the status attaches outside
the list. One that may attach to a Secret rotated away long ago (`Consumer = "slow"`)
can do so between the list and the revocation, and the conclusion is false.

`RevokedFirst` is what `CleanedUp` leaves open: `CleanedUp` says that an unused Secret does not
stay, `RevokedFirst` that it does not go before Keystone has revoked its credential, of which nothing
else knows the ID. Revocation and removal of the finalizer are two steps, between which the
operator may restart and the Secret may change; `RevokedInv` says of what is in hand between them
that it is revoked, and `ProtectionLost` that no step but the cleanup's, the deletion's and a
removal by hand takes a protection finalizer off. The latter two are exempt: the deletion
revokes as well as it can and goes on.

`DeletionInv` does not need `StatusProtected`, nor names that do not collide. The CR
goes only by a reconcile that has seen the deletion (`FinalizerKept`,
`ReconcileKnows`); no reconcile that creates Secrets runs with a CR that has no finalizer;
the deletion's list has every labelled Secret that is protected, and what it has
passed is free (`DeletionPass`); and when it is through, no Secret that the status
names is protected either (`Released`), so that a reconcile from an old copy of the CR,
which labels the Secrets of the status before it lists, labels none that is. This last point
takes `UnlabelledSeen`: a Secret without label is as old as the CR, so the lagging
cache shows it. It is also the one place that needs `~StaleCR`.

`~StaleCR` is needed: without it the run `appcred_stale_status` refutes
`CredentialsUsable`; the code does not establish it, it relies on the cache being
fresh. `NamesSafe` is needed as well: names have five characters of the ID, and two
credentials may share one. That does no harm (`StoreSecret` refuses to overwrite)
unless the Secret of the status is removed by hand and the answer to the creation of its
namesake is lost: the new Secret stays, its credential is revoked, and the status names it.
TLC finds that with `"remove"` in `UserOps`, `"lost"` in `Faults` and two IDs
with one name; `NamesSafe` excludes one of the three.

### FernetKeysProofs

- `TypeCorrect`: `Spec => []TypeOK`.
- `PrimaryStaysKept`: `~Combine /\ Spec => PrimaryKept`.
- `RepositoryImplemented`: `~Combine /\ Spec => RepoSpec`: `ensureFernetKeys`
  implements the abstract repository.
- `LoopsEnd`: `~Combine /\ Spec => LoopsAdvance`: the loops come to their end.
- `TokensStayAccepted`: if `~Combine`, `~Reread` and the number of keys is not
  raised, then `Spec => []TokensAccepted`.

What a reconcile saves is what its loops have made of a map in memory, of which
none of these properties speaks. The invariant `RepoInv` therefore describes the map in
the middle of every loop: `Base` is the map after a rotation that was due,
`Shape(d, b, s, k, g, j)` is its entry `j` once the loops have kept `k` of `b` keys and
added `g` new ones, and `LoopInv` says that the map is of such a shape, with what
`shift` and `insert` leave unfinished below or above the index they have come to. `CopiesInv`
adds that Secret, cache and the copy read have no gap, `RotationInv` that a rotation
that is due meets a repository of the size asked for, `CreationInv` that a Secret
the cache has not shown yet is as it was created, and `FlowInv` why no loop leaves
its bounds. `SavedKeys` draws the conclusion: what is saved is the Secret as it was, rotated, cut or
extended. The refinement then goes step by step: a creation is `Create`
(`CreateRefines`), an update is `Rotate`, `Shrink` or `Grow` (`SaveRefines`, from
`TurnedSequence`, `CutSequence` and `ExtendedSequence`: what each does to the sequence of
keys), and everything else is a stutter (`WhoWrites`).

`LoopsEnd` is the half of `Terminates` that needs no fairness. The loops run until an entry is
missing (or there), so that they end is a fact about the map, not about an index. The
measure is `TurnsLeft`: `Distance` is how many keys there are too many or too few once the
inner loop under way is over, `InnerTurns` what that loop has left of the key range, and
`Span` is longer than any inner loop, so that the pair falls in lexicographic order. What makes it fall is
`LoopInv`: since the map has no gap, shifting down always closes the one that the
removal has made (`ShiftAdvances`), and a new key is the next entry (`InsertAdvances`). With a gap, that
of `fernetkeys_grow_rotate`, the inner loop ends without bringing the outer one nearer.

For tokens `SizesInv` says that the Secret is never larger than what the cache
shows, a reconcile works on or a pod mounts, and `PodsInv` that a pod has the
staged, primary and last primary key of the Secret (`Peer`) or of the Secret one
rotation ago (`Before`), and of the current one when the next rotation falls due.

Each hypothesis excludes what the models refute. `Combine` (a rotation falls due
while the number of keys changes): `fernetkeys_grow_rotate`, and
shrinking in that pass removes the primary. `Reread` (the Secret is created
twice): a pod keeps keys of the first creation. "grow": a pod that mounts fewer items
than the Secret has misses the primary key, which is the last. The rotation is at most one ahead of the pods
because `TimePasses` lets a rotation fall due only when kubelet has caught up:
days against kubelet's minutes.

### KeystoneAPIProofs

- `TypeCorrect`: `Spec => []TypeOK`.
- `SchemaPrecedesPods`: `Spec => []SchemaBeforePods`, with no hypothesis.
- `ReadyStaysHonest`: `~Revert /\ Spec => ReadyHonest`.
- `ReadySecretIsCurrent`: `Spec => ReadyOnCurrentSecret`, the part of `ReadyHonest`
  (image, schema and bus Secret, not the account) that stays true when edits are taken back.
- `TransportStaysHeld`: `~Rapid /\ Spec => []TransportHeld`.
- `NothingStaysStranded`: `~Rapid /\ Spec => []NothingStranded`.
- `OnlyOvertakenReleased`: `Spec => []OvertakenOnly`, what stays true of `TransportHeld` when
  rotations overtake one another: a Secret that a running pod was configured from loses the
  finalizer only if a later Secret has been rendered and the status does not name it.
- `DeletionReleasesEnds`: `Spec => []EndsReleased`, what stays true of `NothingStranded`
  then: Memcached, database, account, the Secret of the status and the newest one are free.

The invariants, each of which uses those before it:

| Invariant | Says | Why it is needed |
|---|---|---|
| `FlowInv` | what the path of a reconcile has established of its object | a deletion works on the spec the API server has |
| `SyncInv`, `SchemaInv` | a hash in status or memory, a finished job, a step past db sync and the Deployment's image are all of a synced schema | `SchemaBeforePods` says nothing of a job that is skipped because its hash is there |
| `RenderedInv` | a reconcile's hash is that of the config in the cluster | other reconciles do not write in between, restarts do not help |
| `OrderInv` | Secrets and accounts grow from template to pod to config to spec | a pod that restarts reads a newer config than its template's, never an older one |
| `LiveInv` | a Deployment found ready is still rolled out when the status is patched | pods restart and are replaced meanwhile |
| `RotationInv`, `HeldInv` | at most one rotation is pending; only its two Secrets are held | pruning removes what is neither |
| `UsedInv`, `KeptInv` | no pod is older than the status's Secret; what is rendered or about to be is held | `TransportHeld` speaks of running pods only, one may start at any time |
| `NamedInv`, `OvertakenInv` | a reconcile knows the Secret the status names, or there is none, or the rollout is over; only Secrets that exist are held; what is rendered is held, what runs unless overtaken | pruning keeps the two Secrets a reconcile has in memory, which without `RotationInv` need not be all that is in use |
| `DeletionInv` | what each step of the deletion has let go of stays free | a deletion may be interrupted after each of them and begins anew |

`Revert` and `Rapid` are needed where they are assumed: TLC refutes the conclusions without them
(section 3). `OvertakenOnly` has no lower bound: that the Secret let go of is newer than the one of the
status does not hold either, TLC loses the patches of four reconciles in a row to show it. `NamedInv` and
`DeletionInv` do without `RotationInv`, so the deletion needs `~Rapid` only to say that the two
ends of the pending rotations are all that is held (`HeldInv`).

### CatalogProofs

- `TypeCorrect`: `Spec => []TypeOK`.
- `DependenciesStayHeld`: `Spec => []DependenciesHeld`, with no hypothesis.
- `KeystoneStaysHeld`: `Fresh /\ Spec => []KeystoneHeld`.
- `NothingDangles`: `Fresh /\ "patch" \notin Faults /\ Spec => []NoDanglingFinalizer`.

They are about three controllers that write each other's objects, two of them with
patches that are not refused when the object has changed since it was read. `SvcPatchEffect`,
`EpPatchEffect` and `APIPatchEffect` say what such a patch does to the object it meets, which
may be another one than was read; `Writers`, `APIWrites`, `SvcWrites` and `EpWrites` say who else
writes and what. The invariants, each of which uses those before it:

| Invariant | Says | Why it is needed |
|---|---|---|
| `GoneInv` | what is gone is empty | a recreated object owes nothing to the one before |
| `APIInv` | a copy of a KeystoneAPI being deleted has every finalizer the object has (`Newer`) | its patch writes the list as a whole, and must take none off |
| `HoldInv` | the KeystoneAPI is held before an ID is recorded and until it is dropped; `ServiceSame`: a service read with its finalizer is still the same object | the patch of the service must fit the object it meets |
| `EndpointInv` | whatever copy of the endpoint shows registered endpoints, KeystoneAPI and service are held; `EndpointCopies`: an endpoint read while being deleted is over in every later copy | the cached endpoint may be one deleted and created anew since |
| `TidyInv` | a service is ready, or held, without its own finalizer only while it is being deleted, and then keeps no ID unless the KeystoneAPI goes too | a patch that adds the service's finalizer must not bring the endpoint's back |

`Attached` is the heart of `EndpointInv`: the endpoint holds the service, and the service has
its own finalizer or is being deleted. No patch of the service takes the endpoint's finalizer away then
(`AttachedStays`): one that adds the service's finalizer was read before the endpoint came and
is refused or changes nothing, one that removes it has seen the endpoint's.

Each hypothesis is needed. `Fresh` (the caches of KeystoneAPI and service do not lag; that of
endpoint objects may): a controller that sees its finalizer in an old copy does not
put it back, and one that does not see it does not take it off. The code does not establish it; it
relies on its last write having reached the cache before the next reconcile. `"patch" \notin Faults`:
the patch cut short of section 3. `KeystoneStaysHeld` does without it, and with restarts, failing
calls and lost answers all theorems do.

### What is only model-checked

Liveness (`Rotates`, `CleanedUp`, `Terminates`, `Registered`, `Settles`,
`DeletionCompletes`): fairness and ENABLED are beyond the prover; of `Terminates` the safety half
is proved (`LoopsEnd`). Every invariant and
action property a passing run checks, and the refinement of `FernetRepo`, is stated by a theorem.

## 5. Not modelled, and the plan

Not modelled: the text of configuration files, the layout of jobs and
Deployments (only what makes one differ from the next is), the manager's
wiring, generated code. `GetApplicationCredentialFromSecret`, the clients
and the other lookups for other operators only read. Of the webhook only the validation of external Keystone
is modelled: defaults, deprecated fields and route annotations never meet the
controllers' state. Of the KeystoneAPI controller, left out are
topologyRef, the status of network attachments, preserveJobs, changes of
replicas and of `memcachedInstance` (a finalizer stays on the old Memcached), the
RBAC objects, and a database that is created only in part: the latter depends on
mariadb-operator's library. `ReleaseDB` has no path for a database or account that is not found. No edit
is made once a KeystoneAPI is being deleted, and a reconcile of it reads the status it patched last.

Next: what of the account survives `Revert`, and of `CredentialsUsable` a stale status, in a weaker
form; a Topology reference and preserveJobs in `KeystoneAPI`.
