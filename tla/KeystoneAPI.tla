---------------------------- MODULE KeystoneAPI ----------------------------
(***************************************************************************)
(* The KeystoneAPI controller (internal/controller/                        *)
(* keystoneapi_controller.go): the reconcile that deploys Keystone, the    *)
(* rotation of the message bus Secret, the switch of the database account, *)
(* the db sync and bootstrap jobs, the rollout of the Deployment, external *)
(* Keystone, the admission webhook, and deletion.                          *)
(*                                                                         *)
(* A reconcile is a sequence of steps, one per object it reads or writes.  *)
(* It works on the KeystoneAPI as it was when it started (inst) and writes *)
(* the status back at the end, whatever happened before; a crash, or a     *)
(* failing patch, loses what it knew.  Meanwhile users edit the spec,      *)
(* infra-operator issues bus Secrets, jobs finish and pods are replaced.   *)
(* A reconcile starts only when something the controller watches changed   *)
(* (queued).                                                               *)
(*                                                                         *)
(* What the user or another operator provides is a version number: 1 is    *)
(* the first, 0 means there is none.  A hash is the value it is taken of.  *)
(* Left out: topologyRef and networkAttachments (unset), preserveJobs      *)
(* (false), replicas is fixed, other controllers' finalizers on the        *)
(* KeystoneAPI (module Catalog), key rotation (module FernetKeys).         *)
(***************************************************************************)
EXTENDS Naturals, FiniteSets

CONSTANTS
  Pods,        \* one element per replica of the Deployment
  MaxVersion,  \* last version of account, image and endpoint URL
  MaxSecret,   \* last transport URL Secret
  MaxEdits,    \* the spec is edited at most MaxEdits times
  Rapid,       \* may the Secret be rotated again before the last rotation ended?
  Revert,      \* may an edit bring back an earlier value?
  UserOps,     \* subset of {"acct", "img", "url", "external", "delete"}
  Flaky,       \* subset of Inputs: those that may be missing for a while
  Faults,      \* what may go wrong: subset of {"call", "crash", "inputs"}
  MaxFaults    \* at most MaxFaults faults happen

\* What the user or another operator has to provide.
Inputs == {"secret", "db", "memcached", "federation", "tls", "nad"}

ASSUME ConstantsAssumption ==
  /\ IsFiniteSet(Pods) /\ Pods # {}
  /\ MaxVersion \in Nat \ {0} /\ MaxSecret \in Nat /\ MaxEdits \in Nat
  /\ MaxFaults \in Nat /\ {Rapid, Revert} \subseteq BOOLEAN
  /\ UserOps \subseteq {"acct", "img", "url", "external", "delete"}
  /\ Flaky \subseteq Inputs /\ Faults \subseteq {"call", "crash", "inputs"}

VARIABLES
  api,                   \* the KeystoneAPI
  turl,                  \* TransportURL: does it exist, the Secret it names
  held, accHeld,         \* Secrets and MariaDBAccounts with our finalizer
  mcHeld, dbHeld,        \* do Memcached and the database have it?
  up,                    \* the inputs that are there
  cfg, fernet,           \* config Secret; does the Secret of keys exist?
  job,                   \* the jobs, per kind: what for, finished?
  synced, booted,        \* images the schema fits; URL in Keystone's catalog
  depl, pods,            \* the Deployment and its pods
  cron, cloud,           \* image of the CronJob, URL in openstack-config
  pc, inst, queued,      \* the controller: next step, KeystoneAPI in memory,
                         \* is a reconcile due?
  edits, faults          \* bounded counters

holdVars == <<held, accHeld, mcHeld, dbHeld>>
cfgVars == <<cfg, fernet>>
jobVars == <<job, synced, booted>>
runVars == <<depl, pods, cron, cloud>>
envVars == <<turl, up, edits>>
worldVars == <<envVars, faults>>
vars == <<api, holdVars, cfgVars, jobVars, runVars, worldVars, pc, inst, queued>>

----------------------------------------------------------------------------
(* Objects *)

Version == 0..MaxVersion
Secret == 0..MaxSecret
Endpoint == {"public", "internal"}

\* over: the endpoints for which spec.override names a well-formed URL; url is
\* the version of these URLs, or of the ones made from the Service without them.
Spec_ == [acct: Version, img: Version, url: Version, over: SUBSET Endpoint, ext: BOOLEAN]
\* The rendered config, and with the Secret of keys when this reconcile made it
\* the inputs that are hashed for CONFIG_HASH.
Config == [sec: Secret, acct: Version, url: Version]
Hash == [cfg: Config, fernet: BOOLEAN]
Template == [hash: Hash, img: Version]
Pod == [tmpl: Template, cfg: Config]
\* What a job is for: db sync depends on the image, bootstrap also on the URL.
JobDef == [img: Version, url: Version]
Job == [def: JobDef, done: BOOLEAN]
\* tsec, url, rc, sync, boot: status.transportURLSecret, apiEndpoints,
\* readyCount and the hashes of the jobs that are done.
API == [spec: Spec_, fin: BOOLEAN, init: BOOLEAN, deleting: BOOLEAN, gone: BOOLEAN,
        ready: BOOLEAN, tsec: Secret, url: Version, rc: 0..Cardinality(Pods),
        sync: JobDef, boot: JobDef]
\* In memory also: the current Secret, the hash, and the conditions
\* DeploymentReady (dep: as the Deployment was read, live: as reported).
Instance == [spec: Spec_, fin: BOOLEAN, deleting: BOOLEAN, ready: BOOLEAN, tsec: Secret,
             url: Version, rc: 0..Cardinality(Pods), sync: JobDef, boot: JobDef,
             cur: Secret, hash: Hash, dep: BOOLEAN, live: BOOLEAN]

NoSpec == [acct |-> 0, img |-> 0, url |-> 0, over |-> {}, ext |-> FALSE]
NoConfig == [sec |-> 0, acct |-> 0, url |-> 0]
NoHash == [cfg |-> NoConfig, fernet |-> FALSE]
NoTemplate == [hash |-> NoHash, img |-> 0]
NoPod == [tmpl |-> NoTemplate, cfg |-> NoConfig]
NoDef == [img |-> 0, url |-> 0]
NoJob == [def |-> NoDef, done |-> FALSE]
NoInst == [spec |-> NoSpec, fin |-> FALSE, deleting |-> FALSE, ready |-> FALSE, tsec |-> 0,
           url |-> 0, rc |-> 0, sync |-> NoDef, boot |-> NoDef, cur |-> 0, hash |-> NoHash,
           dep |-> FALSE, live |-> FALSE]

Running == {p \in Pods : pods[p] # NoPod}
Fault(kind) == kind \in Faults /\ faults < MaxFaults /\ faults' = faults + 1

----------------------------------------------------------------------------
(* The admission webhook *)

\* ValidateExternalKeystoneAPI(): external Keystone needs both endpoint URLs.
ValidateExternalKeystoneAPI(spec) ==
  spec.ext => {"public", "internal"} \subseteq spec.over

ValidateCreate(spec) == ValidateExternalKeystoneAPI(spec)
ValidateUpdate(spec) == ValidateExternalKeystoneAPI(spec)

----------------------------------------------------------------------------
(* Initial states: a new KeystoneAPI the webhook has admitted. *)

Init ==
  /\ api \in {[spec |-> [acct |-> 1, img |-> 1, url |-> 1, over |-> o, ext |-> x],
               fin |-> FALSE, init |-> FALSE, deleting |-> FALSE, gone |-> FALSE,
               ready |-> FALSE, tsec |-> 0, url |-> 0, rc |-> 0, sync |-> NoDef,
               boot |-> NoDef] : o \in SUBSET Endpoint, x \in BOOLEAN}
  /\ api.spec.ext => "external" \in UserOps
  /\ ~api.spec.ext => api.spec.over = {}
  /\ ValidateCreate(api.spec)
  /\ turl = [ex |-> FALSE, sec |-> 0]
  /\ held = {} /\ accHeld = {} /\ mcHeld = FALSE /\ dbHeld = FALSE
  /\ up \in {Inputs, Inputs \ Flaky}
  /\ cfg = NoConfig /\ fernet = FALSE
  /\ job = [k \in {"sync", "boot"} |-> NoJob] /\ synced = {} /\ booted = 0
  /\ depl = [tmpl |-> NoTemplate, observed |-> TRUE] /\ pods = [p \in Pods |-> NoPod]
  /\ cron = 0 /\ cloud = 0
  /\ pc = "idle" /\ inst = NoInst /\ queued = TRUE
  /\ edits = 0 /\ faults = 0

----------------------------------------------------------------------------
(* Reconcile *)

Goto(label) == pc' = label /\ UNCHANGED queued
\* A step wrote an object the controller watches.
GotoWoken(label, changed) == pc' = label /\ queued' = (queued \/ changed)
\* Reconcile returns: with an error or RequeueAfter it will run again.
Return(requeue) == pc' = "patch" /\ queued' = (queued \/ requeue)

\* The KeystoneAPI as a reconcile reads it.
Copy == [NoInst EXCEPT !.spec = api.spec, !.fin = api.fin, !.deleting = api.deleting,
                       !.tsec = api.tsec, !.url = api.url, !.rc = api.rc,
                       !.sync = api.sync, !.boot = api.boot]

\* Reconcile(): a new KeystoneAPI only gets its finalizer and conditions.
Reconcile ==
  /\ pc = "idle" /\ queued /\ ~api.gone
  /\ queued' = FALSE
  /\ LET finalizer == ~api.deleting /\ ~api.fin
     IN \/ /\ finalizer \/ ~api.init
           /\ inst' = [Copy EXCEPT !.fin = @ \/ finalizer] /\ pc' = "patch"
        \/ /\ api.init /\ api.deleting /\ api.spec.ext
           /\ inst' = [Copy EXCEPT !.fin = FALSE] /\ pc' = "patch"
        \/ /\ api.init /\ api.deleting /\ ~api.spec.ext
           /\ inst' = Copy /\ pc' = "unhold_memcached"
        \/ /\ api.init /\ ~finalizer /\ ~api.deleting
           /\ inst' = Copy /\ pc' = IF api.spec.ext THEN "external" ELSE "secret"
  /\ UNCHANGED <<api, holdVars, cfgVars, jobVars, runVars, worldVars>>

\* The KeystoneAPI with what the reconcile has to write.
Patched ==
  [api EXCEPT !.fin = inst.fin, !.init = TRUE, !.ready = inst.ready, !.tsec = inst.tsec,
              !.url = inst.url, !.rc = inst.rc, !.sync = inst.sync, !.boot = inst.boot,
              !.gone = api.deleting /\ ~inst.fin]

\* The deferred PatchInstance().  A KeystoneAPI without finalizers disappears
\* when it is deleted, and Kubernetes removes what it owns.
Patch ==
  /\ pc = "patch" /\ pc' = "idle" /\ inst' = NoInst
  /\ api' = IF api.gone THEN api ELSE Patched
  /\ queued' = (queued \/ api' # api)
  /\ pods' = IF api'.gone THEN [p \in Pods |-> NoPod] ELSE pods
  /\ cron' = IF api'.gone THEN 0 ELSE cron
  /\ UNCHANGED <<holdVars, cfgVars, jobVars, depl, cloud, worldVars>>

\* A call to the Kubernetes API fails: every step then returns the error.
CallFails ==
  /\ Fault("call") /\ pc \notin {"idle", "patch"}
  /\ Return(TRUE)
  /\ UNCHANGED <<api, holdVars, cfgVars, jobVars, runVars, envVars, inst>>

\* The operator restarts, or the final patch fails.
Crash ==
  /\ Fault("crash") /\ pc # "idle"
  /\ pc' = "idle" /\ inst' = NoInst /\ queued' = TRUE
  /\ UNCHANGED <<api, holdVars, cfgVars, jobVars, runVars, envVars>>

----------------------------------------------------------------------------
(* reconcileNormal: inputs *)

\* verifySecret()
VerifySecret ==
  /\ pc = "secret"
  /\ IF "secret" \in up THEN Goto("db") ELSE Return(TRUE)
  /\ UNCHANGED <<api, holdVars, cfgVars, jobVars, runVars, worldVars, inst>>

\* ensureDB(): account and database get the finalizer before they are ready.
EnsureDB ==
  /\ pc = "db"
  /\ accHeld' = accHeld \cup {inst.spec.acct} /\ dbHeld' = TRUE
  /\ IF "db" \in up THEN Goto("transport") ELSE Return(TRUE)
  /\ UNCHANGED <<api, held, mcHeld, cfgVars, jobVars, runVars, worldVars, inst>>

\* transportURLCreateOrUpdate(), then the Secret it names.  Only the first one
\* enters the status at once.
TransportURL ==
  /\ pc = "transport"
  /\ turl' = [turl EXCEPT !.ex = TRUE]
  /\ IF turl.sec = 0
       THEN Return(TRUE) /\ UNCHANGED inst
       ELSE /\ inst' = [inst EXCEPT !.cur = turl.sec,
                                    !.tsec = IF @ = 0 THEN turl.sec ELSE @]
            /\ Goto("hold")
  /\ UNCHANGED <<api, holdVars, cfgVars, jobVars, runVars, up, faults, edits>>

\* object.ManageSecretConsumerFinalizer() for the Secret that was read.
HoldSecret ==
  /\ pc = "hold"
  /\ held' = held \cup {inst.cur} /\ Goto("memcached")
  /\ UNCHANGED <<api, accHeld, mcHeld, dbHeld, cfgVars, jobVars, runVars, worldVars, inst>>

\* Memcached is held as soon as it exists, which may be before it is ready.
Memcached ==
  /\ pc = "memcached"
  /\ IF "memcached" \in up
       THEN mcHeld' = TRUE /\ Goto("config")
       ELSE mcHeld' \in {mcHeld, TRUE} /\ Return(TRUE)
  /\ UNCHANGED <<api, held, accHeld, dbHeld, cfgVars, jobVars, runVars, worldVars, inst>>

\* generateServiceConfigMaps(): the endpoints are those of the status, so the
\* ones of the reconcile before.
GenerateServiceConfigMaps ==
  /\ pc = "config"
  /\ cfg' = [sec |-> inst.cur, acct |-> inst.spec.acct, url |-> inst.url]
  /\ inst' = [inst EXCEPT !.hash = [cfg |-> cfg', fernet |-> FALSE]]
  /\ GotoWoken("fernet", cfg' # cfg)
  /\ UNCHANGED <<api, holdVars, fernet, jobVars, runVars, worldVars>>

\* ensureFernetKeys(): the keys are hashed only by the reconcile that makes them.
EnsureFernetKeys ==
  /\ pc = "fernet"
  /\ fernet' = TRUE
  /\ inst' = [inst EXCEPT !.hash.fernet = ~fernet]
  /\ GotoWoken("verify", ~fernet)
  /\ UNCHANGED <<api, holdVars, cfg, jobVars, runVars, worldVars>>

\* ensureFederationRealmConfig(): the Secret it writes follows from the user's.
EnsureFederationRealmConfig == "federation" \in up
\* verifyTLSInput(), and ValidateCertSecrets() of an internal Keystone.
VerifyTLSInput == "tls" \in up
GetNADWithName == "nad" \in up

\* A missing TLS Secret is no error: the controller waits for the watch to tell.
VerifyInputs ==
  /\ pc = "verify"
  /\ CASE ~EnsureFederationRealmConfig -> Return(TRUE)
       [] EnsureFederationRealmConfig /\ ~VerifyTLSInput -> Return(FALSE)
       [] EnsureFederationRealmConfig /\ VerifyTLSInput ->
            IF GetNADWithName THEN Goto("dbsync") ELSE Return(TRUE)
  /\ UNCHANGED <<api, holdVars, cfgVars, jobVars, runVars, worldVars, inst>>

----------------------------------------------------------------------------
(* reconcileInit: jobs and Services *)

\* lib-common's Job.DoJob(): a job whose hash is the one of the last run is
\* skipped, a job for something else replaced, a finished one removed.
JobSkipped(def, before) == def = before
JobFinished(kind, def, before) == def # before /\ job[kind] = [def |-> def, done |-> TRUE]
JobStarted(kind, def, before) == def # before /\ job[kind].def # def
JobRunning(kind, def, before) == def # before /\ job[kind] = [def |-> def, done |-> FALSE]

SyncDef(i) == [img |-> i.spec.img, url |-> 0]
BootDef(i) == [img |-> i.spec.img, url |-> i.url]

DoJob(kind, def, before, done, next) ==
  \/ /\ JobSkipped(def, before)
     /\ Goto(next) /\ UNCHANGED <<job, inst>>
  \/ /\ JobFinished(kind, def, before)
     /\ job' = [job EXCEPT ![kind] = NoJob] /\ inst' = done
     /\ GotoWoken(next, TRUE)
  \/ /\ JobStarted(kind, def, before)
     /\ job' = [job EXCEPT ![kind] = [def |-> def, done |-> FALSE]] /\ UNCHANGED inst
     /\ Return(TRUE)
  \/ /\ JobRunning(kind, def, before)
     /\ Return(TRUE) /\ UNCHANGED <<job, inst>>

\* Mutant: a job that is still running is not waited for.
DbSyncMutant ==
  /\ pc = "dbsync"
  /\ \/ DoJob("sync", SyncDef(inst), inst.sync, [inst EXCEPT !.sync = SyncDef(inst)], "services")
     \/ /\ JobRunning("sync", SyncDef(inst), inst.sync)
        /\ Goto("services") /\ UNCHANGED <<job, inst>>
  /\ UNCHANGED <<api, holdVars, cfgVars, synced, booted, runVars, worldVars>>

DbSync ==
  /\ pc = "dbsync"
  /\ DoJob("sync", SyncDef(inst), inst.sync, [inst EXCEPT !.sync = SyncDef(inst)], "services")
  /\ UNCHANGED <<api, holdVars, cfgVars, synced, booted, runVars, worldVars>>

\* Create the Services and take the endpoints from them.
CreateServices ==
  /\ pc = "services"
  /\ inst' = [inst EXCEPT !.url = inst.spec.url]
  /\ Goto("bootstrap")
  /\ UNCHANGED <<api, holdVars, cfgVars, jobVars, runVars, worldVars>>

Bootstrap ==
  /\ pc = "bootstrap"
  /\ DoJob("boot", BootDef(inst), inst.boot, [inst EXCEPT !.boot = BootDef(inst)], "deploy")
  /\ UNCHANGED <<api, holdVars, cfgVars, synced, booted, runVars, worldVars>>

----------------------------------------------------------------------------
(* reconcileNormal: Deployment, CronJob, client config *)

\* Deployment(): what its pods are started with.
Deployment(i) == [hash |-> i.hash, img |-> i.spec.img]

\* Mutant: updatedReplicas are counted besides readyReplicas.
DeployMutant ==
  /\ pc = "deploy"
  /\ LET tmpl == Deployment(inst)
         observed == depl.observed /\ depl.tmpl = tmpl
     IN /\ depl' = [tmpl |-> tmpl, observed |-> observed]
        /\ inst' = [inst EXCEPT !.rc = Cardinality(Running)
                                        + Cardinality({p \in Pods : pods[p].tmpl = tmpl}),
                                !.dep = observed /\ Running = Pods]
        /\ GotoWoken("ready", depl.tmpl # tmpl)
  /\ UNCHANGED <<api, holdVars, cfgVars, jobVars, pods, cron, cloud, worldVars>>

\* readyReplicas counts the pods of any template; it is taken over, and the
\* Deployment counts as ready, only if the last change has been observed.
Deploy ==
  /\ pc = "deploy"
  /\ LET tmpl == Deployment(inst)
         observed == depl.observed /\ depl.tmpl = tmpl
     IN /\ depl' = [tmpl |-> tmpl, observed |-> observed]
        /\ inst' = [inst EXCEPT !.rc = IF observed THEN Cardinality(Running) ELSE @,
                                !.dep = observed /\ Running = Pods]
        /\ GotoWoken("ready", depl.tmpl # tmpl)
  /\ UNCHANGED <<api, holdVars, cfgVars, jobVars, pods, cron, cloud, worldVars>>

\* deployment.IsReadyForInput(): all pods run the template of these inputs.
IsReadyForInput(hash) ==
  /\ depl.observed /\ depl.tmpl.hash = hash
  /\ \A p \in Pods : pods[p].tmpl = depl.tmpl

\* Mutant: the Deployment's own idea of ready is enough.
DeploymentReadyMutant ==
  /\ pc = "ready"
  /\ inst' = [inst EXCEPT !.live = inst.dep]
  /\ Goto("accounts")
  /\ UNCHANGED <<api, holdVars, cfgVars, jobVars, runVars, worldVars>>

DeploymentReady ==
  /\ pc = "ready"
  /\ inst' = [inst EXCEPT !.live = inst.dep /\ IsReadyForInput(inst.hash)]
  /\ Goto("accounts")
  /\ UNCHANGED <<api, holdVars, cfgVars, jobVars, runVars, worldVars>>

\* DeleteUnusedMariaDBAccountFinalizers()
ReleaseAccounts ==
  /\ pc = "accounts"
  /\ accHeld' = IF inst.rc = Cardinality(Pods) THEN accHeld \cap {inst.spec.acct} ELSE accHeld
  /\ Goto("cron")
  /\ UNCHANGED <<api, held, mcHeld, dbHeld, cfgVars, jobVars, runVars, worldVars, inst>>

\* CronJob(): it differs by its image.
CronJob(i) == i.spec.img

\* The CronJob is the last step with a condition: what comes after it may fail,
\* and the KeystoneAPI is ready all the same.
CreateCronJob ==
  /\ pc = "cron"
  /\ cron' = CronJob(inst)
  /\ inst' = [inst EXCEPT !.ready = inst.live]
  /\ GotoWoken("cloud", cron' # cron)
  /\ UNCHANGED <<api, holdVars, cfgVars, jobVars, depl, pods, cloud, worldVars>>

\* reconcileCloudConfig(): the ConfigMap with the auth URL, then the Secret, for
\* which the password is read once more.
ReconcileCloudConfig ==
  /\ pc = "cloud"
  /\ cloud' = inst.url
  /\ \/ /\ "secret" \in up
        /\ GotoWoken(IF inst.spec.ext THEN "patch" ELSE "finalize", cloud' # cloud)
     \/ "secret" \notin up /\ Return(TRUE)
  /\ UNCHANGED <<api, holdVars, cfgVars, jobVars, depl, pods, cron, worldVars, inst>>

----------------------------------------------------------------------------
(* The end of a rotation *)

\* Mutant: the rotation ends without regard to its guard.
FinalizeMutant ==
  /\ pc = "finalize"
  /\ held' = held \ ({inst.tsec} \ {inst.cur})
  /\ inst' = [inst EXCEPT !.tsec = inst.cur]
  /\ Goto("prune")
  /\ UNCHANGED <<api, accHeld, mcHeld, dbHeld, cfgVars, jobVars, runVars, worldVars>>

\* object.FinalizeSecretRotation(): once the guard holds, the old Secret is
\* released and the current one enters the status.
FinalizeSecretRotation ==
  /\ pc = "finalize"
  /\ LET over == inst.tsec = inst.cur \/ inst.ready IN
     /\ held' = IF over THEN held \ ({inst.tsec} \ {inst.cur}) ELSE held
     /\ inst' = IF over THEN [inst EXCEPT !.tsec = inst.cur] ELSE inst
  /\ Goto("prune")
  /\ UNCHANGED <<api, accHeld, mcHeld, dbHeld, cfgVars, jobVars, runVars, worldVars>>

\* object.PruneSecretConsumerFinalizers(): all others are released.
PruneSecretConsumerFinalizers ==
  /\ pc = "prune"
  /\ held' = held \cap {inst.tsec, inst.cur}
  /\ Return(FALSE)
  /\ UNCHANGED <<api, accHeld, mcHeld, dbHeld, cfgVars, jobVars, runVars, worldVars, inst>>

----------------------------------------------------------------------------
(* External Keystone *)

\* reconcileExternalKeystoneAPI(), up to the client config.
ReconcileExternal ==
  /\ pc = "external"
  /\ LET given == [inst EXCEPT !.url = inst.spec.url, !.rc = 0] IN
     \/ /\ "secret" \notin up
        /\ Return(TRUE) /\ UNCHANGED inst
     \/ /\ "secret" \in up /\ inst.spec.over # Endpoint
        /\ Return(FALSE) /\ UNCHANGED inst
     \/ /\ "secret" \in up /\ inst.spec.over = Endpoint /\ ~VerifyTLSInput
        /\ inst' = given /\ Return(FALSE)
     \/ /\ "secret" \in up /\ inst.spec.over = Endpoint /\ VerifyTLSInput
        /\ inst' = [given EXCEPT !.ready = TRUE] /\ Goto("cloud")
  /\ UNCHANGED <<api, holdVars, cfgVars, jobVars, runVars, worldVars>>

----------------------------------------------------------------------------
(* reconcileDelete *)

ReleaseMemcached ==
  /\ pc = "unhold_memcached"
  /\ mcHeld' = FALSE /\ Goto("unhold_db")
  /\ UNCHANGED <<api, held, accHeld, dbHeld, cfgVars, jobVars, runVars, worldVars, inst>>

\* Database.DeleteFinalizer(): the database and the account of the spec.
ReleaseDB ==
  /\ pc = "unhold_db"
  /\ dbHeld' = FALSE /\ accHeld' = accHeld \ {inst.spec.acct}
  /\ Goto("unhold_old")
  /\ UNCHANGED <<api, held, mcHeld, cfgVars, jobVars, runVars, worldVars, inst>>

\* Mutant: deletion waits for a pending rotation to end.
ReleaseOldSecretMutant ==
  /\ pc = "unhold_old"
  /\ IF inst.tsec = turl.sec
       THEN held' = held \ {inst.tsec} /\ Goto("unhold_new")
       ELSE Return(TRUE) /\ UNCHANGED held
  /\ UNCHANGED <<api, accHeld, mcHeld, dbHeld, cfgVars, jobVars, runVars, worldVars, inst>>

\* The Secret of the status, and the one a pending rotation leads to.
ReleaseOldSecret ==
  /\ pc = "unhold_old"
  /\ held' = held \ {inst.tsec} /\ Goto("unhold_new")
  /\ UNCHANGED <<api, accHeld, mcHeld, dbHeld, cfgVars, jobVars, runVars, worldVars, inst>>

\* Mutant: the Secret of a pending rotation is forgotten.
ReleaseNewSecretMutant ==
  /\ pc = "unhold_new"
  /\ inst' = [inst EXCEPT !.fin = FALSE] /\ Return(FALSE)
  /\ UNCHANGED <<api, holdVars, cfgVars, jobVars, runVars, worldVars>>

ReleaseNewSecret ==
  /\ pc = "unhold_new"
  /\ held' = held \ {turl.sec}
  /\ inst' = [inst EXCEPT !.fin = FALSE] /\ Return(FALSE)
  /\ UNCHANGED <<api, accHeld, mcHeld, dbHeld, cfgVars, jobVars, runVars, worldVars>>

Controller ==
  \/ Reconcile \/ Patch
  \/ VerifySecret \/ EnsureDB \/ TransportURL \/ HoldSecret \/ Memcached
  \/ GenerateServiceConfigMaps \/ EnsureFernetKeys \/ VerifyInputs
  \/ DbSync \/ CreateServices \/ Bootstrap
  \/ Deploy \/ DeploymentReady \/ ReleaseAccounts \/ CreateCronJob \/ ReconcileCloudConfig
  \/ FinalizeSecretRotation \/ PruneSecretConsumerFinalizers
  \/ ReconcileExternal
  \/ ReleaseMemcached \/ ReleaseDB \/ ReleaseOldSecret \/ ReleaseNewSecret

----------------------------------------------------------------------------
(* The users *)

NextVersions(v) == {w \in 1..MaxVersion : w = v + 1 \/ (Revert /\ w < v)}

\* The specs a user may ask for; the webhook admits some of them.
Edited(s) ==
  {[s EXCEPT !.acct = w] : w \in IF "acct" \in UserOps THEN NextVersions(s.acct) ELSE {}}
  \cup {[s EXCEPT !.img = w] : w \in IF "img" \in UserOps THEN NextVersions(s.img) ELSE {}}
  \cup {[s EXCEPT !.url = w] : w \in IF "url" \in UserOps THEN NextVersions(s.url) ELSE {}}
  \cup {[s EXCEPT !.ext = ~@, !.over = o] :
           o \in CASE "external" \notin UserOps -> {} [] s.ext -> {s.over} [] OTHER -> SUBSET Endpoint}

\* Users edit the spec, at most MaxEdits times, and not of an object being deleted.
EditSpec ==
  /\ ~api.deleting /\ ~api.gone /\ edits < MaxEdits
  /\ \E s \in Edited(api.spec) :
       /\ ValidateUpdate(s)
       /\ api' = [api EXCEPT !.spec = s]
  /\ edits' = edits + 1 /\ queued' = TRUE
  /\ UNCHANGED <<holdVars, cfgVars, jobVars, runVars, turl, up, faults, pc, inst>>

DeleteAPI ==
  /\ "delete" \in UserOps /\ ~api.deleting /\ ~api.gone
  /\ api' = [api EXCEPT !.deleting = TRUE, !.gone = ~api.fin]
  /\ queued' = TRUE
  /\ UNCHANGED <<holdVars, cfgVars, jobVars, runVars, worldVars, pc, inst>>

----------------------------------------------------------------------------
(* Other operators and Kubernetes *)

\* infra-operator names the first Secret of the TransportURL, or another one
\* (its credentials changed).
IssueSecret ==
  /\ turl.ex /\ turl.sec < MaxSecret /\ ~api.gone
  /\ turl.sec = 0 \/ Rapid \/ api.tsec = turl.sec
  /\ turl' = [turl EXCEPT !.sec = @ + 1] /\ queued' = TRUE
  /\ UNCHANGED <<api, holdVars, cfgVars, jobVars, runVars, up, faults, edits, pc, inst>>

\* Mutant: the field of the TLS Secret is not indexed.
WatchedMutant == Inputs \ {"nad", "tls"}

\* Inputs come, which wakes the controller if it watches them, and go.
Watched == Inputs \ {"nad"}

InputArrives(n) ==
  /\ n \in Flaky \ up
  /\ up' = up \cup {n} /\ queued' = (queued \/ n \in Watched)
  /\ UNCHANGED <<api, holdVars, cfgVars, jobVars, runVars, turl, faults, edits, pc, inst>>

InputVanishes(n) ==
  /\ Fault("inputs") /\ n \in Flaky \cap up
  /\ up' = up \ {n}
  /\ UNCHANGED <<api, holdVars, cfgVars, jobVars, runVars, turl, edits, pc, inst, queued>>

\* db sync adapts the schema to its image, bootstrap registers its URL.
JobFinishes(kind) ==
  /\ job[kind] # NoJob /\ ~job[kind].done
  /\ job' = [job EXCEPT ![kind].done = TRUE]
  /\ synced' = IF kind = "sync" THEN synced \cup {job[kind].def.img} ELSE synced
  /\ booted' = IF kind = "boot" THEN job[kind].def.url ELSE booted
  /\ queued' = TRUE
  /\ UNCHANGED <<api, holdVars, cfgVars, runVars, worldVars, pc, inst>>

\* The Deployment controller sees the new template, then replaces pod by pod;
\* a pod reads the config when it starts.
ObserveDeployment ==
  /\ ~depl.observed /\ ~api.gone
  /\ depl' = [depl EXCEPT !.observed = TRUE] /\ queued' = TRUE
  /\ UNCHANGED <<api, holdVars, cfgVars, jobVars, pods, cron, cloud, worldVars, pc, inst>>

ReplacePod(p) ==
  /\ depl.observed /\ pods[p].tmpl # depl.tmpl /\ ~api.gone
  /\ pods' = [pods EXCEPT ![p] = [tmpl |-> depl.tmpl, cfg |-> cfg]]
  /\ queued' = TRUE
  /\ UNCHANGED <<api, holdVars, cfgVars, jobVars, depl, cron, cloud, worldVars, pc, inst>>

\* A pod is restarted, on its own account.
RestartPod(p) ==
  /\ pods[p] # NoPod /\ pods[p].cfg # cfg
  /\ pods' = [pods EXCEPT ![p].cfg = cfg]
  /\ queued' = TRUE
  /\ UNCHANGED <<api, holdVars, cfgVars, jobVars, depl, cron, cloud, worldVars, pc, inst>>

Environment ==
  \/ EditSpec \/ DeleteAPI \/ IssueSecret
  \/ \E n \in Inputs : InputArrives(n) \/ InputVanishes(n)
  \/ \E kind \in {"sync", "boot"} : JobFinishes(kind)
  \/ ObserveDeployment
  \/ \E p \in Pods : ReplacePod(p) \/ RestartPod(p)

Next == Controller \/ CallFails \/ Crash \/ Environment

Spec == Init /\ [][Next]_vars

\* The work queue retries; jobs, Kubernetes and infra-operator do their part;
\* what is missing is provided, and faults end.
FairSpec ==
  /\ Spec
  /\ WF_pc(Controller)
  /\ WF_job(\E kind \in {"sync", "boot"} : JobFinishes(kind))
  /\ WF_depl(ObserveDeployment) /\ WF_pods(\E p \in Pods : ReplacePod(p))
  /\ WF_turl(turl.sec = 0 /\ IssueSecret)
  /\ \A n \in Flaky : WF_up(InputArrives(n))

----------------------------------------------------------------------------
(* Properties *)

Steps == {"idle", "patch", "secret", "db", "transport", "hold", "memcached", "config", "fernet",
          "verify", "dbsync", "services", "bootstrap", "deploy", "ready",
          "accounts", "cron", "cloud", "finalize", "prune", "external", "unhold_memcached",
          "unhold_db", "unhold_old", "unhold_new"}

\* The state the controller keeps and writes has the shape the code gives it.
TypeOK ==
  /\ api \in API
  /\ turl \in [ex: BOOLEAN, sec: Secret]
  /\ held \subseteq Secret /\ accHeld \subseteq Version /\ mcHeld \in BOOLEAN /\ dbHeld \in BOOLEAN
  /\ up \subseteq Inputs /\ cfg \in Config /\ fernet \in BOOLEAN
  /\ job \in [{"sync", "boot"} -> Job] /\ synced \subseteq Version /\ booted \in Version
  /\ depl \in [tmpl: Template, observed: BOOLEAN] /\ pods \in [Pods -> Pod]
  /\ cron \in Version /\ cloud \in Version
  /\ pc \in Steps /\ inst \in Instance /\ queued \in BOOLEAN
  /\ edits \in 0..MaxEdits /\ faults \in 0..MaxFaults

\* The bus Secret a running pod was configured from keeps our finalizer, so
\* that infra-operator cannot remove its user before the rollout is over.
TransportHeld ==
  ~api.deleting => \A p \in Running : pods[p].cfg.sec \in held

\* No pod and no CronJob runs an image before db sync with it has finished,
\* whatever edits, restarts and lost patches come in between.
SchemaBeforePods ==
  /\ \A p \in Running : pods[p].tmpl.img \in synced
  /\ cron # 0 => cron \in synced

\* A deleted KeystoneAPI leaves no finalizer on the objects it depends on.
NothingStranded ==
  api.gone /\ ~api.spec.ext =>
    held = {} /\ ~mcHeld /\ ~dbHeld /\ api.spec.acct \notin accHeld

\* Ready is reported only when all pods run with the inputs of this reconcile,
\* on a schema that fits, after a bootstrap with the reported URL.
ReadyHonest ==
  [][Patch /\ inst.ready /\ ~inst.spec.ext =>
       /\ \A p \in Pods : /\ pods[p].tmpl.img = inst.spec.img
                          /\ pods[p].cfg.sec = inst.cur /\ pods[p].cfg.acct = inst.spec.acct
       /\ inst.spec.img \in synced
       /\ inst.boot = [img |-> inst.spec.img, url |-> inst.url]]_vars

\* What a KeystoneAPI comes to when it is left alone.
Converged ==
  /\ api.ready /\ api.url = api.spec.url /\ cloud = api.spec.url
  /\ api.spec.ext \/
       /\ api.tsec = turl.sec /\ held = {turl.sec} /\ accHeld = {api.spec.acct}
       /\ booted = api.spec.url /\ cron = api.spec.img
       /\ \A p \in Pods : /\ pods[p].tmpl.img = api.spec.img
                          /\ pods[p].cfg = [sec |-> turl.sec, acct |-> api.spec.acct,
                                            url |-> api.spec.url]

\* Once users and faults are quiet, every wait ends: the watches wake the
\* controller until all that it deploys agrees with the spec, for good.
Settles == <>[](Converged \/ api.deleting)

\* A KeystoneAPI that is deleted, which is never taken back, goes away.
DeletionCompletes == <>[](api.deleting => api.gone)
=============================================================================
