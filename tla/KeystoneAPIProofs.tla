-------------------------- MODULE KeystoneAPIProofs --------------------------
(***************************************************************************)
(* Proofs about KeystoneAPI, for every number of pods, versions, Secrets,  *)
(* edits and faults, and every interleaving of the controller with users,  *)
(* jobs, pods and the other operators.                                     *)
(***************************************************************************)
EXTENDS KeystoneAPI, FiniteSetTheorems, TLAPS

----------------------------------------------------------------------------
(* The types of the objects *)

\* ReadyCount can name any number of the Deployment's pods.
LEMMA PodsCount == Cardinality(Pods) \in Nat /\ 0 \in 0..Cardinality(Pods)
BY ConstantsAssumption, FS_CardinalityType

\* The objects that are not there yet have their types.
LEMMA ObjectTypes ==
  /\ NoInst \in Instance /\ NoTemplate \in Template /\ NoPod \in Pod /\ NoJob \in Job
  /\ NoConfig \in Config /\ NoDef \in JobDef /\ NoSpec \in Spec_
  /\ 0 \in Version /\ 1 \in Version /\ 0 \in Secret
<1> USE ConstantsAssumption
<1>1. 0 \in Version /\ 1 \in Version /\ 0 \in Secret
  BY DEF Version, Secret
<1>2. NoConfig \in Config /\ NoDef \in JobDef /\ NoSpec \in Spec_
  BY <1>1 DEF NoConfig, Config, NoDef, JobDef, NoSpec, Spec_
<1>3. NoHash \in Hash
  BY <1>2 DEF NoHash, Hash
<1>4. NoTemplate \in Template /\ NoJob \in Job
  BY <1>1, <1>2, <1>3 DEF NoTemplate, Template, NoJob, Job
<1>5. NoPod \in Pod
  BY <1>2, <1>4 DEF NoPod, Pod
<1>6. NoInst \in Instance
  BY <1>1, <1>2, <1>3, PodsCount DEF NoInst, Instance
<1> QED BY <1>1, <1>2, <1>4, <1>5, <1>6

\* What a reconcile starts from is the KeystoneAPI; it knows nothing else yet.
LEMMA CopyEffect ==
  ASSUME api \in API
  PROVE  /\ Copy \in Instance
         /\ Copy.spec = api.spec /\ Copy.fin = api.fin /\ Copy.deleting = api.deleting
         /\ Copy.tsec = api.tsec /\ Copy.sync = api.sync /\ Copy.ready = FALSE
         /\ Copy.live = FALSE /\ Copy.cur = 0
<1>1. NoInst \in Instance
  BY ObjectTypes
<1>2. /\ api.spec \in Spec_ /\ api.fin \in BOOLEAN /\ api.deleting \in BOOLEAN
      /\ api.tsec \in Secret /\ api.url \in Version /\ api.rc \in 0..Cardinality(Pods)
      /\ api.sync \in JobDef /\ api.boot \in JobDef
  BY DEF API
<1>3. Copy \in Instance
  BY <1>1, <1>2 DEF Copy, Instance
<1>4. NoInst.ready = FALSE /\ NoInst.live = FALSE /\ NoInst.cur = 0
  BY DEF NoInst
<1> QED BY <1>1, <1>3, <1>4 DEF Copy, Instance

\* The deferred patch writes the status in memory into the KeystoneAPI.
LEMMA PatchedEffect ==
  ASSUME api \in API, inst \in Instance
  PROVE  /\ Patched \in API
         /\ Patched.spec = api.spec /\ Patched.deleting = api.deleting
         /\ Patched.fin = inst.fin /\ Patched.init = TRUE /\ Patched.tsec = inst.tsec
         /\ Patched.sync = inst.sync /\ Patched.gone = (api.deleting /\ ~inst.fin)
<1>1. /\ inst.fin \in BOOLEAN /\ inst.ready \in BOOLEAN /\ inst.tsec \in Secret
      /\ inst.url \in Version /\ inst.rc \in 0..Cardinality(Pods)
      /\ inst.sync \in JobDef /\ inst.boot \in JobDef
  BY DEF Instance
<1>2. Patched \in API
  BY <1>1 DEF Patched, API
<1> QED BY ZenonT(30), <1>2 DEF Patched, API

\* What a step may leave alone of the KeystoneAPI in memory: the object itself,
\* the Secrets of the rotation, what the jobs were for, and what is reported.
SameObject(i, j) == j.spec = i.spec /\ j.fin = i.fin /\ j.deleting = i.deleting
SameSecrets(i, j) == j.tsec = i.tsec /\ j.cur = i.cur
SameJobs(i, j) == j.url = i.url /\ j.sync = i.sync /\ j.boot = i.boot
SameResult(i, j) == j.hash = i.hash /\ j.ready = i.ready /\ j.live = i.live

\* What each step of a reconcile does to the KeystoneAPI in memory.
LEMMA ReconcileEffect ==
  ASSUME TypeOK, Reconcile
  PROVE  /\ inst' \in Instance /\ inst'.spec = api.spec /\ inst'.deleting = api.deleting
         /\ inst'.tsec = api.tsec /\ inst'.sync = api.sync
         /\ ~inst'.ready /\ ~inst'.live /\ inst'.cur = 0
         /\ \/ /\ pc' = "patch"
               /\ \/ ~api.deleting /\ ~api.fin /\ inst'.fin
                  \/ ~api.init /\ inst'.fin = (api.fin \/ (~api.deleting /\ ~api.fin))
                  \/ api.init /\ api.deleting /\ api.spec.ext /\ ~inst'.fin
            \/ /\ pc' = "unhold_memcached" /\ api.init /\ api.deleting /\ ~api.spec.ext
               /\ inst'.fin = api.fin
            \/ /\ api.init /\ api.fin /\ ~api.deleting /\ inst'.fin
               /\ pc' = IF api.spec.ext THEN "external" ELSE "secret"
<1> DEFINE finalizer == ~api.deleting /\ ~api.fin
<1> api \in API /\ finalizer \in BOOLEAN
  BY DEF TypeOK
<1>1. /\ Copy \in Instance /\ Copy.spec = api.spec /\ Copy.fin = api.fin
      /\ Copy.deleting = api.deleting /\ Copy.tsec = api.tsec /\ Copy.sync = api.sync
      /\ Copy.ready = FALSE /\ Copy.live = FALSE /\ Copy.cur = 0
  BY CopyEffect
<1>2. CASE (finalizer \/ ~api.init) /\ inst' = [Copy EXCEPT !.fin = @ \/ finalizer] /\ pc' = "patch"
  <2>1. /\ inst' \in Instance /\ inst'.fin = (api.fin \/ finalizer) /\ inst'.spec = Copy.spec
        /\ inst'.deleting = Copy.deleting
        /\ SameSecrets(Copy, inst') /\ SameJobs(Copy, inst') /\ SameResult(Copy, inst')
    <3> HIDE DEF finalizer
    <3> QED BY <1>1, <1>2 DEF Instance, SameSecrets, SameJobs, SameResult
  <2> QED BY <1>1, <1>2, <2>1 DEF SameSecrets, SameJobs, SameResult
<1>3. CASE api.init /\ api.deleting /\ api.spec.ext /\ inst' = [Copy EXCEPT !.fin = FALSE] /\ pc' = "patch"
  <2>1. /\ inst' \in Instance /\ inst'.fin = FALSE /\ inst'.spec = Copy.spec
        /\ inst'.deleting = Copy.deleting
        /\ SameSecrets(Copy, inst') /\ SameJobs(Copy, inst') /\ SameResult(Copy, inst')
    BY <1>1, <1>3 DEF Instance, SameSecrets, SameJobs, SameResult
  <2> QED BY <1>1, <1>3, <2>1 DEF SameSecrets, SameJobs, SameResult
<1>4. CASE /\ api.init /\ api.deleting /\ ~api.spec.ext
           /\ inst' = Copy /\ pc' = "unhold_memcached"
  BY <1>1, <1>4
<1>5. CASE /\ api.init /\ ~finalizer /\ ~api.deleting
           /\ inst' = Copy /\ pc' = IF api.spec.ext THEN "external" ELSE "secret"
  BY <1>1, <1>5
<1> QED BY <1>2, <1>3, <1>4, <1>5 DEF Reconcile

\* TransportURL either waits for the Secret or notes it as the current one.
LEMMA TransportEffect ==
  ASSUME TypeOK, TransportURL
  PROVE  /\ inst' \in Instance
         /\ SameObject(inst, inst') /\ SameJobs(inst, inst') /\ SameResult(inst, inst')
         /\ \/ turl.sec = 0 /\ pc' = "patch" /\ SameSecrets(inst, inst')
            \/ /\ turl.sec # 0 /\ pc' = "hold" /\ inst'.cur = turl.sec
               /\ inst'.tsec = IF inst.tsec = 0 THEN turl.sec ELSE inst.tsec
<1> inst \in Instance /\ turl.sec \in Secret
  BY DEF TypeOK
<1>1. CASE turl.sec = 0
  BY <1>1 DEF TransportURL, Return, SameObject, SameJobs, SameResult, SameSecrets
<1>2. CASE turl.sec # 0
  <2>1. /\ inst' = [inst EXCEPT !.cur = turl.sec, !.tsec = IF @ = 0 THEN turl.sec ELSE @]
        /\ pc' = "hold"
    BY <1>2 DEF TransportURL, Goto
  <2> QED BY <1>2, <2>1 DEF Instance, SameObject, SameSecrets, SameJobs, SameResult
<1> QED BY <1>1, <1>2

\* The configuration is rendered from the current Secret and account, and its hash noted.
LEMMA ConfigEffect ==
  ASSUME TypeOK, GenerateServiceConfigMaps
  PROVE  /\ cfg' = [sec |-> inst.cur, acct |-> inst.spec.acct, url |-> inst.url] /\ cfg' \in Config
         /\ inst' \in Instance /\ inst'.hash.cfg = cfg'
         /\ SameObject(inst, inst') /\ SameSecrets(inst, inst') /\ SameJobs(inst, inst')
         /\ inst'.ready = inst.ready /\ inst'.live = inst.live /\ pc' = "fernet"
<1> inst \in Instance
  BY DEF TypeOK
<1>1. cfg' = [sec |-> inst.cur, acct |-> inst.spec.acct, url |-> inst.url] /\ cfg' \in Config
  BY DEF GenerateServiceConfigMaps, Instance, Spec_, Config
<1>2. inst' = [inst EXCEPT !.hash = [cfg |-> cfg', fernet |-> FALSE]] /\ pc' = "fernet"
  BY DEF GenerateServiceConfigMaps, GotoWoken
<1> QED BY <1>1, <1>2 DEF Instance, Hash, SameObject, SameSecrets, SameJobs

\* ensureFernetKeys adds to the hash and to nothing else in memory.
LEMMA FernetEffect ==
  ASSUME TypeOK, EnsureFernetKeys
  PROVE  /\ inst' \in Instance /\ inst'.hash.cfg = inst.hash.cfg
         /\ SameObject(inst, inst') /\ SameSecrets(inst, inst') /\ SameJobs(inst, inst')
         /\ inst'.ready = inst.ready /\ inst'.live = inst.live /\ pc' = "verify"
<1> DEFINE new == ~fernet
<1> inst \in Instance /\ new \in BOOLEAN
  BY DEF TypeOK
<1>1. inst' = [inst EXCEPT !.hash.fernet = new] /\ pc' = "verify"
  BY DEF EnsureFernetKeys, GotoWoken
<1> HIDE DEF new
<1> QED BY <1>1 DEF Instance, Hash, SameObject, SameSecrets, SameJobs

\* A job is skipped, collected when it has finished for the same definition, or
\* (re)started and waited for; only the second changes what the reconcile knows.
LEMMA DoJobEffect ==
  ASSUME TypeOK, NEW kind \in {"sync", "boot"}, NEW def \in JobDef, NEW before, NEW done,
         NEW next, DoJob(kind, def, before, done, next)
  PROVE  /\ job' \in [{"sync", "boot"} -> Job]
         /\ \A k \in {"sync", "boot"} : job'[k].done => job'[k] = job[k]
         /\ \/ pc' = next /\ def = before /\ inst' = inst
            \/ pc' = next /\ inst' = done /\ job[kind].done /\ job[kind].def = def
            \/ pc' = "patch" /\ inst' = inst
         /\ queued' \in BOOLEAN
<1> job \in [{"sync", "boot"} -> Job] /\ queued \in BOOLEAN
  BY DEF TypeOK
<1> NoJob \in Job /\ NoJob.done = FALSE
  BY ObjectTypes DEF NoJob
<1>1. CASE JobSkipped(def, before) /\ Goto(next) /\ UNCHANGED <<job, inst>>
  BY <1>1 DEF JobSkipped, Goto
<1>2. CASE /\ JobFinished(kind, def, before)
           /\ job' = [job EXCEPT ![kind] = NoJob] /\ inst' = done /\ GotoWoken(next, TRUE)
  BY <1>2 DEF JobFinished, GotoWoken
<1>3. CASE /\ JobStarted(kind, def, before)
           /\ job' = [job EXCEPT ![kind] = [def |-> def, done |-> FALSE]] /\ UNCHANGED inst
           /\ Return(TRUE)
  <2>1. [def |-> def, done |-> FALSE] \in Job
    BY DEF Job
  <2> QED BY <1>3, <2>1 DEF Return
<1>4. CASE JobRunning(kind, def, before) /\ Return(TRUE) /\ UNCHANGED <<job, inst>>
  BY <1>4 DEF Return
<1> QED BY <1>1, <1>2, <1>3, <1>4 DEF DoJob

\* A reconcile passes the db sync only with the job's current definition noted as done.
LEMMA DbSyncEffect ==
  ASSUME TypeOK, DbSync
  PROVE  /\ inst' \in Instance /\ job' \in [{"sync", "boot"} -> Job] /\ queued' \in BOOLEAN
         /\ \A k \in {"sync", "boot"} : job'[k].done => job'[k] = job[k]
         /\ SameObject(inst, inst') /\ SameSecrets(inst, inst') /\ SameResult(inst, inst')
         /\ inst'.url = inst.url /\ inst'.boot = inst.boot
         /\ \/ pc' = "patch" /\ inst'.sync = inst.sync
            \/ /\ pc' = "services" /\ inst'.sync = SyncDef(inst)
               /\ \/ inst.sync = SyncDef(inst)
                  \/ job["sync"].done /\ job["sync"].def = SyncDef(inst)
<1> inst \in Instance
  BY DEF TypeOK
<1>1. SyncDef(inst) \in JobDef
  BY ObjectTypes DEF SyncDef, JobDef, Instance, Spec_
<1>2. DoJob("sync", SyncDef(inst), inst.sync, [inst EXCEPT !.sync = SyncDef(inst)], "services")
  BY DEF DbSync
<1>3. /\ job' \in [{"sync", "boot"} -> Job] /\ queued' \in BOOLEAN
      /\ \A k \in {"sync", "boot"} : job'[k].done => job'[k] = job[k]
      /\ \/ pc' = "services" /\ SyncDef(inst) = inst.sync /\ inst' = inst
         \/ /\ pc' = "services" /\ inst' = [inst EXCEPT !.sync = SyncDef(inst)]
            /\ job["sync"].done /\ job["sync"].def = SyncDef(inst)
         \/ pc' = "patch" /\ inst' = inst
  BY <1>1, <1>2, DoJobEffect
<1>4. CASE inst' = inst /\ ((pc' = "services" /\ SyncDef(inst) = inst.sync) \/ pc' = "patch")
  BY <1>3, <1>4 DEF SameObject, SameSecrets, SameResult
<1>5. CASE /\ inst' = [inst EXCEPT !.sync = SyncDef(inst)] /\ pc' = "services"
           /\ job["sync"].done /\ job["sync"].def = SyncDef(inst)
  <2>1. /\ inst' \in Instance /\ inst'.sync = SyncDef(inst) /\ inst'.url = inst.url
        /\ inst'.boot = inst.boot
        /\ SameObject(inst, inst') /\ SameSecrets(inst, inst') /\ SameResult(inst, inst')
    BY <1>1, <1>5 DEF Instance, SameObject, SameSecrets, SameResult
  <2> QED BY <1>3, <1>5, <2>1
<1> QED BY <1>3, <1>4, <1>5

\* A reconcile passes the bootstrap only with the job's current definition noted as done.
LEMMA BootstrapEffect ==
  ASSUME TypeOK, Bootstrap
  PROVE  /\ inst' \in Instance /\ job' \in [{"sync", "boot"} -> Job] /\ queued' \in BOOLEAN
         /\ \A k \in {"sync", "boot"} : job'[k].done => job'[k] = job[k]
         /\ SameObject(inst, inst') /\ SameSecrets(inst, inst') /\ SameResult(inst, inst')
         /\ inst'.url = inst.url /\ inst'.sync = inst.sync
         /\ \/ pc' = "patch" /\ inst'.boot = inst.boot
            \/ pc' = "deploy" /\ inst'.boot = BootDef(inst)
<1> inst \in Instance
  BY DEF TypeOK
<1>1. BootDef(inst) \in JobDef
  BY DEF BootDef, JobDef, Instance, Spec_
<1>2. DoJob("boot", BootDef(inst), inst.boot, [inst EXCEPT !.boot = BootDef(inst)], "deploy")
  BY DEF Bootstrap
<1>3. /\ job' \in [{"sync", "boot"} -> Job] /\ queued' \in BOOLEAN
      /\ \A k \in {"sync", "boot"} : job'[k].done => job'[k] = job[k]
      /\ \/ pc' = "deploy" /\ BootDef(inst) = inst.boot /\ inst' = inst
         \/ pc' = "deploy" /\ inst' = [inst EXCEPT !.boot = BootDef(inst)]
         \/ pc' = "patch" /\ inst' = inst
  BY <1>1, <1>2, DoJobEffect
<1>4. CASE inst' = inst /\ ((pc' = "deploy" /\ BootDef(inst) = inst.boot) \/ pc' = "patch")
  BY <1>3, <1>4 DEF SameObject, SameSecrets, SameResult
<1>5. CASE inst' = [inst EXCEPT !.boot = BootDef(inst)] /\ pc' = "deploy"
  <2>1. /\ inst' \in Instance /\ inst'.boot = BootDef(inst) /\ inst'.url = inst.url
        /\ inst'.sync = inst.sync
        /\ SameObject(inst, inst') /\ SameSecrets(inst, inst') /\ SameResult(inst, inst')
    BY <1>1, <1>5 DEF Instance, SameObject, SameSecrets, SameResult
  <2> QED BY <1>3, <1>5, <2>1
<1> QED BY <1>3, <1>4, <1>5

\* The exposed Services change the endpoint URLs in memory and nothing else.
LEMMA ServicesEffect ==
  ASSUME TypeOK, CreateServices
  PROVE  /\ inst' \in Instance /\ inst'.sync = inst.sync /\ inst'.boot = inst.boot
         /\ SameObject(inst, inst') /\ SameSecrets(inst, inst') /\ SameResult(inst, inst')
         /\ pc' = "bootstrap"
<1> inst \in Instance
  BY DEF TypeOK
<1>1. inst.spec.url \in Version
  BY DEF Instance, Spec_
<1>2. inst' = [inst EXCEPT !.url = inst.spec.url] /\ pc' = "bootstrap"
  BY DEF CreateServices, Goto
<1> QED BY <1>1, <1>2 DEF Instance, SameObject, SameSecrets, SameResult

\* The Deployment gets the template of the KeystoneAPI in memory.
LEMMA DeployEffect ==
  ASSUME TypeOK, Deploy
  PROVE  /\ inst' \in Instance
         /\ SameObject(inst, inst') /\ SameSecrets(inst, inst') /\ SameJobs(inst, inst')
         /\ SameResult(inst, inst')
         /\ depl' \in [tmpl: Template, observed: BOOLEAN] /\ depl'.tmpl = Deployment(inst)
         /\ pc' = "ready"
<1> DEFINE observed == depl.observed /\ depl.tmpl = Deployment(inst)
           count == IF observed THEN Cardinality(Running) ELSE inst.rc
           all == observed /\ Running = Pods
<1> inst \in Instance
  BY DEF TypeOK
<1>1. Deployment(inst) \in Template
  BY DEF Deployment, Template, Instance, Spec_
<1>2. Cardinality(Running) \in 0..Cardinality(Pods)
  <2>1. Running \subseteq Pods
    BY DEF Running
  <2>2. Cardinality(Running) \in Nat /\ Cardinality(Running) <= Cardinality(Pods)
    BY <2>1, ConstantsAssumption, FS_Subset, FS_CardinalityType
  <2> QED BY <2>2, PodsCount
<1>3. count \in 0..Cardinality(Pods)
  BY <1>2 DEF Instance
<1>4. all \in BOOLEAN
  OBVIOUS
<1>5. /\ depl' = [tmpl |-> Deployment(inst), observed |-> observed] /\ pc' = "ready"
      /\ inst' = [inst EXCEPT !.rc = count, !.dep = all]
  BY DEF Deploy, GotoWoken
<1>6. /\ inst' \in Instance /\ SameObject(inst, inst') /\ SameSecrets(inst, inst')
      /\ SameJobs(inst, inst') /\ SameResult(inst, inst')
  <2> HIDE DEF observed, count, all
  <2> QED BY <1>3, <1>4, <1>5 DEF Instance, SameObject, SameSecrets, SameJobs, SameResult
<1>7. depl' \in [tmpl: Template, observed: BOOLEAN] /\ depl'.tmpl = Deployment(inst)
  BY <1>1, <1>5
<1> QED BY <1>5, <1>6, <1>7

\* The Deployment counts as ready only when its replicas are ready for input.
LEMMA ReadyEffect ==
  ASSUME TypeOK, DeploymentReady
  PROVE  /\ inst' \in Instance
         /\ SameObject(inst, inst') /\ SameSecrets(inst, inst') /\ SameJobs(inst, inst')
         /\ inst'.hash = inst.hash /\ inst'.ready = inst.ready
         /\ inst'.live => IsReadyForInput(inst.hash)
         /\ pc' = "accounts"
<1> DEFINE live == inst.dep /\ IsReadyForInput(inst.hash)
<1> inst \in Instance /\ live \in BOOLEAN
  BY DEF TypeOK
<1>1. inst' = [inst EXCEPT !.live = live] /\ pc' = "accounts" /\ (live => IsReadyForInput(inst.hash))
  BY DEF DeploymentReady, Goto
<1> HIDE DEF live
<1> QED BY <1>1 DEF Instance, SameObject, SameSecrets, SameJobs

\* The KeystoneAPI is ready in memory from the cron job on, if its Deployment was.
LEMMA CronEffect ==
  ASSUME TypeOK, CreateCronJob
  PROVE  /\ inst' \in Instance
         /\ SameObject(inst, inst') /\ SameSecrets(inst, inst') /\ SameJobs(inst, inst')
         /\ inst'.hash = inst.hash /\ inst'.live = inst.live /\ inst'.ready = inst.live
         /\ pc' = "cloud"
<1> inst \in Instance /\ inst.live \in BOOLEAN
  BY DEF TypeOK, Instance
<1>1. inst' = [inst EXCEPT !.ready = inst.live] /\ pc' = "cloud"
  BY DEF CreateCronJob, GotoWoken
<1> QED BY <1>1 DEF Instance, SameObject, SameSecrets, SameJobs

\* An old transport Secret is let go of only by a KeystoneAPI that is ready or does not
\* use another one.
LEMMA FinalizeEffect ==
  ASSUME TypeOK, FinalizeSecretRotation
  PROVE  /\ inst' \in Instance
         /\ SameObject(inst, inst') /\ SameJobs(inst, inst') /\ SameResult(inst, inst')
         /\ inst'.cur = inst.cur
         /\ \/ inst'.tsec = inst.tsec /\ held' = held
            \/ /\ inst.tsec = inst.cur \/ inst.ready
               /\ inst'.tsec = inst.cur /\ held' = held \ ({inst.tsec} \ {inst.cur})
         /\ pc' = "prune"
<1> inst \in Instance /\ inst.cur \in Secret
  BY DEF TypeOK, Instance
<1>1. CASE inst.tsec = inst.cur \/ inst.ready
  <2>1. inst' = [inst EXCEPT !.tsec = inst.cur]
    BY <1>1 DEF FinalizeSecretRotation
  <2>2. held' = held \ ({inst.tsec} \ {inst.cur}) /\ pc' = "prune"
    BY <1>1 DEF FinalizeSecretRotation, Goto
  <2> QED BY <1>1, <2>1, <2>2 DEF Instance, SameObject, SameJobs, SameResult
<1>2. CASE ~(inst.tsec = inst.cur \/ inst.ready)
  BY <1>2 DEF FinalizeSecretRotation, Goto, SameObject, SameJobs, SameResult
<1> QED BY <1>1, <1>2

\* reconcileExternalKeystoneAPI leaves secrets, jobs and deployment in memory alone.
LEMMA ExternalEffect ==
  ASSUME TypeOK, ReconcileExternal
  PROVE  /\ inst' \in Instance /\ SameObject(inst, inst') /\ SameSecrets(inst, inst')
         /\ inst'.sync = inst.sync /\ inst'.boot = inst.boot
         /\ inst'.hash = inst.hash /\ inst'.live = inst.live
         /\ pc' \in {"patch", "cloud"}
<1> DEFINE given == [inst EXCEPT !.url = inst.spec.url, !.rc = 0]
<1> inst \in Instance /\ inst.spec.url \in Version
  BY DEF TypeOK, Instance, Spec_
<1>1. CASE inst' = inst
  BY <1>1 DEF ReconcileExternal, Return, Goto, SameObject, SameSecrets
<1>2. /\ given \in Instance /\ given.sync = inst.sync /\ given.boot = inst.boot
      /\ SameObject(inst, given) /\ SameSecrets(inst, given) /\ SameResult(inst, given)
  BY PodsCount DEF Instance, SameObject, SameSecrets, SameResult
<1> HIDE DEF given
<1>3. CASE inst' = given
  BY <1>2, <1>3 DEF ReconcileExternal, Return, Goto, SameResult
<1>4. CASE inst' = [given EXCEPT !.ready = TRUE]
  <2>1. /\ inst' \in Instance /\ inst'.ready = TRUE /\ inst'.live = given.live
        /\ inst'.hash = given.hash
        /\ SameObject(given, inst') /\ SameSecrets(given, inst') /\ SameJobs(given, inst')
    BY <1>2, <1>4 DEF Instance, SameObject, SameSecrets, SameJobs
  <2>2. pc' \in {"patch", "cloud"}
    BY DEF ReconcileExternal, Return, Goto
  <2> QED BY <1>2, <2>1, <2>2 DEF SameObject, SameSecrets, SameJobs, SameResult
<1> QED BY <1>1, <1>3, <1>4 DEF ReconcileExternal, given

\* The last step of the deletion takes the finalizer off in memory.
LEMMA ReleaseNewEffect ==
  ASSUME TypeOK, ReleaseNewSecret
  PROVE  /\ inst' \in Instance /\ inst'.fin = FALSE /\ inst'.spec = inst.spec
         /\ inst'.deleting = inst.deleting /\ pc' = "patch"
         /\ SameSecrets(inst, inst') /\ SameJobs(inst, inst') /\ SameResult(inst, inst')
<1> inst \in Instance
  BY DEF TypeOK
<1>1. inst' = [inst EXCEPT !.fin = FALSE] /\ pc' = "patch"
  BY DEF ReleaseNewSecret, Return
<1> QED BY <1>1 DEF Instance, SameSecrets, SameJobs, SameResult

\* An edit changes the spec only: the image is always given, and without a return
\* to earlier values the number of the account does not fall.
LEMMA EditEffect ==
  ASSUME TypeOK, EditSpec
  PROVE  /\ api' \in API /\ api' = [api EXCEPT !.spec = api'.spec]
         /\ ~api.deleting /\ ~api.gone
         /\ api.spec.img # 0 => api'.spec.img # 0
         /\ ~Revert => api.spec.acct <= api'.spec.acct
<1> api \in API /\ api.spec \in Spec_
  BY DEF TypeOK, API
<1>1. PICK s \in Edited(api.spec) : api' = [api EXCEPT !.spec = s]
  BY SMTT(30) DEF EditSpec
<1>2. /\ s \in Spec_ /\ (api.spec.img # 0 => s.img # 0)
      /\ ~Revert => api.spec.acct <= s.acct
  <2>1. ASSUME NEW v \in Version, NEW w \in NextVersions(v)
        PROVE  w \in Version /\ w # 0 /\ (~Revert => v <= w)
    BY <2>1, ConstantsAssumption DEF NextVersions, Version
  <2>2. /\ api.spec.acct \in Version /\ api.spec.img \in Version /\ api.spec.url \in Version
    BY DEF Spec_
  <2>3. ASSUME NEW w \in NextVersions(api.spec.acct), s = [api.spec EXCEPT !.acct = w]
        PROVE  s \in Spec_ /\ s.img = api.spec.img /\ s.acct = w
    BY <2>1, <2>2, <2>3 DEF Spec_
  <2>4. ASSUME NEW w \in NextVersions(api.spec.img), s = [api.spec EXCEPT !.img = w]
        PROVE  s \in Spec_ /\ s.img = w /\ s.acct = api.spec.acct
    BY <2>1, <2>2, <2>4 DEF Spec_
  <2>5. ASSUME NEW w \in NextVersions(api.spec.url), s = [api.spec EXCEPT !.url = w]
        PROVE  s \in Spec_ /\ s.img = api.spec.img /\ s.acct = api.spec.acct
    BY <2>1, <2>2, <2>5 DEF Spec_
  <2>6. ASSUME NEW o \in SUBSET Endpoint, s = [api.spec EXCEPT !.ext = ~@, !.over = o]
        PROVE  s \in Spec_ /\ s.img = api.spec.img /\ s.acct = api.spec.acct
    BY <2>6 DEF Spec_
  <2>7. \/ \E w \in NextVersions(api.spec.acct) : s = [api.spec EXCEPT !.acct = w]
        \/ \E w \in NextVersions(api.spec.img) : s = [api.spec EXCEPT !.img = w]
        \/ \E w \in NextVersions(api.spec.url) : s = [api.spec EXCEPT !.url = w]
        \/ \E o \in SUBSET Endpoint : s = [api.spec EXCEPT !.ext = ~@, !.over = o]
    BY DEF Edited, Spec_
  <2>8. \A v \in Version : v <= v
    BY ConstantsAssumption DEF Version
  <2> QED BY <2>1, <2>2, <2>3, <2>4, <2>5, <2>6, <2>7, <2>8
<1>3. api' \in API /\ api'.spec = s
  BY <1>1, <1>2 DEF API
<1> QED BY <1>1, <1>2, <1>3 DEF EditSpec

\* A deletion only marks the object, which is gone at once without the finalizer.
LEMMA DeleteEffect ==
  ASSUME TypeOK, DeleteAPI
  PROVE  /\ api' \in API /\ api'.deleting = TRUE /\ api'.gone = ~api.fin
         /\ api'.spec = api.spec /\ api'.fin = api.fin /\ api'.init = api.init
         /\ api'.tsec = api.tsec /\ api'.sync = api.sync
         /\ ~api.deleting /\ ~api.gone
<1> DEFINE none == ~api.fin
<1> api \in API /\ none \in BOOLEAN
  BY DEF TypeOK
<1>1. api' = [api EXCEPT !.deleting = TRUE, !.gone = none] /\ ~api.deleting /\ ~api.gone
  BY DEF DeleteAPI
<1>2. /\ api' \in API /\ api'.deleting = TRUE /\ api'.gone = none
      /\ api'.spec = api.spec /\ api'.fin = api.fin /\ api'.init = api.init
      /\ api'.tsec = api.tsec /\ api'.sync = api.sync
  <2> HIDE DEF none
  <2> QED BY <1>1 DEF API
<1> QED BY <1>1, <1>2

\* The patch writes the KeystoneAPI unless it is gone already, and forgets.
LEMMA PatchEffect ==
  ASSUME TypeOK, Patch
  PROVE  /\ api' \in API /\ pc' = "idle" /\ inst' = NoInst /\ inst' \in Instance
         /\ api'.spec = api.spec /\ api'.deleting = api.deleting
         /\ \/ api.gone /\ api' = api
            \/ /\ ~api.gone /\ api'.fin = inst.fin /\ api'.init = TRUE
               /\ api'.tsec = inst.tsec /\ api'.sync = inst.sync
               /\ api'.gone = (api.deleting /\ ~inst.fin)
         /\ pods' \in [Pods -> Pod]
         /\ pods' = pods \/ (api'.gone /\ pods' = [p \in Pods |-> NoPod])
         /\ cron' = cron \/ cron' = 0
<1> api \in API /\ inst \in Instance /\ pods \in [Pods -> Pod]
  BY DEF TypeOK
<1>1. /\ pc' = "idle" /\ inst' = NoInst /\ api' = (IF api.gone THEN api ELSE Patched)
      /\ pods' = (IF api'.gone THEN [p \in Pods |-> NoPod] ELSE pods)
      /\ cron' = (IF api'.gone THEN 0 ELSE cron)
  BY DEF Patch
<1>2. /\ api' \in API /\ api'.spec = api.spec /\ api'.deleting = api.deleting
      /\ \/ api.gone /\ api' = api
         \/ /\ ~api.gone /\ api'.fin = inst.fin /\ api'.init = TRUE
            /\ api'.tsec = inst.tsec /\ api'.sync = inst.sync
            /\ api'.gone = (api.deleting /\ ~inst.fin)
  BY <1>1, PatchedEffect
<1> QED BY <1>1, <1>2, ObjectTypes

----------------------------------------------------------------------------
(* The type invariant *)

\* A new KeystoneAPI and a cluster without keystone satisfy the type invariant.
LEMMA TypeInit == Init => TypeOK
<1> SUFFICES ASSUME Init PROVE TypeOK
  OBVIOUS
<1>1. api \in API
  <2>1. PICK o \in SUBSET Endpoint, x \in BOOLEAN :
          api = [spec |-> [acct |-> 1, img |-> 1, url |-> 1, over |-> o, ext |-> x],
                 fin |-> FALSE, init |-> FALSE, deleting |-> FALSE, gone |-> FALSE,
                 ready |-> FALSE, tsec |-> 0, url |-> 0, rc |-> 0, sync |-> NoDef,
                 boot |-> NoDef]
    BY DEF Init
  <2>2. [acct |-> 1, img |-> 1, url |-> 1, over |-> o, ext |-> x] \in Spec_
    BY ObjectTypes DEF Spec_
  <2> QED BY <2>1, <2>2, ObjectTypes, PodsCount DEF API
<1>2. [k \in {"sync", "boot"} |-> NoJob] \in [{"sync", "boot"} -> Job]
  BY ObjectTypes
<1>3. [p \in Pods |-> NoPod] \in [Pods -> Pod]
  BY ObjectTypes
<1>4. depl \in [tmpl: Template, observed: BOOLEAN]
  BY ObjectTypes DEF Init
<1>5. 0 \in 0..MaxEdits /\ 0 \in 0..MaxFaults
  BY ConstantsAssumption
<1>6. /\ turl \in [ex: BOOLEAN, sec: Secret] /\ held \subseteq Secret /\ accHeld \subseteq Version
      /\ mcHeld \in BOOLEAN /\ dbHeld \in BOOLEAN /\ up \subseteq Inputs
  <2>1. turl = [ex |-> FALSE, sec |-> 0]
    BY DEF Init
  <2>2. turl \in [ex: BOOLEAN, sec: Secret]
    BY <2>1, ObjectTypes
  <2>3. held = {} /\ accHeld = {} /\ mcHeld = FALSE /\ dbHeld = FALSE
    BY DEF Init
  <2>4. up \in {Inputs, Inputs \ Flaky}
    BY DEF Init
  <2> QED BY <2>2, <2>3, <2>4
<1>7. /\ cfg \in Config /\ fernet \in BOOLEAN /\ synced \subseteq Version /\ booted \in Version
      /\ cron \in Version /\ cloud \in Version
      /\ pc \in Steps /\ inst \in Instance /\ queued \in BOOLEAN
  BY ObjectTypes DEF Init, Steps
<1>8. /\ job \in [{"sync", "boot"} -> Job] /\ pods \in [Pods -> Pod]
      /\ edits \in 0..MaxEdits /\ faults \in 0..MaxFaults
  BY <1>2, <1>3, <1>5 DEF Init
<1> QED BY <1>1, <1>4, <1>6, <1>7, <1>8 DEF TypeOK

\* Every step of the controller, the users, the jobs, the pods and the other
\* operators keeps the types.
LEMMA TypeStep == TypeOK /\ [Next]_vars => TypeOK'
<1> SUFFICES ASSUME TypeOK, [Next]_vars PROVE TypeOK'
  OBVIOUS
<1> USE DEF holdVars, cfgVars, jobVars, runVars, envVars, worldVars
<1>1. CASE Reconcile
  <2>1. inst' \in Instance /\ pc' \in Steps
    BY <1>1, ReconcileEffect DEF Steps
  <2> QED BY <1>1, <2>1 DEF Reconcile, TypeOK
<1>2. CASE Patch
  <2>1. /\ api' \in API /\ pods' \in [Pods -> Pod] /\ inst' \in Instance /\ pc' = "idle"
        /\ cron' = cron \/ cron' = 0
    BY <1>2, PatchEffect
  <2> QED BY <1>2, <2>1, ObjectTypes DEF Patch, TypeOK, Steps
<1>3. CASE VerifySecret \/ VerifyInputs
  BY <1>3 DEF VerifySecret, VerifyInputs, EnsureFederationRealmConfig, VerifyTLSInput,
              GetNADWithName, Goto, Return, TypeOK, Steps
<1>4. CASE EnsureDB
  <2>1. inst.spec.acct \in Version
    BY DEF TypeOK, Instance, Spec_
  <2> QED BY <1>4, <2>1 DEF EnsureDB, Goto, Return, TypeOK, Steps
<1>5. CASE TransportURL
  <2>1. inst' \in Instance /\ pc' \in Steps
    BY <1>5, TransportEffect DEF Steps
  <2>2. turl' \in [ex: BOOLEAN, sec: Secret]
    BY <1>5 DEF TransportURL, TypeOK
  <2> QED BY <1>5, <2>1, <2>2 DEF TransportURL, Goto, Return, TypeOK
<1>6. CASE HoldSecret
  <2>1. inst.cur \in Secret
    BY DEF TypeOK, Instance
  <2> QED BY <1>6, <2>1 DEF HoldSecret, Goto, TypeOK, Steps
<1>7. CASE Memcached
  BY <1>7 DEF Memcached, Goto, Return, TypeOK, Steps
<1>8. CASE GenerateServiceConfigMaps
  <2>1. cfg' \in Config /\ inst' \in Instance /\ pc' \in Steps
    BY <1>8, ConfigEffect DEF Steps
  <2> QED BY <1>8, <2>1 DEF GenerateServiceConfigMaps, GotoWoken, TypeOK
<1>9. CASE EnsureFernetKeys
  <2>1. inst' \in Instance /\ pc' \in Steps
    BY <1>9, FernetEffect DEF Steps
  <2> QED BY <1>9, <2>1 DEF EnsureFernetKeys, GotoWoken, TypeOK
<1>10. CASE DbSync
  <2>1. /\ inst' \in Instance /\ pc' \in Steps /\ queued' \in BOOLEAN
        /\ job' \in [{"sync", "boot"} -> Job]
    BY <1>10, DbSyncEffect DEF Steps
  <2> QED BY <1>10, <2>1 DEF DbSync, TypeOK
<1>11. CASE CreateServices
  <2>1. inst' \in Instance /\ pc' \in Steps
    BY <1>11, ServicesEffect DEF Steps
  <2> QED BY <1>11, <2>1 DEF CreateServices, Goto, TypeOK
<1>12. CASE Bootstrap
  <2>1. /\ inst' \in Instance /\ pc' \in Steps /\ queued' \in BOOLEAN
        /\ job' \in [{"sync", "boot"} -> Job]
    BY <1>12, BootstrapEffect DEF Steps
  <2> QED BY <1>12, <2>1 DEF Bootstrap, TypeOK
<1>13. CASE Deploy
  <2>1. inst' \in Instance /\ pc' \in Steps /\ depl' \in [tmpl: Template, observed: BOOLEAN]
    BY <1>13, DeployEffect DEF Steps
  <2>2. queued' \in BOOLEAN /\ UNCHANGED <<api, holdVars, cfgVars, jobVars, pods, cron, cloud, worldVars>>
    BY <1>13 DEF Deploy, GotoWoken, TypeOK
  <2> QED BY <2>1, <2>2 DEF TypeOK
<1>14. CASE DeploymentReady
  <2>1. inst' \in Instance /\ pc' \in Steps
    BY <1>14, ReadyEffect DEF Steps
  <2> QED BY <1>14, <2>1 DEF DeploymentReady, Goto, TypeOK
<1>15. CASE ReleaseAccounts
  BY <1>15 DEF ReleaseAccounts, Goto, TypeOK, Steps
<1>16. CASE CreateCronJob
  <2>1. inst' \in Instance /\ pc' \in Steps
    BY <1>16, CronEffect DEF Steps
  <2>2. inst.spec.img \in Version
    BY DEF TypeOK, Instance, Spec_
  <2> QED BY <1>16, <2>1, <2>2 DEF CreateCronJob, CronJob, GotoWoken, TypeOK
<1>17. CASE ReconcileCloudConfig
  <2>1. inst.url \in Version
    BY DEF TypeOK, Instance
  <2> QED BY <1>17, <2>1 DEF ReconcileCloudConfig, GotoWoken, Return, TypeOK, Steps
<1>18. CASE FinalizeSecretRotation
  <2>1. inst' \in Instance /\ pc' \in Steps /\ held' \subseteq held
    BY <1>18, FinalizeEffect DEF Steps
  <2> QED BY <1>18, <2>1 DEF FinalizeSecretRotation, Goto, TypeOK
<1>19. CASE PruneSecretConsumerFinalizers
  BY <1>19 DEF PruneSecretConsumerFinalizers, Return, TypeOK, Steps
<1>20. CASE ReconcileExternal
  <2>1. inst' \in Instance /\ pc' \in Steps
    BY <1>20, ExternalEffect DEF Steps
  <2>2. queued' \in BOOLEAN
    BY <1>20 DEF ReconcileExternal, Goto, Return, TypeOK
  <2> QED BY <1>20, <2>1, <2>2 DEF ReconcileExternal, TypeOK
<1>21. CASE ReleaseMemcached \/ ReleaseDB \/ ReleaseOldSecret
  BY <1>21 DEF ReleaseMemcached, ReleaseDB, ReleaseOldSecret, Goto, TypeOK, Steps
<1>22. CASE ReleaseNewSecret
  <2>1. inst' \in Instance /\ pc' \in Steps
    BY <1>22, ReleaseNewEffect DEF Steps
  <2> QED BY <1>22, <2>1 DEF ReleaseNewSecret, Return, TypeOK
<1>23. CASE CallFails \/ Crash
  <2>1. faults' \in 0..MaxFaults
    <3>1. faults < MaxFaults /\ faults' = faults + 1
      BY <1>23 DEF CallFails, Crash, Fault
    <3> QED BY <3>1, ConstantsAssumption DEF TypeOK
  <2> QED BY <1>23, <2>1, ObjectTypes DEF CallFails, Crash, Return, TypeOK, Steps
<1>24. CASE EditSpec
  <2>1. api' \in API
    BY <1>24, EditEffect
  <2>2. edits' \in 0..MaxEdits
    BY <1>24, ConstantsAssumption DEF EditSpec, TypeOK
  <2> QED BY <1>24, <2>1, <2>2 DEF EditSpec, TypeOK
<1>25. CASE DeleteAPI
  <2>1. api' \in API
    BY <1>25, DeleteEffect
  <2> QED BY <1>25, <2>1 DEF DeleteAPI, TypeOK
<1>26. CASE IssueSecret
  <2>1. turl.sec + 1 \in Secret
    BY <1>26, ConstantsAssumption DEF IssueSecret, TypeOK, Secret
  <2>2. turl' \in [ex: BOOLEAN, sec: Secret]
    BY <1>26, <2>1 DEF IssueSecret, TypeOK
  <2> QED BY <1>26, <2>2 DEF IssueSecret, TypeOK
<1>27. ASSUME NEW n \in Inputs, InputArrives(n) \/ InputVanishes(n) PROVE TypeOK'
  <2>1. faults' \in 0..MaxFaults
    BY <1>27, ConstantsAssumption DEF InputArrives, InputVanishes, Fault, TypeOK
  <2>2. up' \subseteq Inputs /\ queued' \in BOOLEAN
    BY <1>27 DEF InputArrives, InputVanishes, TypeOK
  <2> QED BY <1>27, <2>1, <2>2 DEF InputArrives, InputVanishes, TypeOK
<1>28. ASSUME NEW kind \in {"sync", "boot"}, JobFinishes(kind) PROVE TypeOK'
  <2>1. /\ job' \in [{"sync", "boot"} -> Job]
        /\ job[kind].def.img \in Version /\ job[kind].def.url \in Version
    BY <1>28 DEF JobFinishes, TypeOK, Job, JobDef
  <2> QED BY <1>28, <2>1 DEF JobFinishes, TypeOK
<1>29. CASE ObserveDeployment
  BY <1>29 DEF ObserveDeployment, TypeOK
<1>30. ASSUME NEW p \in Pods, ReplacePod(p) \/ RestartPod(p) PROVE TypeOK'
  <2>1. [tmpl |-> depl.tmpl, cfg |-> cfg] \in Pod /\ [pods[p] EXCEPT !.cfg = cfg] \in Pod
    BY DEF TypeOK, Pod
  <2>2. pods' \in [Pods -> Pod]
    BY <1>30, <2>1 DEF ReplacePod, RestartPod, TypeOK
  <2> QED BY <1>30, <2>2 DEF ReplacePod, RestartPod, TypeOK
<1>31. CASE UNCHANGED vars
  BY <1>31 DEF vars, TypeOK
<1> QED
  BY <1>1, <1>2, <1>3, <1>4, <1>5, <1>6, <1>7, <1>8, <1>9, <1>10, <1>11, <1>12, <1>13, <1>14,
     <1>15, <1>16, <1>17, <1>18, <1>19, <1>20, <1>21, <1>22, <1>23, <1>24, <1>25, <1>26, <1>27,
     <1>28, <1>29, <1>30, <1>31 DEF Next, Controller, Environment

\* Whatever is edited, rotated, lost or restarted, the KeystoneAPI, what the
\* controller deploys and what it keeps in memory have the shape the code gives them.
THEOREM TypeCorrect == Spec => []TypeOK
BY TypeInit, TypeStep, PTL DEF Spec

----------------------------------------------------------------------------
(* The flow of a reconcile *)

\* Steps of reconcileNormal: with a Secret to hold, with the config rendered, with
\* the Deployment applied.  The client config ("cloud") is written by a reconcile of
\* an external Keystone also.
Held == {"hold", "memcached", "config"}
Rendered == {"fernet", "verify", "dbsync", "services", "bootstrap", "deploy", "ready",
             "accounts", "cron", "finalize", "prune"}
Deployed == {"ready", "accounts", "cron", "finalize", "prune"}
Normal == {"secret", "db", "transport"} \cup Held \cup Rendered
Deletion == {"unhold_memcached", "unhold_db", "unhold_old", "unhold_new"}
InternalAt(S) == pc \in S \/ (pc = "cloud" /\ ~inst.spec.ext)

\* What the path a reconcile has taken says of the object it read: a deletion works
\* on the spec as it is, because in the model users edit none under deletion (EditSpec).
FlowInv ==
  /\ pc \in Normal => ~inst.spec.ext
  /\ pc \in Deletion => inst.deleting /\ ~inst.spec.ext
  /\ pc = "external" => inst.spec.ext
  /\ inst.deleting => api.deleting /\ inst.spec = api.spec

\* Steps that neither read nor write the KeystoneAPI, in memory or in the cluster.
Passing ==
  \/ VerifySecret \/ EnsureDB \/ HoldSecret \/ Memcached \/ VerifyInputs \/ ReleaseAccounts
  \/ ReconcileCloudConfig \/ PruneSecretConsumerFinalizers
  \/ ReleaseMemcached \/ ReleaseDB \/ ReleaseOldSecret \/ CallFails
\* Steps in which only the world around the KeystoneAPI moves.
World ==
  \/ IssueSecret
  \/ \E n \in Inputs : InputArrives(n) \/ InputVanishes(n)
  \/ \E kind \in {"sync", "boot"} : JobFinishes(kind)
  \/ ObserveDeployment
  \/ \E p \in Pods : ReplacePod(p) \/ RestartPod(p)
  \/ UNCHANGED vars
\* Steps that note a result in the KeystoneAPI in memory.
Noting ==
  \/ TransportURL \/ GenerateServiceConfigMaps \/ EnsureFernetKeys \/ DbSync \/ CreateServices
  \/ Bootstrap \/ Deploy \/ DeploymentReady \/ CreateCronJob \/ FinalizeSecretRotation
  \/ ReconcileExternal

\* Every step is one of those that the invariants tell apart.
LEMMA Kinds ==
  [Next]_vars => \/ Reconcile \/ Patch \/ Crash \/ ReleaseNewSecret \/ EditSpec \/ DeleteAPI
                 \/ Passing \/ Noting \/ World
BY DEF Next, Controller, Environment, Passing, Noting, World

\* What the steps of a kind have in common.
LEMMA PassingEffect ==
  ASSUME Passing
  PROVE  UNCHANGED <<api, inst, turl, cfg, job, synced, depl, pods, cron>> /\ pc # "idle"
BY DEF Passing, VerifySecret, EnsureDB, HoldSecret, Memcached, VerifyInputs, ReleaseAccounts,
       ReconcileCloudConfig, PruneSecretConsumerFinalizers, ReleaseMemcached, ReleaseDB,
       ReleaseOldSecret, CallFails, cfgVars, jobVars, runVars, envVars, worldVars

\* Where such a step leads.
LEMMA PassingFlow ==
  ASSUME Passing
  PROVE  \/ pc' = "patch"
         \/ pc = "secret" /\ pc' = "db"
         \/ pc = "db" /\ pc' = "transport"
         \/ pc = "hold" /\ pc' = "memcached" /\ HoldSecret
         \/ pc = "memcached" /\ pc' = "config"
         \/ pc = "verify" /\ pc' = "dbsync"
         \/ pc = "accounts" /\ pc' = "cron"
         \/ pc = "cloud" /\ pc' = "finalize" /\ ~inst.spec.ext
         \/ pc = "unhold_memcached" /\ pc' = "unhold_db" /\ ReleaseMemcached
         \/ pc = "unhold_db" /\ pc' = "unhold_old" /\ ReleaseDB
         \/ pc = "unhold_old" /\ pc' = "unhold_new" /\ ReleaseOldSecret
<1> USE DEF Goto, GotoWoken, Return
<1>1. VerifySecret => pc' = "patch" \/ (pc = "secret" /\ pc' = "db")
  BY DEF VerifySecret
<1>2. EnsureDB => pc' = "patch" \/ (pc = "db" /\ pc' = "transport")
  BY DEF EnsureDB
<1>3. HoldSecret => pc = "hold" /\ pc' = "memcached"
  BY DEF HoldSecret
<1>4. Memcached => pc' = "patch" \/ (pc = "memcached" /\ pc' = "config")
  BY DEF Memcached
<1>5. VerifyInputs => pc' = "patch" \/ (pc = "verify" /\ pc' = "dbsync")
  BY DEF VerifyInputs
<1>6. ReleaseAccounts => pc = "accounts" /\ pc' = "cron"
  BY DEF ReleaseAccounts
<1>7. ReconcileCloudConfig => pc' = "patch" \/ (pc = "cloud" /\ pc' = "finalize" /\ ~inst.spec.ext)
  BY DEF ReconcileCloudConfig
<1>8. PruneSecretConsumerFinalizers \/ CallFails => pc' = "patch"
  BY DEF PruneSecretConsumerFinalizers, CallFails
<1>9. ReleaseMemcached => pc = "unhold_memcached" /\ pc' = "unhold_db"
  BY DEF ReleaseMemcached
<1>10. ReleaseDB => pc = "unhold_db" /\ pc' = "unhold_old"
  BY DEF ReleaseDB
<1>11. ReleaseOldSecret => pc = "unhold_old" /\ pc' = "unhold_new"
  BY DEF ReleaseOldSecret
<1> QED BY <1>1, <1>2, <1>3, <1>4, <1>5, <1>6, <1>7, <1>8, <1>9, <1>10, <1>11 DEF Passing

\* Jobs, rollout, pods and the infra operator leave KeystoneAPI, finalizers and reconcile alone.
LEMMA WorldEffect ==
  ASSUME World
  PROVE  UNCHANGED <<api, inst, pc, held, accHeld, mcHeld, dbHeld, cfg, cron>>
BY DEF World, IssueSecret, InputArrives, InputVanishes, JobFinishes, ObserveDeployment,
       ReplacePod, RestartPod, vars, holdVars, cfgVars, runVars

\* The steps that note something about the KeystoneAPI change the object in memory only.
LEMMA NotingEffect ==
  ASSUME TypeOK, Noting
  PROVE  /\ UNCHANGED <<api, accHeld, mcHeld, dbHeld, synced, pods>> /\ pc # "idle"
         /\ SameObject(inst, inst')
<1>1. UNCHANGED <<api, accHeld, mcHeld, dbHeld, synced, pods>> /\ pc # "idle"
  BY DEF Noting, TransportURL, GenerateServiceConfigMaps, EnsureFernetKeys, DbSync, CreateServices,
         Bootstrap, Deploy, DeploymentReady, CreateCronJob, FinalizeSecretRotation,
         ReconcileExternal, holdVars, jobVars, runVars
<1>2. SameObject(inst, inst')
  BY TransportEffect, ConfigEffect, FernetEffect, DbSyncEffect, ServicesEffect, BootstrapEffect,
     DeployEffect, ReadyEffect, CronEffect, FinalizeEffect, ExternalEffect DEF Noting
<1> QED BY <1>1, <1>2

\* Nothing is known when no reconcile runs.
LEMMA NoInstFields ==
  /\ NoInst.deleting = FALSE /\ NoInst.ready = FALSE /\ NoInst.live = FALSE
  /\ NoInst.sync.img = 0 /\ NoInst.cur = 0
BY DEF NoInst, NoDef

\* Every step keeps what a reconcile knows from the branches it has taken.
LEMMA FlowStep == TypeOK /\ FlowInv /\ [Next]_vars => FlowInv'
<1> SUFFICES ASSUME TypeOK, FlowInv, [Next]_vars PROVE FlowInv'
  OBVIOUS
<1> USE DEF FlowInv, Normal, Held, Rendered, Deletion
<1>1. CASE Reconcile
  <2>1. UNCHANGED api
    BY <1>1 DEF Reconcile
  <2> QED BY <1>1, <2>1, ReconcileEffect
<1>2. CASE Patch
  BY <1>2, PatchEffect, NoInstFields
<1>3. CASE Crash
  BY <1>3, NoInstFields DEF Crash
<1>4. CASE ReleaseNewSecret
  <2>1. UNCHANGED api
    BY <1>4 DEF ReleaseNewSecret
  <2> QED BY <1>4, <2>1, ReleaseNewEffect
<1>5. CASE EditSpec
  <2>1. UNCHANGED <<pc, inst>> /\ ~api.deleting
    BY <1>5 DEF EditSpec
  <2> QED BY <2>1
<1>6. CASE DeleteAPI
  <2>1. UNCHANGED <<pc, inst>>
    BY <1>6 DEF DeleteAPI
  <2> QED BY <1>6, <2>1, DeleteEffect
<1>7. CASE Passing
  <2>1. UNCHANGED <<api, inst>>
    BY <1>7, PassingEffect
  <2> QED
    BY <1>7, <2>1, PassingFlow
<1>8. CASE Noting
  <2>1. UNCHANGED api /\ inst'.spec = inst.spec /\ inst'.deleting = inst.deleting
    BY <1>8, NotingEffect DEF SameObject
  <2>2. /\ pc \in Normal => pc' \in Normal \cup {"cloud", "patch"}
        /\ pc = "external" => pc' \in {"cloud", "patch"}
        /\ pc \in Normal \/ pc = "external"
    BY <1>8, TransportEffect, ConfigEffect, FernetEffect, DbSyncEffect, ServicesEffect, BootstrapEffect,
       DeployEffect, ReadyEffect, CronEffect, FinalizeEffect, ExternalEffect
       DEF Noting, TransportURL, GenerateServiceConfigMaps, EnsureFernetKeys, DbSync, CreateServices,
           Bootstrap, Deploy, DeploymentReady, CreateCronJob, FinalizeSecretRotation, ReconcileExternal
  <2> QED BY <2>1, <2>2
<1>9. CASE World
  BY <1>9, WorldEffect
<1> QED BY <1>1, <1>2, <1>3, <1>4, <1>5, <1>6, <1>7, <1>8, <1>9, Kinds

----------------------------------------------------------------------------
(* The database schema *)

\* What is known of db sync is true: a hash in the status, or in memory, a job that
\* is done, and a reconcile past db sync all stand for an image that was synced.
SyncInv ==
  /\ api.spec.img # 0 /\ (pc # "idle" => inst.spec.img # 0)
  /\ api.sync.img \in synced \cup {0} /\ inst.sync.img \in synced \cup {0}
  /\ job["sync"].done => job["sync"].def.img \in synced
  /\ pc \in {"services", "bootstrap", "deploy", "ready", "accounts", "cron"} =>
       inst.spec.img \in synced

\* Pods come from the Deployment, and its template from a reconcile past db sync.
SchemaInv ==
  /\ depl.tmpl # NoTemplate => depl.tmpl.img \in synced
  /\ depl.tmpl = NoTemplate => Running = {}
  /\ SchemaBeforePods

\* No job has run and no pod is there at first.
LEMMA SchemaInit == Init => SyncInv /\ SchemaInv
<1> SUFFICES ASSUME Init PROVE SyncInv /\ SchemaInv
  OBVIOUS
<1>1. api.spec.img = 1 /\ api.sync = NoDef
  BY DEF Init
<1>2. /\ pc = "idle" /\ inst = NoInst /\ job = [k \in {"sync", "boot"} |-> NoJob]
      /\ depl = [tmpl |-> NoTemplate, observed |-> TRUE] /\ pods = [p \in Pods |-> NoPod]
      /\ cron = 0
  BY DEF Init
<1>3. job["sync"] = NoJob /\ Running = {} /\ depl.tmpl = NoTemplate
  BY <1>2 DEF Running
<1> QED BY <1>1, <1>2, <1>3, NoInstFields DEF SyncInv, SchemaInv, SchemaBeforePods, NoJob, NoDef

\* Every step keeps: what is noted as synced has been synced.
LEMMA SyncStep == TypeOK /\ SyncInv /\ [Next]_vars => SyncInv'
<1> SUFFICES ASSUME TypeOK, SyncInv, [Next]_vars PROVE SyncInv'
  OBVIOUS
<1> USE DEF SyncInv
<1>1. CASE Reconcile
  <2>1. UNCHANGED <<api, job, synced>>
    BY <1>1 DEF Reconcile, jobVars
  <2> QED BY <1>1, <2>1, ReconcileEffect
<1>2. CASE Patch
  <2>1. UNCHANGED <<job, synced>> /\ pc # "idle"
    BY <1>2 DEF Patch, jobVars
  <2> QED BY <1>2, <2>1, PatchEffect, NoInstFields
<1>3. CASE Crash
  BY <1>3, NoInstFields DEF Crash, jobVars
<1>4. CASE ReleaseNewSecret
  <2>1. UNCHANGED <<api, job, synced>> /\ pc # "idle"
    BY <1>4 DEF ReleaseNewSecret, jobVars
  <2> QED BY <1>4, <2>1, ReleaseNewEffect DEF SameJobs
<1>5. CASE EditSpec
  <2>1. UNCHANGED <<pc, inst, job, synced>>
    BY <1>5 DEF EditSpec, jobVars
  <2>2. api'.sync = api.sync /\ api'.spec.img # 0
    BY <1>5, EditEffect DEF TypeOK, API
  <2> QED BY <2>1, <2>2
<1>6. CASE DeleteAPI
  <2>1. UNCHANGED <<pc, inst, job, synced>>
    BY <1>6 DEF DeleteAPI, jobVars
  <2> QED BY <1>6, <2>1, DeleteEffect
<1>7. CASE Passing
  <2>1. UNCHANGED <<api, inst, job, synced>> /\ pc # "idle"
    BY <1>7, PassingEffect
  <2>2. pc' \in {"services", "bootstrap", "deploy", "ready", "accounts", "cron"} => pc = "accounts"
    BY <1>7, PassingFlow
  <2> QED BY <2>1, <2>2
<1>8. CASE Noting
  <2>1. UNCHANGED <<api, synced>> /\ pc # "idle" /\ inst'.spec = inst.spec
    BY <1>8, NotingEffect DEF SameObject
  <2>2. CASE DbSync
    <3>1. SyncDef(inst).img = inst.spec.img
      BY DEF SyncDef
    <3> QED BY <2>1, <2>2, <3>1, DbSyncEffect
  <2>3. CASE Bootstrap
    BY <2>1, <2>3, BootstrapEffect DEF Bootstrap
  <2>4. CASE Noting /\ ~DbSync /\ ~Bootstrap
    <3>1. UNCHANGED job /\ inst'.sync = inst.sync
      BY <2>4, TransportEffect, ConfigEffect, FernetEffect, ServicesEffect, DeployEffect, ReadyEffect,
         CronEffect, FinalizeEffect, ExternalEffect
         DEF Noting, TransportURL, GenerateServiceConfigMaps, EnsureFernetKeys, CreateServices,
             Deploy, DeploymentReady, CreateCronJob, FinalizeSecretRotation, ReconcileExternal,
             jobVars, SameJobs
    <3>2. pc' \in {"services", "bootstrap", "deploy", "ready", "accounts", "cron"} =>
            pc \in {"services", "deploy", "ready"}
      BY <2>4, TransportEffect, ConfigEffect, FernetEffect, ServicesEffect, DeployEffect, ReadyEffect,
         CronEffect, FinalizeEffect, ExternalEffect
         DEF Noting, CreateServices, Deploy, DeploymentReady
    <3> QED BY <2>1, <3>1, <3>2
  <2> QED BY <1>8, <2>2, <2>3, <2>4
<1>9. CASE World
  <2>1. UNCHANGED <<api, inst, pc>>
    BY <1>9, WorldEffect
  <2>2. CASE UNCHANGED <<job, synced>>
    BY <2>1, <2>2
  <2>3. ASSUME NEW kind \in {"sync", "boot"}, JobFinishes(kind) PROVE SyncInv'
    <3>1. job' = [job EXCEPT ![kind].done = TRUE] /\ job \in [{"sync", "boot"} -> Job]
      BY <2>3 DEF JobFinishes, TypeOK
    <3>2. job'["sync"].def = job["sync"].def /\ (kind # "sync" => job'["sync"] = job["sync"])
      BY <3>1 DEF Job
    <3>3. synced \subseteq synced' /\ (kind = "sync" => job["sync"].def.img \in synced')
      BY <2>3 DEF JobFinishes
    <3> QED BY <2>1, <3>2, <3>3
  <2> QED
    BY <1>9, <2>2, <2>3
       DEF World, IssueSecret, InputArrives, InputVanishes, ObserveDeployment, ReplacePod,
           RestartPod, vars, jobVars
<1> QED BY <1>1, <1>2, <1>3, <1>4, <1>5, <1>6, <1>7, <1>8, <1>9, Kinds

\* Every step keeps: what is deployed has been synced.
LEMMA SchemaStep == TypeOK /\ SyncInv /\ SchemaInv /\ [Next]_vars => SchemaInv'
<1> SUFFICES ASSUME TypeOK, SyncInv, SchemaInv, [Next]_vars PROVE SchemaInv'
  OBVIOUS
<1> USE DEF SchemaInv, SchemaBeforePods, Running
<1>1. CASE UNCHANGED <<synced, depl, pods, cron>>
  BY <1>1
<1>2. CASE Patch
  <2>1. UNCHANGED <<synced, depl>>
    BY <1>2 DEF Patch, jobVars
  <2> QED BY <1>2, <2>1, PatchEffect
<1>3. CASE Deploy
  <2>1. inst.spec.img \in synced /\ UNCHANGED <<synced, pods, cron>>
    BY <1>3 DEF Deploy, jobVars, SyncInv
  <2>2. depl'.tmpl = Deployment(inst) /\ Deployment(inst).img = inst.spec.img
    BY <1>3, DeployEffect DEF Deployment
  <2>3. inst.spec.img # 0
    BY <1>3 DEF Deploy, SyncInv
  <2>4. depl'.tmpl # NoTemplate
    BY <2>2, <2>3 DEF NoTemplate
  <2> QED BY <2>1, <2>2, <2>4
<1>4. CASE CreateCronJob
  BY <1>4 DEF CreateCronJob, CronJob, jobVars, SyncInv
<1>5. ASSUME NEW kind \in {"sync", "boot"}, JobFinishes(kind) PROVE SchemaInv'
  <2>1. synced \subseteq synced' /\ UNCHANGED <<depl, pods, cron>>
    BY <1>5 DEF JobFinishes, runVars
  <2> QED BY <2>1
<1>6. CASE ObserveDeployment
  <2>1. depl'.tmpl = depl.tmpl /\ UNCHANGED <<synced, pods, cron>>
    BY <1>6 DEF ObserveDeployment, TypeOK, jobVars
  <2> QED BY <2>1
<1>7. ASSUME NEW p \in Pods, ReplacePod(p) \/ RestartPod(p) PROVE SchemaInv'
  <2>1. UNCHANGED <<synced, depl, cron>>
    BY <1>7 DEF ReplacePod, RestartPod, jobVars
  <2>2. \A q \in Pods \ {p} : pods'[q] = pods[q]
    BY <1>7 DEF ReplacePod, RestartPod, TypeOK
  <2>3. CASE ReplacePod(p)
    <3>1. pods'[p].tmpl = depl.tmpl /\ pods[p].tmpl # depl.tmpl
      BY <2>3 DEF ReplacePod, TypeOK
    <3>2. depl.tmpl # NoTemplate
      BY <3>1 DEF NoPod
    <3> QED BY <2>1, <2>2, <3>1, <3>2
  <2>4. CASE RestartPod(p)
    <3>1. pods'[p].tmpl = pods[p].tmpl /\ p \in Running
      BY <2>4 DEF RestartPod, TypeOK, Pod
    <3> QED BY <2>1, <2>2, <3>1
  <2> QED BY <1>7, <2>3, <2>4
<1> QED
  <2>1. CASE Reconcile \/ Crash \/ ReleaseNewSecret \/ EditSpec \/ DeleteAPI
    BY <1>1, <2>1 DEF Reconcile, Crash, ReleaseNewSecret, EditSpec, DeleteAPI, jobVars, runVars
  <2>2. CASE Passing
    BY <1>1, <2>2, PassingEffect
  <2>3. CASE Noting
    BY <1>1, <1>3, <1>4, <2>3
       DEF Noting, TransportURL, GenerateServiceConfigMaps, EnsureFernetKeys, DbSync, CreateServices,
           Bootstrap, DeploymentReady, FinalizeSecretRotation, ReconcileExternal, jobVars, runVars
  <2>4. CASE World
    BY <1>1, <1>5, <1>6, <1>7, <2>4
       DEF World, IssueSecret, InputArrives, InputVanishes, vars, jobVars, runVars
  <2> QED BY <1>2, <2>1, <2>2, <2>3, <2>4, Kinds

\* Whatever edits, restarts, repeated jobs and lost patches come in between, no pod
\* and no CronJob runs an image before db sync with it has finished.
THEOREM SchemaPrecedesPods == Spec => []SchemaBeforePods
<1>1. Init => TypeOK /\ SyncInv /\ SchemaInv
  BY TypeInit, SchemaInit
<1>2. TypeOK /\ SyncInv /\ SchemaInv /\ [Next]_vars => (TypeOK /\ SyncInv /\ SchemaInv)'
  BY TypeStep, SyncStep, SchemaStep
<1>3. SchemaInv => SchemaBeforePods
  BY DEF SchemaInv
<1> QED BY <1>1, <1>2, <1>3, PTL DEF Spec

----------------------------------------------------------------------------
(* Config and rollout only move forward *)

\* Config d is not newer than c: neither its Secret nor, unless edits may bring
\* back an earlier account, its account.
Upward(d, c) == d.sec <= c.sec /\ (~Revert => d.acct <= c.acct)

\* The config in the cluster is the one this reconcile has rendered and hashed.
RenderedInv ==
  InternalAt(Rendered) =>
    inst.hash.cfg = cfg /\ cfg.sec = inst.cur /\ cfg.acct = inst.spec.acct

\* The template is not newer than the config in the cluster, no pod runs with a
\* config older than its template or newer than the cluster's, and a config that is
\* about to be rendered is not older than the last one.
OrderInv ==
  /\ Upward(depl.tmpl.hash.cfg, cfg)
  /\ \A p \in Pods : Upward(pods[p].tmpl.hash.cfg, pods[p].cfg) /\ Upward(pods[p].cfg, cfg)
  /\ cfg.sec <= turl.sec /\ inst.cur <= turl.sec
  /\ pc \in Held => cfg.sec <= inst.cur
  /\ ~Revert => /\ cfg.acct <= api.spec.acct
                /\ pc # "idle" => cfg.acct <= inst.spec.acct /\ inst.spec.acct <= api.spec.acct

\* The Secrets and the accounts are numbers, in the order of their creation.
LEMMA Numbers ==
  ASSUME TypeOK
  PROVE  /\ {turl.sec, cfg.sec, inst.cur, inst.tsec, api.tsec} \subseteq Nat
         /\ {cfg.acct, inst.spec.acct, api.spec.acct} \subseteq Nat
         /\ {depl.tmpl.hash.cfg.sec, depl.tmpl.hash.cfg.acct} \subseteq Nat
         /\ \A p \in Pods : /\ {pods[p].cfg.sec, pods[p].cfg.acct} \subseteq Nat
                            /\ {pods[p].tmpl.hash.cfg.sec, pods[p].tmpl.hash.cfg.acct} \subseteq Nat
<1>1. Version \subseteq Nat /\ Secret \subseteq Nat
  BY ConstantsAssumption DEF Version, Secret
<1>2. {turl.sec, cfg.sec, inst.cur, inst.tsec, api.tsec} \subseteq Secret
  BY DEF TypeOK, Config, Instance, API
<1>3. {cfg.acct, inst.spec.acct, api.spec.acct} \subseteq Version
  BY DEF TypeOK, Config, Instance, API, Spec_
<1>4. \A c \in Config : c.sec \in Nat /\ c.acct \in Nat
  BY <1>1 DEF Config
<1>5. depl.tmpl.hash.cfg \in Config
  BY DEF TypeOK, Template, Hash
<1>6. \A p \in Pods : pods[p].cfg \in Config /\ pods[p].tmpl.hash.cfg \in Config
  BY DEF TypeOK, Pod, Template, Hash
<1> QED BY <1>1, <1>2, <1>3, <1>4, <1>5, <1>6

\* Nothing is rendered at first.
LEMMA OrderInit == Init => FlowInv /\ RenderedInv /\ OrderInv
<1> SUFFICES ASSUME Init PROVE FlowInv /\ RenderedInv /\ OrderInv
  OBVIOUS
<1>1. api.spec.acct = 1 /\ turl.sec = 0
  <2>1. turl = [ex |-> FALSE, sec |-> 0]
    BY DEF Init
  <2> QED BY <2>1 DEF Init
<1>2. /\ pc = "idle" /\ inst = NoInst /\ cfg = NoConfig
      /\ depl = [tmpl |-> NoTemplate, observed |-> TRUE] /\ pods = [p \in Pods |-> NoPod]
  BY DEF Init
<1>3. NoConfig.sec = 0 /\ NoConfig.acct = 0 /\ NoTemplate.hash.cfg = NoConfig
  BY DEF NoConfig, NoTemplate, NoHash
<1>4. NoPod.tmpl.hash.cfg = NoConfig /\ NoPod.cfg = NoConfig
  BY <1>3 DEF NoPod
<1> QED BY <1>1, <1>2, <1>3, <1>4, NoInstFields
        DEF FlowInv, RenderedInv, OrderInv, Upward, InternalAt, Normal, Held, Rendered, Deletion

\* Every step keeps: what has been rendered in this reconcile is in the configuration.
LEMMA RenderedStep == TypeOK /\ FlowInv /\ RenderedInv /\ [Next]_vars => RenderedInv'
<1> SUFFICES ASSUME TypeOK, FlowInv, RenderedInv, [Next]_vars, InternalAt(Rendered)'
             PROVE  inst'.hash.cfg = cfg' /\ cfg'.sec = inst'.cur /\ cfg'.acct = inst'.spec.acct
  BY DEF RenderedInv
<1> USE DEF RenderedInv, InternalAt, Rendered
<1>1. CASE Reconcile
  BY <1>1, ReconcileEffect
<1>2. CASE Patch \/ Crash
  BY <1>2 DEF Patch, Crash
<1>3. CASE ReleaseNewSecret
  BY <1>3, ReleaseNewEffect
<1>4. CASE EditSpec \/ DeleteAPI \/ World
  BY <1>4, WorldEffect DEF EditSpec, DeleteAPI, cfgVars
<1>5. CASE Passing
  <2>1. UNCHANGED <<inst, cfg>>
    BY <1>5, PassingEffect
  <2>2. InternalAt(Rendered)
    BY <1>5, <2>1, PassingFlow
  <2> QED BY <2>1, <2>2
<1>6. CASE GenerateServiceConfigMaps
  BY <1>6, ConfigEffect DEF SameObject, SameSecrets
<1>7. CASE Noting /\ ~GenerateServiceConfigMaps
  <2>1. UNCHANGED cfg
    BY <1>7
       DEF Noting, TransportURL, EnsureFernetKeys, DbSync, CreateServices, Bootstrap, Deploy,
           DeploymentReady, CreateCronJob, FinalizeSecretRotation, ReconcileExternal, cfgVars
  <2>2. CASE TransportURL \/ ReconcileExternal
    BY <2>2, TransportEffect, ExternalEffect DEF FlowInv, SameObject, ReconcileExternal
  <2>3. CASE Noting /\ ~GenerateServiceConfigMaps /\ ~TransportURL /\ ~ReconcileExternal
    <3>1. inst'.hash.cfg = inst.hash.cfg /\ inst'.cur = inst.cur /\ inst'.spec = inst.spec
      BY <2>3, FernetEffect, DbSyncEffect, ServicesEffect, BootstrapEffect, DeployEffect, ReadyEffect,
         CronEffect, FinalizeEffect
         DEF Noting, SameObject, SameSecrets, SameResult
    <3>2. pc \in Rendered
      BY SMTT(30), <2>3
         DEF Noting, EnsureFernetKeys, DbSync, CreateServices, Bootstrap, Deploy, DeploymentReady,
             CreateCronJob, FinalizeSecretRotation
    <3> QED BY <2>1, <3>1, <3>2
  <2> QED BY <1>7, <2>2, <2>3
<1> QED BY <1>1, <1>2, <1>3, <1>4, <1>5, <1>6, <1>7, Kinds

\* Every step keeps: configuration, template and pods grow old in this order.
LEMMA OrderStep == TypeOK /\ RenderedInv /\ OrderInv /\ [Next]_vars => OrderInv'
<1> SUFFICES ASSUME TypeOK, TypeOK', RenderedInv, OrderInv, [Next]_vars PROVE OrderInv'
  BY TypeStep
<1> USE DEF OrderInv, Upward, Held
<1>1. CASE Reconcile
  <2>1. UNCHANGED <<api, turl, cfg, depl, pods>>
    BY <1>1 DEF Reconcile, cfgVars, runVars, envVars, worldVars
  <2> QED BY <1>1, <2>1, Numbers, ReconcileEffect
<1>2. CASE Patch
  <2>1. UNCHANGED <<turl, cfg, depl>>
    BY <1>2 DEF Patch, cfgVars, envVars, worldVars
  <2>2. NoPod.tmpl.hash.cfg.sec = 0 /\ NoPod.tmpl.hash.cfg.acct = 0 /\ NoPod.cfg.sec = 0 /\ NoPod.cfg.acct = 0
    BY DEF NoPod, NoTemplate, NoHash, NoConfig
  <2> QED BY <1>2, <2>1, <2>2, Numbers, PatchEffect, NoInstFields
<1>3. CASE Crash
  <2>1. UNCHANGED <<api, turl, cfg, depl, pods>>
    BY <1>3 DEF Crash, cfgVars, runVars, envVars
  <2> QED BY <1>3, <2>1, Numbers, NoInstFields DEF Crash
<1>4. CASE ReleaseNewSecret
  <2>1. UNCHANGED <<api, turl, cfg, depl, pods>> /\ pc # "idle"
    BY <1>4 DEF ReleaseNewSecret, cfgVars, runVars, envVars, worldVars
  <2> QED BY <1>4, <2>1, ReleaseNewEffect DEF SameSecrets
<1>5. CASE EditSpec
  <2>1. UNCHANGED <<inst, pc, turl, cfg, depl, pods>>
    BY <1>5 DEF EditSpec, cfgVars, runVars
  <2>2. api'.spec.acct \in Nat
    BY ConstantsAssumption DEF TypeOK, API, Spec_, Version
  <2>3. ~Revert => api.spec.acct <= api'.spec.acct
    BY <1>5, EditEffect
  <2> QED BY <2>1, <2>2, <2>3, Numbers
<1>6. CASE DeleteAPI
  <2>1. UNCHANGED <<inst, pc, turl, cfg, depl, pods>>
    BY <1>6 DEF DeleteAPI, cfgVars, runVars, envVars, worldVars
  <2> QED BY <1>6, <2>1, DeleteEffect
<1>7. CASE Passing
  <2>1. UNCHANGED <<api, inst, turl, cfg, depl, pods>> /\ pc # "idle"
    BY <1>7, PassingEffect
  <2>2. pc' \in Held => pc \in Held
    BY <1>7, PassingFlow
  <2>3. /\ \A p \in Pods : Upward(pods'[p].tmpl.hash.cfg, pods'[p].cfg) /\ Upward(pods'[p].cfg, cfg')
        /\ Upward(depl'.tmpl.hash.cfg, cfg')
    BY <2>1
  <2>4. cfg'.sec <= turl'.sec /\ inst'.cur <= turl'.sec /\ (pc' \in Held => cfg'.sec <= inst'.cur)
    BY <2>1, <2>2
  <2>5. ~Revert => /\ cfg'.acct <= api'.spec.acct
                   /\ cfg'.acct <= inst'.spec.acct /\ inst'.spec.acct <= api'.spec.acct
    BY <2>1
  <2> QED BY <2>3, <2>4, <2>5
<1>8. CASE TransportURL
  <2>1. UNCHANGED <<api, cfg, depl, pods>> /\ turl'.sec = turl.sec /\ pc # "idle"
    BY <1>8 DEF TransportURL, TypeOK, cfgVars, runVars
  <2>2. /\ inst'.spec = inst.spec
        /\ \/ pc' = "patch" /\ inst'.cur = inst.cur
           \/ pc' = "hold" /\ inst'.cur = turl.sec
    BY <1>8, TransportEffect DEF SameObject, SameSecrets
  <2>3. inst'.cur <= turl'.sec /\ (pc' \in Held => cfg'.sec <= inst'.cur)
    BY <2>1, <2>2, Numbers
  <2> QED BY <2>1, <2>2, <2>3
<1>9. CASE GenerateServiceConfigMaps
  <2>1. UNCHANGED <<api, turl, depl, pods>> /\ pc = "config"
    BY <1>9 DEF GenerateServiceConfigMaps, runVars, envVars, worldVars
  <2>2. cfg'.sec = inst.cur /\ cfg'.acct = inst.spec.acct /\ pc' = "fernet"
        /\ inst'.spec = inst.spec /\ inst'.cur = inst.cur
    BY <1>9, ConfigEffect DEF SameObject, SameSecrets
  <2> QED BY <2>1, <2>2, Numbers
<1>10. CASE Deploy
  <2>1. UNCHANGED <<api, turl, cfg, pods>> /\ pc = "deploy"
    BY <1>10 DEF Deploy, cfgVars, envVars, worldVars
  <2>2. depl'.tmpl.hash.cfg = cfg
    BY <1>10, <2>1, DeployEffect DEF RenderedInv, InternalAt, Rendered, Deployment
  <2>3. inst'.spec = inst.spec /\ inst'.cur = inst.cur /\ pc' = "ready"
    BY <1>10, DeployEffect DEF SameObject, SameSecrets
  <2> QED BY <2>1, <2>2, <2>3, Numbers
<1>11. CASE Noting /\ ~TransportURL /\ ~GenerateServiceConfigMaps /\ ~Deploy
  <2>1. UNCHANGED <<api, turl, cfg, depl, pods>> /\ pc # "idle"
    BY <1>11
       DEF Noting, EnsureFernetKeys, DbSync, CreateServices, Bootstrap, DeploymentReady,
           CreateCronJob, FinalizeSecretRotation, ReconcileExternal, cfgVars, runVars, envVars, worldVars
  <2>2. inst'.spec = inst.spec /\ inst'.cur = inst.cur /\ pc' \notin Held
    BY <1>11, FernetEffect, DbSyncEffect, ServicesEffect, BootstrapEffect, ReadyEffect, CronEffect,
       FinalizeEffect, ExternalEffect
       DEF Noting, SameObject, SameSecrets
  <2> QED BY <2>1, <2>2
<1>12. CASE World
  <2>1. UNCHANGED <<api, inst, pc, cfg>>
    BY <1>12, WorldEffect
  <2>2. CASE IssueSecret
    <3>1. turl'.sec = turl.sec + 1 /\ UNCHANGED <<depl, pods>>
      BY <2>2 DEF IssueSecret, TypeOK, runVars
    <3> QED BY <2>1, <3>1, Numbers
  <2>3. CASE ObserveDeployment
    <3>1. depl'.tmpl = depl.tmpl /\ UNCHANGED <<turl, pods>>
      BY <2>3 DEF ObserveDeployment, TypeOK, envVars, worldVars
    <3> QED BY <2>1, <3>1
  <2>4. ASSUME NEW p \in Pods, ReplacePod(p) \/ RestartPod(p) PROVE OrderInv'
    <3>1. UNCHANGED <<turl, depl>> /\ \A q \in Pods \ {p} : pods'[q] = pods[q]
      BY <2>4 DEF ReplacePod, RestartPod, TypeOK, envVars, worldVars
    <3>2. pods'[p].cfg = cfg /\ pods'[p].tmpl \in {depl.tmpl, pods[p].tmpl}
      BY <2>4 DEF ReplacePod, RestartPod, TypeOK, Pod
    <3> QED BY SMTT(30), <2>1, <3>1, <3>2, Numbers
  <2>5. CASE UNCHANGED <<turl, depl, pods>>
    BY <2>1, <2>5
  <2> QED
    BY <1>12, <2>2, <2>3, <2>4, <2>5
       DEF World, InputArrives, InputVanishes, JobFinishes, vars, envVars, runVars, worldVars
<1> QED BY <1>1, <1>2, <1>3, <1>4, <1>5, <1>6, <1>7, <1>8, <1>9, <1>10, <1>11, <1>12, Kinds

----------------------------------------------------------------------------
(* What is reported *)

\* All pods have the template of this reconcile, which is made of the config in the
\* cluster, an image that was synced and a bootstrap with the endpoints in memory.
RolledOut ==
  /\ depl.tmpl = Deployment(inst) /\ \A p \in Pods : pods[p].tmpl = depl.tmpl
  /\ inst.hash.cfg = cfg /\ cfg.sec = inst.cur /\ cfg.acct = inst.spec.acct
  /\ inst.spec.img \in synced /\ inst.boot = BootDef(inst)

\* A reconcile past the Deployment has applied its own template, and one that found
\* the Deployment ready still finds it so when the status is patched: the pods are
\* those of its template whatever restarts in between.
LiveInv ==
  /\ InternalAt(Deployed) => depl.tmpl = Deployment(inst)
  /\ InternalAt({"deploy"} \cup Deployed) => inst.boot = BootDef(inst) /\ inst.spec.img \in synced
  /\ inst.live => /\ pc \in {"accounts", "cron", "cloud", "finalize", "prune", "patch"}
                  /\ ~inst.spec.ext /\ RolledOut
  /\ inst.ready => inst.live \/ inst.spec.ext

\* Nothing is known of the rollout at first.
LEMMA LiveInit == Init => LiveInv
BY NoInstFields DEF Init, LiveInv, InternalAt, Deployed

\* A step that leaves the world of RolledOut and what a reconcile knows of it alone
\* keeps LiveInv if the reconcile does not get further than it was.
LEMMA LiveKept ==
  ASSUME LiveInv, UNCHANGED <<cfg, depl, pods>>, synced \subseteq synced',
         inst'.spec = inst.spec, inst'.hash = inst.hash, inst'.cur = inst.cur,
         inst'.url = inst.url, inst'.boot = inst.boot,
         inst'.live = inst.live, inst'.ready => inst.ready,
         InternalAt(Deployed)' => InternalAt(Deployed),
         pc' # "deploy" \/ pc = "deploy",
         pc \in {"accounts", "cron", "cloud", "finalize", "prune", "patch"} =>
           pc' \in {"accounts", "cron", "cloud", "finalize", "prune", "patch"}
  PROVE  LiveInv'
<1>1. Deployment(inst') = Deployment(inst) /\ BootDef(inst') = BootDef(inst)
  BY DEF Deployment, BootDef
<1> DEFINE D == InternalAt(Deployed)
<1>2. InternalAt({"deploy"} \cup Deployed) <=> D \/ pc = "deploy"
  BY DEF InternalAt
<1>3. InternalAt({"deploy"} \cup Deployed)' <=> D' \/ pc' = "deploy"
  BY DEF InternalAt
<1>4. depl' = depl /\ cfg' = cfg /\ pods' = pods
  OBVIOUS
<1>5. Deployment(inst)' = Deployment(inst) /\ BootDef(inst)' = BootDef(inst)
  BY <1>1
<1>6. RolledOut => RolledOut'
  BY <1>4, <1>5 DEF RolledOut
<1>7. D' => D
  OBVIOUS
<1> HIDE DEF D
<1>8. /\ InternalAt(Deployed) = D /\ InternalAt(Deployed)' = D'
  BY DEF D
<1> QED BY <1>2, <1>3, <1>4, <1>5, <1>6, <1>7, <1>8 DEF LiveInv

\* Every step keeps: a KeystoneAPI that is live in memory has been rolled out.
LEMMA LiveStep ==
  TypeOK /\ FlowInv /\ SyncInv /\ RenderedInv /\ LiveInv /\ [Next]_vars => LiveInv'
<1> SUFFICES ASSUME TypeOK, FlowInv, SyncInv, RenderedInv, LiveInv, [Next]_vars PROVE LiveInv'
  OBVIOUS
<1> DEFINE Late == {"accounts", "cron", "cloud", "finalize", "prune", "patch"}
<1>1. ASSUME ~inst'.live, ~inst'.ready, pc' \notin {"deploy", "cloud"} \cup Deployed PROVE LiveInv'
  BY <1>1 DEF LiveInv, InternalAt
<1>2. ~inst.live => ~inst.ready \/ inst.spec.ext
  BY DEF LiveInv
<1>3. CASE Reconcile
  BY <1>1, <1>3, ReconcileEffect DEF Deployed
<1>4. CASE Patch \/ Crash
  BY <1>1, <1>4, NoInstFields DEF Patch, Crash, Deployed
<1>5. CASE ReleaseNewSecret
  <2>1. ~inst.live /\ ~inst.ready
    BY <1>5 DEF ReleaseNewSecret, LiveInv, FlowInv, Deletion
  <2> QED BY <1>1, <1>5, <2>1, ReleaseNewEffect DEF SameResult, Deployed
<1>6. CASE EditSpec \/ DeleteAPI
  <2>1. UNCHANGED <<inst, pc, cfg, depl, pods, synced>>
    BY <1>6 DEF EditSpec, DeleteAPI, cfgVars, jobVars, runVars
  <2> QED BY <2>1, LiveKept DEF InternalAt
<1>7. CASE Passing
  <2>1. UNCHANGED <<inst, cfg, depl, pods, synced>>
    BY <1>7, PassingEffect
  <2>2. /\ pc' \in Deployed => pc \in Deployed \/ (pc = "cloud" /\ ~inst.spec.ext)
        /\ pc' \notin {"deploy", "cloud"}
        /\ pc \in Late => pc' \in Late
    BY <1>7, PassingFlow DEF Deployed
  <2>3. InternalAt(Deployed)' => InternalAt(Deployed)
    BY <2>1, <2>2 DEF InternalAt
  <2> QED BY <2>1, <2>2, <2>3, LiveKept
<1>8. CASE TransportURL \/ GenerateServiceConfigMaps \/ EnsureFernetKeys \/ DbSync \/ CreateServices
  <2>1. /\ pc \in {"transport", "config", "fernet", "dbsync", "services"}
        /\ inst'.live = inst.live /\ inst'.ready = inst.ready
        /\ pc' \in {"hold", "fernet", "verify", "services", "bootstrap", "patch"}
    BY <1>8, TransportEffect, ConfigEffect, FernetEffect, DbSyncEffect, ServicesEffect
       DEF TransportURL, GenerateServiceConfigMaps, EnsureFernetKeys, DbSync, CreateServices, SameResult
  <2>2. ~inst.live /\ ~inst.ready
    BY <2>1 DEF LiveInv, FlowInv, Normal, Held, Rendered
  <2> QED BY <1>1, <2>1, <2>2 DEF Deployed
<1>9. CASE Bootstrap
  <2>1. ~inst.live /\ ~inst.ready
    BY <1>9 DEF Bootstrap, LiveInv, FlowInv, Normal, Rendered
  <2>2. inst.spec.img \in synced /\ UNCHANGED synced
    BY <1>9 DEF Bootstrap, SyncInv
  <2>3. /\ inst'.live = inst.live /\ inst'.ready = inst.ready
        /\ inst'.spec = inst.spec /\ inst'.url = inst.url
        /\ pc' = "patch" \/ (pc' = "deploy" /\ inst'.boot = BootDef(inst))
    BY <1>9, BootstrapEffect DEF SameObject, SameResult
  <2>4. BootDef(inst)' = BootDef(inst)
    BY <2>3 DEF BootDef
  <2> QED BY <2>1, <2>2, <2>3, <2>4 DEF LiveInv, InternalAt, Deployed
<1>10. CASE Deploy
  <2>1. ~inst.live /\ ~inst.ready
    BY <1>10 DEF Deploy, LiveInv, FlowInv, Normal, Rendered
  <2>2. inst.spec.img \in synced /\ inst.boot = BootDef(inst) /\ UNCHANGED synced
    BY <1>10 DEF Deploy, LiveInv, InternalAt, jobVars
  <2>3. /\ inst'.live = inst.live /\ inst'.ready = inst.ready /\ inst'.hash = inst.hash
        /\ inst'.spec = inst.spec /\ inst'.url = inst.url /\ inst'.boot = inst.boot
        /\ pc' = "ready" /\ depl'.tmpl = Deployment(inst)
    BY <1>10, DeployEffect DEF SameObject, SameJobs, SameResult
  <2>4. BootDef(inst)' = BootDef(inst) /\ Deployment(inst)' = Deployment(inst)
    BY <2>3 DEF BootDef, Deployment
  <2> QED BY <2>1, <2>2, <2>3, <2>4 DEF LiveInv, InternalAt, Deployed
<1>11. CASE DeploymentReady
  <2>1. ~inst.live /\ ~inst.ready /\ ~inst.spec.ext /\ pc = "ready"
    BY <1>11 DEF DeploymentReady, LiveInv, FlowInv, Normal, Rendered
  <2>2. /\ inst.spec.img \in synced /\ inst.boot = BootDef(inst) /\ depl.tmpl = Deployment(inst)
        /\ inst.hash.cfg = cfg /\ cfg.sec = inst.cur /\ cfg.acct = inst.spec.acct
    BY <2>1 DEF LiveInv, RenderedInv, InternalAt, Rendered, Deployed
  <2>3. UNCHANGED <<synced, depl, pods, cfg>>
    BY <1>11 DEF DeploymentReady, jobVars, runVars, cfgVars
  <2>4. /\ inst'.ready = inst.ready /\ inst'.hash = inst.hash /\ inst'.cur = inst.cur
        /\ inst'.spec = inst.spec /\ inst'.url = inst.url /\ inst'.boot = inst.boot
        /\ pc' = "accounts" /\ (inst'.live => \A p \in Pods : pods[p].tmpl = depl.tmpl)
    BY <1>11, ReadyEffect DEF SameObject, SameSecrets, SameJobs, IsReadyForInput
  <2>5. BootDef(inst)' = BootDef(inst) /\ Deployment(inst)' = Deployment(inst)
    BY <2>4 DEF BootDef, Deployment
  <2>6. inst'.live => RolledOut'
    BY <2>2, <2>3, <2>4, <2>5 DEF RolledOut
  <2> QED BY <2>1, <2>2, <2>3, <2>4, <2>5, <2>6 DEF LiveInv, InternalAt, Deployed
<1>12. CASE CreateCronJob \/ FinalizeSecretRotation
  <2>1. UNCHANGED <<synced, depl, pods, cfg>> /\ pc \in {"cron", "finalize"} /\ ~inst.spec.ext
    BY <1>12 DEF CreateCronJob, FinalizeSecretRotation, jobVars, runVars, cfgVars,
                 FlowInv, Normal, Rendered
  <2>2. /\ inst'.hash = inst.hash /\ inst'.cur = inst.cur /\ inst'.live = inst.live
        /\ inst'.spec = inst.spec /\ inst'.url = inst.url /\ inst'.boot = inst.boot
        /\ inst'.ready => inst.live
        /\ pc' \in {"cloud", "prune"}
    BY <1>2, <1>12, <2>1, CronEffect, FinalizeEffect DEF SameObject, SameSecrets, SameJobs, SameResult
  <2>3. BootDef(inst)' = BootDef(inst) /\ Deployment(inst)' = Deployment(inst)
    BY <2>2 DEF BootDef, Deployment
  <2>4. RolledOut => RolledOut'
    BY <2>1, <2>2, <2>3 DEF RolledOut
  <2>5. depl.tmpl = Deployment(inst) /\ inst.boot = BootDef(inst) /\ inst.spec.img \in synced
    BY <2>1 DEF LiveInv, InternalAt, Deployed
  <2> QED BY <2>1, <2>2, <2>3, <2>4, <2>5 DEF LiveInv
<1>13. CASE ReconcileExternal
  <2>1. ~inst.live /\ inst.spec.ext
    BY <1>13 DEF ReconcileExternal, LiveInv, FlowInv
  <2>2. inst'.live = inst.live /\ inst'.spec = inst.spec /\ pc' \in {"patch", "cloud"}
    BY <1>13, ExternalEffect DEF SameObject
  <2> QED BY <2>1, <2>2 DEF LiveInv, InternalAt, Deployed
<1>14. CASE World
  <2>1. UNCHANGED <<inst, pc, cfg>>
    BY <1>14, WorldEffect
  <2>2. InternalAt(Deployed)' = InternalAt(Deployed)
    BY <2>1 DEF InternalAt
  <2>3. CASE UNCHANGED <<depl, pods>> /\ synced \subseteq synced'
    BY <2>1, <2>2, <2>3, LiveKept
  <2>4. CASE ObserveDeployment
    <3>1. depl'.tmpl = depl.tmpl /\ UNCHANGED <<synced, pods>>
      BY <2>4 DEF ObserveDeployment, TypeOK, jobVars
    <3> QED BY <2>1, <3>1 DEF LiveInv, InternalAt, RolledOut, Deployment, BootDef
  <2>5. ASSUME NEW p \in Pods, ReplacePod(p) \/ RestartPod(p) PROVE LiveInv'
    <3>1. UNCHANGED <<synced, depl>>
      BY <2>5 DEF ReplacePod, RestartPod, jobVars
    <3>2. (\A q \in Pods : pods[q].tmpl = depl.tmpl) => \A q \in Pods : pods'[q].tmpl = depl.tmpl
      BY <2>5 DEF ReplacePod, RestartPod, TypeOK, Pod
    <3> QED BY <2>1, <3>1, <3>2 DEF LiveInv, InternalAt, RolledOut, Deployment, BootDef
  <2>6. ASSUME NEW kind \in {"sync", "boot"}, JobFinishes(kind)
        PROVE  UNCHANGED <<depl, pods>> /\ synced \subseteq synced'
    BY <2>6 DEF JobFinishes, runVars
  <2> QED
    BY <1>14, <2>3, <2>4, <2>5, <2>6
       DEF World, IssueSecret, InputArrives, InputVanishes, vars, jobVars, runVars
<1> QED BY <1>3, <1>4, <1>5, <1>6, <1>7, <1>8, <1>9, <1>10, <1>11, <1>12, <1>13, <1>14, Kinds DEF Noting

\* The invariant all that follows rests on.
BaseInv == TypeOK /\ FlowInv /\ SyncInv /\ SchemaInv /\ RenderedInv /\ OrderInv /\ LiveInv

\* The invariants above hold initially.
LEMMA BaseInit == Init => BaseInv
BY TypeInit, SchemaInit, OrderInit, LiveInit DEF BaseInv

\* Every step keeps the invariants above.
LEMMA BaseStep == BaseInv /\ [Next]_vars => BaseInv'
BY TypeStep, FlowStep, SyncStep, SchemaStep, RenderedStep, OrderStep, LiveStep DEF BaseInv

\* While a reconcile has found the Deployment ready, every pod runs with the Secret
\* it has rendered and, unless an earlier account can come back, with its account.
LEMMA LivePods ==
  ASSUME BaseInv, inst.live
  PROVE  \A p \in Pods : /\ pods[p].tmpl.img = inst.spec.img
                         /\ pods[p].cfg.sec = inst.cur
                         /\ ~Revert => pods[p].cfg.acct = inst.spec.acct
<1> SUFFICES ASSUME NEW p \in Pods
             PROVE  /\ pods[p].tmpl.img = inst.spec.img
                    /\ pods[p].cfg.sec = inst.cur
                    /\ ~Revert => pods[p].cfg.acct = inst.spec.acct
  OBVIOUS
<1>1. /\ pods[p].tmpl = Deployment(inst) /\ inst.hash.cfg = cfg
      /\ cfg.sec = inst.cur /\ cfg.acct = inst.spec.acct
  BY DEF BaseInv, LiveInv, RolledOut
<1>2. pods[p].tmpl.img = inst.spec.img /\ pods[p].tmpl.hash.cfg = cfg
  BY <1>1 DEF Deployment
<1>3. Upward(cfg, pods[p].cfg) /\ Upward(pods[p].cfg, cfg)
  BY <1>2 DEF BaseInv, OrderInv
<1>4. {cfg.sec, cfg.acct, pods[p].cfg.sec, pods[p].cfg.acct} \subseteq Nat
  BY Numbers DEF BaseInv
<1> QED BY <1>1, <1>2, <1>3, <1>4 DEF Upward

\* A Ready that is written for an internal Keystone is true.
LEMMA ReadyPatch ==
  ASSUME BaseInv, inst.ready, ~inst.spec.ext
  PROVE  /\ \A p \in Pods : /\ pods[p].tmpl.img = inst.spec.img
                            /\ pods[p].cfg.sec = inst.cur
                            /\ ~Revert => pods[p].cfg.acct = inst.spec.acct
         /\ inst.spec.img \in synced
         /\ inst.boot = [img |-> inst.spec.img, url |-> inst.url]
<1>1. inst.live
  BY DEF BaseInv, LiveInv
<1> QED BY <1>1, LivePods DEF BaseInv, LiveInv, RolledOut, BootDef

\* ReadyStaysHonest: unless an edit brings back an earlier account while pods are
\* replaced, Ready is written only when every pod runs with the image, the bus Secret
\* and the account of this reconcile, the schema fits and the bootstrap is done.
THEOREM ReadyStaysHonest == ~Revert /\ Spec => ReadyHonest
<1> DEFINE Honest ==
      /\ \A p \in Pods : /\ pods[p].tmpl.img = inst.spec.img
                         /\ pods[p].cfg.sec = inst.cur /\ pods[p].cfg.acct = inst.spec.acct
      /\ inst.spec.img \in synced
      /\ inst.boot = [img |-> inst.spec.img, url |-> inst.url]
         Inv == ~Revert /\ BaseInv
<1>1. ~Revert /\ Spec => []Inv
  <2>1. ~Revert /\ Init => Inv
    BY BaseInit
  <2>2. Inv /\ [Next]_vars => Inv'
    BY BaseStep
  <2> QED BY <2>1, <2>2, PTL DEF Spec
<1>2. ~Revert /\ BaseInv /\ inst.ready /\ ~inst.spec.ext => Honest
  BY ReadyPatch
<1>3. Inv => [Patch /\ inst.ready /\ ~inst.spec.ext => Honest]_vars
  <2> HIDE DEF Honest
  <2> QED BY <1>2
<1> QED BY <1>1, <1>3, PTL DEF ReadyHonest

\* Whatever users revert, a pod counts for Ready only with the image and the bus
\* Secret of the reconcile that writes it, on a schema that fits.
ReadyOnCurrentSecret ==
  [][Patch /\ inst.ready /\ ~inst.spec.ext =>
       /\ \A p \in Pods : pods[p].tmpl.img = inst.spec.img /\ pods[p].cfg.sec = inst.cur
       /\ inst.spec.img \in synced]_vars

\* ReadySecretIsCurrent: the part of ReadyHonest that needs no assumption on edits.
THEOREM ReadySecretIsCurrent == Spec => ReadyOnCurrentSecret
<1> DEFINE Honest ==
      /\ \A p \in Pods : pods[p].tmpl.img = inst.spec.img /\ pods[p].cfg.sec = inst.cur
      /\ inst.spec.img \in synced
<1>1. Spec => []BaseInv
  BY BaseInit, BaseStep, PTL DEF Spec
<1>2. BaseInv /\ inst.ready /\ ~inst.spec.ext => Honest
  BY ReadyPatch
<1>3. BaseInv => [Patch /\ inst.ready /\ ~inst.spec.ext => Honest]_vars
  <2> HIDE DEF Honest
  <2> QED BY <1>2
<1> QED BY <1>1, <1>3, PTL DEF ReadyOnCurrentSecret

----------------------------------------------------------------------------
(* The rotation of the bus Secret *)

\* Of the steps that note a result, these do not touch the Secrets of a rotation.
Quiet ==
  \/ EnsureFernetKeys \/ DbSync \/ CreateServices \/ Bootstrap \/ DeploymentReady
  \/ CreateCronJob \/ ReconcileExternal

\* The quiet steps change neither Secrets nor what uses them.
LEMMA QuietEffect ==
  ASSUME TypeOK, Quiet
  PROVE  /\ UNCHANGED <<api, turl, held, cfg, depl, pods>> /\ pc # "idle"
         /\ inst'.spec = inst.spec /\ SameSecrets(inst, inst')
         /\ \/ pc' = "patch"
            \/ pc \in Rendered /\ pc' \in Rendered \cup {"cloud"}
            \/ pc = "external" /\ pc' = "cloud"
<1>1. UNCHANGED <<api, turl, held, cfg, depl, pods>>
  BY DEF Quiet, EnsureFernetKeys, DbSync, CreateServices, Bootstrap, DeploymentReady,
         CreateCronJob, ReconcileExternal, holdVars, cfgVars, runVars, envVars, worldVars
<1>2. /\ pc \in {"fernet", "dbsync", "services", "bootstrap", "ready", "cron", "external"}
      /\ pc = "external" => ReconcileExternal
  BY DEF Quiet, EnsureFernetKeys, DbSync, CreateServices, Bootstrap, DeploymentReady,
         CreateCronJob, ReconcileExternal
<1>3. SameObject(inst, inst') /\ SameSecrets(inst, inst')
  BY FernetEffect, DbSyncEffect, ServicesEffect, BootstrapEffect, ReadyEffect, CronEffect,
     ExternalEffect DEF Quiet
<1>4. /\ ReconcileExternal => pc' \in {"patch", "cloud"}
      /\ pc' \in {"verify", "services", "bootstrap", "deploy", "accounts", "cloud", "patch"}
  BY FernetEffect, DbSyncEffect, ServicesEffect, BootstrapEffect, ReadyEffect, CronEffect,
     ExternalEffect DEF Quiet
<1> QED BY <1>1, <1>2, <1>3, <1>4 DEF SameObject, Rendered

\* At most one rotation is pending, the Secret of the status is the one before it or
\* the one it leads to, and what a reconcile works with lies between them.
RotationInv ==
  /\ api.tsec <= turl.sec /\ turl.sec <= api.tsec + 1
  /\ pc # "idle" => api.tsec <= inst.tsec /\ inst.tsec <= turl.sec
  /\ InternalAt(Held \cup Rendered) => 1 <= inst.tsec /\ inst.tsec <= inst.cur

\* Only the Secret of the status and the one of a pending rotation are held.
HeldInv ==
  /\ 0 \notin held /\ held \subseteq {api.tsec, turl.sec}
  /\ pc # "idle" => held \subseteq {inst.tsec, turl.sec}

\* Neither the config nor a running pod is older than the Secret of the status.
UsedInv ==
  /\ cfg.sec # 0 => api.tsec <= cfg.sec /\ (pc # "idle" => inst.tsec <= cfg.sec)
  /\ depl.tmpl # NoTemplate => cfg.sec # 0
  /\ \A p \in Running : /\ pods[p].cfg.sec # 0 /\ api.tsec <= pods[p].cfg.sec
                        /\ pc # "idle" => inst.tsec <= pods[p].cfg.sec

\* Until deletion, what is rendered, what is about to be, and what runs is held.
KeptInv ==
  ~api.deleting => /\ cfg.sec # 0 => cfg.sec \in held
                   /\ pc \in {"memcached", "config"} => inst.cur \in held
                   /\ TransportHeld

\* No transport URL Secret is in use at first.
LEMMA RotationInit == Init => RotationInv /\ HeldInv /\ UsedInv /\ KeptInv
<1> SUFFICES ASSUME Init PROVE RotationInv /\ HeldInv /\ UsedInv /\ KeptInv
  OBVIOUS
<1>1. turl.sec = 0 /\ api.tsec = 0
  <2>1. turl = [ex |-> FALSE, sec |-> 0]
    BY DEF Init
  <2> QED BY <2>1 DEF Init
<1>2. depl.tmpl = NoTemplate /\ Running = {} /\ cfg.sec = 0
  <2>1. depl = [tmpl |-> NoTemplate, observed |-> TRUE] /\ pods = [p \in Pods |-> NoPod]
        /\ cfg = NoConfig
    BY DEF Init
  <2> QED BY <2>1 DEF Running, NoConfig
<1>3. pc = "idle" /\ held = {}
  BY DEF Init
<1> QED BY <1>1, <1>2, <1>3
        DEF RotationInv, HeldInv, UsedInv, KeptInv, TransportHeld, InternalAt, Held, Rendered

\* Every step keeps: the Secret of the status is at most one rotation behind.
LEMMA RotationStep ==
  ASSUME ~Rapid, BaseInv, RotationInv, [Next]_vars
  PROVE  RotationInv'
<1> TypeOK /\ FlowInv /\ OrderInv
  BY DEF BaseInv
<1> USE Numbers DEF RotationInv, InternalAt, Held, Rendered
<1>1. CASE Reconcile
  <2>1. UNCHANGED <<api, turl>>
    BY <1>1 DEF Reconcile, envVars, worldVars
  <2> QED BY <1>1, <2>1, ReconcileEffect
<1>2. CASE Patch
  <2>1. UNCHANGED turl /\ pc # "idle"
    BY <1>2 DEF Patch, envVars, worldVars
  <2>2. pc' = "idle" /\ (api'.tsec = api.tsec \/ api'.tsec = inst.tsec)
    BY <1>2, PatchEffect
  <2> QED BY <2>1, <2>2
<1>3. CASE Crash
  BY <1>3 DEF Crash, envVars
<1>4. CASE ReleaseNewSecret
  <2>1. UNCHANGED <<api, turl>> /\ pc # "idle"
    BY <1>4 DEF ReleaseNewSecret, envVars, worldVars
  <2> QED BY <1>4, <2>1, ReleaseNewEffect DEF SameSecrets
<1>5. CASE EditSpec \/ DeleteAPI
  <2>1. UNCHANGED <<turl, inst, pc>>
    BY <1>5 DEF EditSpec, DeleteAPI, envVars, worldVars
  <2>2. api'.tsec = api.tsec
    BY <1>5, EditEffect, DeleteEffect DEF TypeOK, API
  <2> QED BY <2>1, <2>2
<1>6. CASE Passing
  BY <1>6, PassingEffect, PassingFlow
<1>7. CASE Quiet
  BY <1>7, QuietEffect DEF SameSecrets, FlowInv
<1>8. CASE TransportURL
  <2>1. UNCHANGED api /\ turl'.sec = turl.sec /\ pc = "transport"
    BY <1>8 DEF TransportURL, TypeOK
  <2> QED BY <1>8, <2>1, TransportEffect DEF SameSecrets, OrderInv
<1>9. CASE GenerateServiceConfigMaps
  <2>1. UNCHANGED <<api, turl>> /\ pc = "config"
    BY <1>9 DEF GenerateServiceConfigMaps, envVars, worldVars
  <2> QED BY <1>9, <2>1, ConfigEffect DEF SameSecrets
<1>10. CASE Deploy
  <2>1. UNCHANGED <<api, turl>> /\ pc = "deploy"
    BY <1>10 DEF Deploy, envVars, worldVars
  <2> QED BY <1>10, <2>1, DeployEffect DEF SameSecrets
<1>11. CASE FinalizeSecretRotation
  <2>1. UNCHANGED <<api, turl>> /\ pc = "finalize"
    BY <1>11 DEF FinalizeSecretRotation, envVars, worldVars
  <2> QED BY <1>11, <2>1, FinalizeEffect DEF OrderInv
<1>12. CASE World
  <2>1. UNCHANGED <<api, inst, pc>>
    BY <1>12, WorldEffect
  <2>2. CASE UNCHANGED turl
    BY <2>1, <2>2
  <2>3. CASE IssueSecret
    <3>1. turl'.sec = turl.sec + 1 /\ (turl.sec = 0 \/ api.tsec = turl.sec)
      BY <2>3 DEF IssueSecret, TypeOK
    <3> QED BY <2>1, <3>1
  <2> QED
    BY <1>12, <2>2, <2>3
       DEF World, InputArrives, InputVanishes, JobFinishes, ObserveDeployment, ReplacePod,
           RestartPod, vars, envVars, worldVars
<1> QED
  BY <1>1, <1>2, <1>3, <1>4, <1>5, <1>6, <1>7, <1>8, <1>9, <1>10, <1>11, <1>12, Kinds
     DEF Noting, Quiet

\* Every step keeps: only the two Secrets of a rotation are held.
LEMMA HeldStep ==
  ASSUME ~Rapid, BaseInv, RotationInv, HeldInv, [Next]_vars
  PROVE  HeldInv'
<1> TypeOK /\ FlowInv /\ OrderInv
  BY DEF BaseInv
<1> USE DEF HeldInv
<1>1. CASE Reconcile
  <2>1. UNCHANGED <<api, turl, held>>
    BY <1>1 DEF Reconcile, holdVars, envVars, worldVars
  <2> QED BY <1>1, <2>1, ReconcileEffect
<1>2. CASE Patch
  <2>1. UNCHANGED <<turl, held>> /\ pc # "idle"
    BY <1>2 DEF Patch, holdVars, envVars, worldVars
  <2>2. pc' = "idle" /\ (api'.tsec = api.tsec \/ api'.tsec = inst.tsec)
    BY <1>2, PatchEffect
  <2> QED BY <2>1, <2>2
<1>3. CASE Crash
  BY <1>3 DEF Crash, holdVars, envVars
<1>4. CASE ReleaseNewSecret
  <2>1. UNCHANGED <<api, turl>> /\ pc # "idle" /\ held' \subseteq held
    BY <1>4 DEF ReleaseNewSecret, envVars, worldVars
  <2> QED BY <1>4, <2>1, ReleaseNewEffect DEF SameSecrets
<1>5. CASE EditSpec \/ DeleteAPI
  <2>1. UNCHANGED <<turl, held, inst, pc>>
    BY <1>5 DEF EditSpec, DeleteAPI, holdVars, envVars, worldVars
  <2>2. api'.tsec = api.tsec
    BY <1>5, EditEffect, DeleteEffect DEF TypeOK, API
  <2> QED BY <2>1, <2>2
<1>6. CASE Passing
  <2>1. UNCHANGED <<api, inst, turl>> /\ pc # "idle"
    BY <1>6, PassingEffect
  <2>2. CASE HoldSecret
    <3>1. pc = "hold" /\ held' = held \cup {inst.cur}
      BY <2>2 DEF HoldSecret
    <3>2. /\ inst.cur # 0 /\ inst.cur \in {api.tsec, turl.sec} /\ inst.cur \in {inst.tsec, turl.sec}
      BY <3>1, Numbers DEF RotationInv, OrderInv, InternalAt, Held
    <3> QED BY <2>1, <3>1, <3>2
  <2>3. CASE held' \subseteq held
    BY <2>1, <2>3
  <2> QED
    BY <1>6, <2>2, <2>3
       DEF Passing, VerifySecret, EnsureDB, Memcached, VerifyInputs, ReleaseAccounts,
           ReconcileCloudConfig, PruneSecretConsumerFinalizers, ReleaseMemcached, ReleaseDB,
           ReleaseOldSecret, CallFails, holdVars
<1>7. CASE Quiet
  BY <1>7, QuietEffect DEF SameSecrets
<1>8. CASE TransportURL
  <2>1. UNCHANGED <<api, held>> /\ turl'.sec = turl.sec /\ pc = "transport"
    BY <1>8 DEF TransportURL, TypeOK, holdVars
  <2> QED BY <1>8, <2>1, TransportEffect DEF SameSecrets
<1>9. CASE GenerateServiceConfigMaps
  <2>1. UNCHANGED <<api, turl, held>> /\ pc = "config"
    BY <1>9 DEF GenerateServiceConfigMaps, holdVars, envVars, worldVars
  <2> QED BY <1>9, <2>1, ConfigEffect DEF SameSecrets
<1>10. CASE Deploy
  <2>1. UNCHANGED <<api, turl, held>> /\ pc = "deploy"
    BY <1>10 DEF Deploy, holdVars, envVars, worldVars
  <2> QED BY <1>10, <2>1, DeployEffect DEF SameSecrets
<1>11. CASE FinalizeSecretRotation
  <2>1. UNCHANGED <<api, turl>> /\ pc = "finalize"
    BY <1>11 DEF FinalizeSecretRotation, envVars, worldVars
  <2>2. \/ inst'.tsec = inst.tsec /\ held' = held
        \/ inst'.tsec = inst.cur /\ held' = held \ ({inst.tsec} \ {inst.cur})
    BY <1>11, FinalizeEffect
  <2> QED BY <2>1, <2>2
<1>12. CASE World
  <2>1. UNCHANGED <<api, inst, pc, held>>
    BY <1>12, WorldEffect
  <2>2. CASE UNCHANGED turl
    BY <2>1, <2>2
  <2>3. CASE IssueSecret
    <3>1. turl.sec = 0 \/ api.tsec = turl.sec
      BY <2>3 DEF IssueSecret
    <3>2. turl.sec = 0 => api.tsec = 0 /\ (pc # "idle" => inst.tsec = 0)
      BY Numbers DEF RotationInv
    <3>3. api.tsec = turl.sec /\ pc # "idle" => inst.tsec = turl.sec
      BY Numbers DEF RotationInv
    <3> QED BY <2>1, <3>1, <3>2, <3>3
  <2> QED
    BY <1>12, <2>2, <2>3
       DEF World, InputArrives, InputVanishes, JobFinishes, ObserveDeployment, ReplacePod,
           RestartPod, vars, envVars, worldVars
<1> QED
  BY <1>1, <1>2, <1>3, <1>4, <1>5, <1>6, <1>7, <1>8, <1>9, <1>10, <1>11, <1>12, Kinds
     DEF Noting, Quiet

\* Every step keeps: what is in use is no older than the Secret of the status.
LEMMA UsedStep ==
  ASSUME ~Rapid, BaseInv, RotationInv, UsedInv, [Next]_vars
  PROVE  UsedInv'
<1> TypeOK /\ FlowInv /\ SchemaInv /\ OrderInv /\ RenderedInv
  BY DEF BaseInv
<1> USE DEF UsedInv, Running
<1>1. CASE Reconcile
  <2>1. UNCHANGED <<api, cfg, depl, pods>>
    BY <1>1 DEF Reconcile, cfgVars, runVars
  <2> QED BY <1>1, <2>1, ReconcileEffect
<1>2. CASE Patch
  <2>1. UNCHANGED <<cfg, depl>> /\ pc # "idle"
    BY <1>2 DEF Patch, cfgVars
  <2>2. /\ pc' = "idle" /\ (api'.tsec = api.tsec \/ api'.tsec = inst.tsec)
        /\ pods' = pods \/ pods' = [p \in Pods |-> NoPod]
    BY <1>2, PatchEffect
  <2> QED BY <2>1, <2>2
<1>3. CASE Crash
  BY <1>3 DEF Crash, cfgVars, runVars
<1>4. CASE ReleaseNewSecret
  <2>1. UNCHANGED <<api, cfg, depl, pods>> /\ pc # "idle"
    BY <1>4 DEF ReleaseNewSecret, cfgVars, runVars
  <2> QED BY <1>4, <2>1, ReleaseNewEffect DEF SameSecrets
<1>5. CASE EditSpec \/ DeleteAPI
  <2>1. UNCHANGED <<cfg, depl, pods, inst, pc>>
    BY <1>5 DEF EditSpec, DeleteAPI, cfgVars, runVars
  <2>2. api'.tsec = api.tsec
    BY <1>5, EditEffect, DeleteEffect DEF TypeOK, API
  <2> QED BY <2>1, <2>2
<1>6. CASE Passing
  BY <1>6, PassingEffect
<1>7. CASE Quiet
  BY <1>7, QuietEffect DEF SameSecrets
<1>8. CASE TransportURL
  <2>1. UNCHANGED <<api, cfg, depl, pods>> /\ pc = "transport"
    BY <1>8 DEF TransportURL, cfgVars, runVars
  <2>2. inst'.tsec = inst.tsec \/ inst'.tsec = 1
    BY <1>8, <2>1, TransportEffect, Numbers DEF SameSecrets, RotationInv
  <2> QED BY <2>1, <2>2, Numbers
<1>9. CASE GenerateServiceConfigMaps
  <2>1. UNCHANGED <<api, depl, pods>> /\ pc = "config"
    BY <1>9 DEF GenerateServiceConfigMaps, runVars
  <2>2. cfg'.sec = inst.cur /\ inst'.tsec = inst.tsec
    BY <1>9, ConfigEffect DEF SameSecrets
  <2> QED BY <2>1, <2>2, Numbers DEF RotationInv, InternalAt, Held
<1>10. CASE Deploy
  <2>1. UNCHANGED <<api, cfg, pods>> /\ pc = "deploy"
    BY <1>10 DEF Deploy, cfgVars
  <2>2. cfg.sec # 0
    BY <2>1, Numbers DEF RenderedInv, RotationInv, InternalAt, Rendered
  <2> QED BY <1>10, <2>1, <2>2, DeployEffect DEF SameSecrets
<1>11. CASE FinalizeSecretRotation
  <2>1. UNCHANGED <<api, cfg, depl, pods>> /\ pc = "finalize"
    BY <1>11 DEF FinalizeSecretRotation, cfgVars, runVars
  <2>2. cfg.sec = inst.cur /\ ~inst.spec.ext
    BY <2>1 DEF RenderedInv, InternalAt, Rendered, FlowInv, Normal
  <2>3. inst'.tsec = inst.tsec \/ (inst'.tsec = inst.cur /\ (inst.tsec = inst.cur \/ inst.ready))
    BY <1>11, FinalizeEffect
  <2>4. inst.ready => \A p \in Pods : pods[p].cfg.sec = inst.cur
    BY <2>2, LivePods DEF BaseInv, LiveInv
  <2> QED BY <2>1, <2>2, <2>3, <2>4, Numbers
<1>12. CASE World
  <2>1. UNCHANGED <<api, inst, pc, cfg>>
    BY <1>12, WorldEffect
  <2>2. CASE UNCHANGED <<depl, pods>>
    BY <2>1, <2>2
  <2>3. CASE ObserveDeployment
    <3>1. depl'.tmpl = depl.tmpl /\ UNCHANGED pods
      BY <2>3 DEF ObserveDeployment, TypeOK
    <3> QED BY <2>1, <3>1
  <2>4. ASSUME NEW p \in Pods, ReplacePod(p) \/ RestartPod(p) PROVE UsedInv'
    <3>1. UNCHANGED depl /\ pods'[p].cfg = cfg /\ \A q \in Pods \ {p} : pods'[q] = pods[q]
      BY <2>4 DEF ReplacePod, RestartPod, TypeOK, Pod
    <3>2. depl.tmpl # NoTemplate
      BY <2>4 DEF ReplacePod, RestartPod, SchemaInv, NoPod
    <3> QED BY <2>1, <3>1, <3>2
  <2> QED
    BY <1>12, <2>2, <2>3, <2>4
       DEF World, IssueSecret, InputArrives, InputVanishes, JobFinishes, vars, runVars
<1> QED
  BY <1>1, <1>2, <1>3, <1>4, <1>5, <1>6, <1>7, <1>8, <1>9, <1>10, <1>11, <1>12, Kinds
     DEF Noting, Quiet

\* Every step keeps: what is rendered and what runs is held, until deletion.
LEMMA KeptStep ==
  ASSUME ~Rapid, BaseInv, RotationInv, HeldInv, UsedInv, KeptInv, [Next]_vars
  PROVE  KeptInv'
<1> TypeOK /\ FlowInv /\ SchemaInv /\ OrderInv /\ RenderedInv
  BY DEF BaseInv
<1> SUFFICES ASSUME ~api'.deleting
             PROVE  /\ cfg'.sec # 0 => cfg'.sec \in held'
                    /\ pc' \in {"memcached", "config"} => inst'.cur \in held'
                    /\ \A p \in Running' : pods'[p].cfg.sec \in held'
  BY DEF KeptInv, TransportHeld
<1>0. ~api.deleting
  <2>1. Patch \/ DeleteAPI \/ EditSpec \/ UNCHANGED api
    BY PassingEffect, NotingEffect, WorldEffect, Kinds DEF Reconcile, Crash, ReleaseNewSecret
  <2>2. CASE EditSpec
    BY <2>2, EditEffect
  <2> QED BY <2>1, <2>2, PatchEffect, DeleteEffect
<1> /\ cfg.sec # 0 => cfg.sec \in held
    /\ pc \in {"memcached", "config"} => inst.cur \in held
    /\ \A p \in Running : pods[p].cfg.sec \in held
  BY <1>0 DEF KeptInv, TransportHeld
<1> USE DEF Running
<1>1. CASE Reconcile
  <2>1. UNCHANGED <<held, cfg, pods>> /\ pc' \notin {"memcached", "config"}
    BY <1>1, ReconcileEffect DEF Reconcile, holdVars, cfgVars, runVars
  <2> QED BY <2>1
<1>2. CASE Patch
  <2>1. UNCHANGED <<held, cfg>> /\ pc' = "idle"
    BY <1>2 DEF Patch, holdVars, cfgVars
  <2>2. pods' = pods \/ pods' = [p \in Pods |-> NoPod]
    BY <1>2, PatchEffect
  <2> QED BY <2>1, <2>2
<1>3. CASE Crash
  BY <1>3 DEF Crash, holdVars, cfgVars, runVars
<1>4. CASE EditSpec \/ DeleteAPI
  BY <1>4 DEF EditSpec, DeleteAPI, holdVars, cfgVars, runVars
<1>5. CASE ReleaseNewSecret \/ ReleaseMemcached \/ ReleaseDB \/ ReleaseOldSecret
  BY <1>0, <1>5 DEF ReleaseNewSecret, ReleaseMemcached, ReleaseDB, ReleaseOldSecret, FlowInv, Deletion
<1>6. CASE HoldSecret
  <2>1. UNCHANGED <<cfg, pods, inst>> /\ held' = held \cup {inst.cur}
    BY <1>6 DEF HoldSecret, cfgVars, runVars
  <2> QED BY <2>1
<1>7. CASE PruneSecretConsumerFinalizers
  <2>1. /\ UNCHANGED <<cfg, pods, inst>> /\ held' = held \cap {inst.tsec, inst.cur}
        /\ pc = "prune" /\ pc' = "patch"
    BY <1>7 DEF PruneSecretConsumerFinalizers, Return, cfgVars, runVars
  <2>2. cfg.sec = inst.cur
    BY <2>1 DEF RenderedInv, InternalAt, Rendered
  <2>3. ASSUME NEW p \in Running PROVE pods[p].cfg.sec \in {inst.tsec, inst.cur}
    <3>1. inst.tsec <= pods[p].cfg.sec /\ pods[p].cfg.sec <= inst.cur
      BY <2>1, <2>2 DEF UsedInv, OrderInv, Upward
    <3>2. inst.cur <= inst.tsec + 1
      BY <2>1, Numbers DEF RotationInv, OrderInv
    <3> QED BY <3>1, <3>2, Numbers
  <2> QED BY <2>1, <2>2, <2>3
<1>8. CASE /\ Passing /\ ~HoldSecret /\ ~PruneSecretConsumerFinalizers /\ ~ReleaseMemcached
           /\ ~ReleaseDB /\ ~ReleaseOldSecret
  <2>1. UNCHANGED <<inst, cfg, pods>>
    BY <1>8, PassingEffect
  <2>2. UNCHANGED held
    BY <1>8
       DEF Passing, VerifySecret, EnsureDB, Memcached, VerifyInputs, ReleaseAccounts,
           ReconcileCloudConfig, CallFails, holdVars
  <2>3. pc' \in {"memcached", "config"} => pc = "memcached"
    BY <1>8, PassingFlow
  <2> QED BY <2>1, <2>2, <2>3
<1>9. CASE Quiet
  BY <1>9, QuietEffect DEF Rendered
<1>10. CASE TransportURL \/ Deploy
  <2>1. UNCHANGED <<held, cfg, pods>>
    BY <1>10 DEF TransportURL, Deploy, holdVars, cfgVars, runVars
  <2>2. pc' \notin {"memcached", "config"}
    BY <1>10, TransportEffect, DeployEffect
  <2> QED BY <2>1, <2>2
<1>11. CASE GenerateServiceConfigMaps
  <2>1. UNCHANGED <<held, pods>> /\ pc = "config"
    BY <1>11 DEF GenerateServiceConfigMaps, holdVars, runVars
  <2>2. cfg'.sec = inst.cur /\ pc' = "fernet"
    BY <1>11, ConfigEffect
  <2> QED BY <2>1, <2>2
<1>12. CASE FinalizeSecretRotation
  <2>1. UNCHANGED <<cfg, pods>> /\ pc = "finalize"
    BY <1>12 DEF FinalizeSecretRotation, cfgVars, runVars
  <2>2. cfg.sec = inst.cur /\ ~inst.spec.ext
    BY <2>1 DEF RenderedInv, InternalAt, Rendered, FlowInv, Normal
  <2>3. /\ pc' = "prune"
        /\ \/ held' = held
           \/ /\ inst.tsec = inst.cur \/ inst.ready
              /\ held' = held \ ({inst.tsec} \ {inst.cur})
    BY <1>12, FinalizeEffect
  <2>4. inst.ready => \A p \in Pods : pods[p].cfg.sec = inst.cur
    BY <2>2, LivePods DEF BaseInv, LiveInv
  <2> QED BY <2>1, <2>2, <2>3, <2>4
<1>13. CASE World
  <2>1. UNCHANGED <<inst, pc, cfg, held>>
    BY <1>13, WorldEffect
  <2>2. CASE UNCHANGED pods
    BY <2>1, <2>2
  <2>3. ASSUME NEW p \in Pods, ReplacePod(p) \/ RestartPod(p)
        PROVE  \A q \in Running' : pods'[q].cfg.sec \in held'
    <3>1. pods'[p].cfg = cfg /\ \A q \in Pods \ {p} : pods'[q] = pods[q]
      BY <2>3 DEF ReplacePod, RestartPod, TypeOK, Pod
    <3>2. depl.tmpl # NoTemplate
      BY <2>3 DEF ReplacePod, RestartPod, SchemaInv, NoPod
    <3>3. cfg.sec \in held
      BY <3>2 DEF UsedInv
    <3> QED BY <2>1, <3>1, <3>3
  <2> QED
    BY <1>13, <2>1, <2>2, <2>3
       DEF World, IssueSecret, InputArrives, InputVanishes, JobFinishes, ObserveDeployment, vars, runVars
<1> QED
  BY <1>1, <1>2, <1>3, <1>4, <1>5, <1>6, <1>7, <1>8, <1>9, <1>10, <1>11, <1>12, <1>13, Kinds
     DEF Noting, Quiet

\* The inductive invariant of a rotation.
TransportInv == ~Rapid /\ BaseInv /\ RotationInv /\ HeldInv /\ UsedInv /\ KeptInv

\* The invariants about the Secrets hold initially.
LEMMA TransportInit == ~Rapid /\ Init => TransportInv
BY BaseInit, RotationInit DEF TransportInv

\* Every step keeps the invariants about the Secrets.
LEMMA TransportStep == TransportInv /\ [Next]_vars => TransportInv'
<1> SUFFICES ASSUME TransportInv, [Next]_vars PROVE TransportInv'
  OBVIOUS
<1>1. BaseInv'
  BY BaseStep DEF TransportInv
<1>2. RotationInv' /\ HeldInv' /\ UsedInv' /\ KeptInv'
  BY RotationStep, HeldStep, UsedStep, KeptStep DEF TransportInv
<1> QED BY <1>1, <1>2 DEF TransportInv

\* TransportStaysHeld: if the bus Secret is rotated again only after the status names
\* it, the Secret a running pod was configured from keeps the finalizer, at every step
\* of rollout, pruning, pod restarts and crashes, until the KeystoneAPI is deleted.
THEOREM TransportStaysHeld == ~Rapid /\ Spec => []TransportHeld
<1>1. ~Rapid /\ Spec => []TransportInv
  BY TransportInit, TransportStep, PTL DEF Spec
<1>2. TransportInv => TransportHeld
  <2> SUFFICES ASSUME TransportInv, ~api.deleting PROVE TransportHeld
    BY DEF TransportHeld
  <2> QED BY DEF TransportInv, KeptInv
<1> QED BY <1>1, <1>2, PTL

----------------------------------------------------------------------------
(* Rotations that overtake one another *)

\* Whatever number of rotations is pending: a Secret that is rendered exists, the
\* reconcile knows the Secret the status names, unless there is none or the rollout
\* is over, and no Secret is held before it is issued.
NamedInv ==
  /\ InternalAt(Held \cup Rendered) => inst.cur # 0
  /\ pc # "idle" => api.tsec \in {0, inst.tsec} \/ inst.live
  /\ held \subseteq 1..turl.sec
  /\ depl.tmpl # NoTemplate => cfg.sec # 0
  /\ \A p \in Running : pods[p].cfg.sec # 0

\* Until deletion, what is rendered and about to be is held; what runs is held unless
\* a later Secret has been rendered and neither status nor reconcile name it.
OvertakenInv ==
  ~api.deleting =>
    /\ cfg.sec # 0 => cfg.sec \in held
    /\ pc \in {"memcached", "config"} => inst.cur \in held
    /\ \A p \in Running :
         \/ pods[p].cfg.sec \in held
         \/ /\ pods[p].cfg.sec < cfg.sec /\ pods[p].cfg.sec # api.tsec
            /\ pc # "idle" => pods[p].cfg.sec # inst.tsec

\* A Secret that a running pod was configured from and that is let go of is one
\* that a later rotation has overtaken and that the status does not name.
OvertakenOnly ==
  ~api.deleting => \A p \in Running :
    \/ pods[p].cfg.sec \in held
    \/ pods[p].cfg.sec # api.tsec /\ pods[p].cfg.sec < cfg.sec

\* No Secret is held and nothing runs at first.
LEMMA NamedInit == Init => NamedInv /\ OvertakenInv
<1> SUFFICES ASSUME Init PROVE NamedInv /\ OvertakenInv
  OBVIOUS
<1>1. depl.tmpl = NoTemplate /\ Running = {} /\ cfg.sec = 0
  <2>1. depl = [tmpl |-> NoTemplate, observed |-> TRUE] /\ pods = [p \in Pods |-> NoPod]
        /\ cfg = NoConfig
    BY DEF Init
  <2> QED BY <2>1 DEF Running, NoConfig
<1>2. pc = "idle" /\ held = {}
  BY DEF Init
<1> QED BY <1>1, <1>2 DEF NamedInv, OvertakenInv, InternalAt, Held, Rendered

\* Every step keeps: only what exists is held, and what the status names is known.
LEMMA NamedStep ==
  ASSUME BaseInv, NamedInv, [Next]_vars
  PROVE  NamedInv'
<1> TypeOK /\ FlowInv /\ SchemaInv /\ OrderInv /\ RenderedInv /\ LiveInv
  BY DEF BaseInv
<1> {turl.sec, cfg.sec, inst.cur, inst.tsec, api.tsec} \subseteq Nat
  BY Numbers
<1> USE DEF NamedInv, Running
<1>1. CASE Reconcile
  <2>1. UNCHANGED <<api, turl, held, cfg, depl, pods>>
    BY <1>1 DEF Reconcile, holdVars, cfgVars, runVars, envVars, worldVars
  <2>2. inst'.tsec = api.tsec /\ pc' \in {"patch", "unhold_memcached", "external", "secret"}
    BY <1>1, ReconcileEffect
  <2> QED BY <2>1, <2>2 DEF InternalAt, Held, Rendered
<1>2. CASE Patch
  <2>1. UNCHANGED <<turl, held, cfg, depl>> /\ pc' = "idle"
    BY <1>2 DEF Patch, holdVars, cfgVars, envVars, worldVars
  <2>2. pods' = pods \/ pods' = [p \in Pods |-> NoPod]
    BY <1>2, PatchEffect
  <2> QED BY <2>1, <2>2 DEF InternalAt, Held, Rendered
<1>3. CASE Crash
  <2>1. UNCHANGED <<api, turl, held, cfg, depl, pods>> /\ pc' = "idle"
    BY <1>3 DEF Crash, holdVars, cfgVars, runVars, envVars
  <2> QED BY <2>1 DEF InternalAt, Held, Rendered
<1>4. CASE ReleaseNewSecret
  <2>1. UNCHANGED <<api, turl, cfg, depl, pods>> /\ pc # "idle" /\ held' \subseteq held
    BY <1>4 DEF ReleaseNewSecret, cfgVars, runVars, envVars, worldVars
  <2>2. inst'.tsec = inst.tsec /\ inst'.live = inst.live /\ pc' = "patch"
    BY <1>4, ReleaseNewEffect DEF SameSecrets, SameResult
  <2> QED BY <2>1, <2>2 DEF InternalAt, Held, Rendered
<1>5. CASE EditSpec \/ DeleteAPI
  <2>1. UNCHANGED <<turl, held, cfg, depl, pods, inst, pc>>
    BY <1>5 DEF EditSpec, DeleteAPI, holdVars, cfgVars, runVars, envVars, worldVars
  <2>2. api'.tsec = api.tsec
    BY <1>5, EditEffect, DeleteEffect DEF TypeOK, API
  <2> QED BY <2>1, <2>2 DEF InternalAt
<1>6. CASE Passing
  <2>1. UNCHANGED <<api, inst, turl, cfg, depl, pods>> /\ pc # "idle"
    BY <1>6, PassingEffect
  <2>2. InternalAt(Held \cup Rendered)' => InternalAt(Held \cup Rendered)
    BY <1>6, <2>1, PassingFlow DEF InternalAt, Held, Rendered
  <2>3. CASE HoldSecret
    <3>1. held' = held \cup {inst.cur} /\ pc = "hold"
      BY <2>3 DEF HoldSecret
    <3>2. inst.cur # 0 /\ inst.cur <= turl.sec
      BY <3>1 DEF OrderInv, InternalAt, Held
    <3>3. inst.cur \in 1..turl.sec
      BY <3>2
    <3>4. held' \subseteq 1..turl.sec
      BY <3>1, <3>3, Zenon DEF NamedInv
    <3> QED BY <2>1, <2>2, <3>4
  <2>4. CASE held' \subseteq held
    BY <2>1, <2>2, <2>4
  <2> QED
    BY <1>6, <2>3, <2>4
       DEF Passing, VerifySecret, EnsureDB, Memcached, VerifyInputs, ReleaseAccounts,
           ReconcileCloudConfig, PruneSecretConsumerFinalizers, ReleaseMemcached, ReleaseDB,
           ReleaseOldSecret, CallFails, holdVars
<1>7. CASE Quiet
  <2>1. /\ UNCHANGED <<api, turl, held, cfg, depl, pods>> /\ pc # "idle"
        /\ inst'.spec = inst.spec /\ inst'.tsec = inst.tsec /\ inst'.cur = inst.cur
        /\ InternalAt(Held \cup Rendered)' => InternalAt(Held \cup Rendered)
    BY <1>7, QuietEffect DEF SameSecrets, InternalAt, Held, Rendered, FlowInv
  <2>2. inst.live => inst'.live
    <3>1. DeploymentReady => ~inst.live
      BY DEF DeploymentReady, LiveInv
    <3> QED
      BY <1>7, <3>1, FernetEffect, DbSyncEffect, ServicesEffect, BootstrapEffect, CronEffect,
         ExternalEffect DEF Quiet, SameResult
  <2> QED BY <2>1, <2>2
<1>8. CASE TransportURL
  <2>1. UNCHANGED <<api, held, cfg, depl, pods>> /\ turl'.sec = turl.sec /\ pc = "transport"
    BY <1>8 DEF TransportURL, TypeOK, holdVars, cfgVars, runVars
  <2>2. ~inst.live
    BY <2>1 DEF LiveInv
  <2>3. \/ pc' = "patch" /\ inst'.tsec = inst.tsec
        \/ pc' = "hold" /\ inst'.cur # 0 /\ (inst.tsec = 0 \/ inst'.tsec = inst.tsec)
    BY <1>8, <2>1, TransportEffect DEF SameSecrets
  <2> QED BY <2>1, <2>2, <2>3 DEF InternalAt, Held, Rendered
<1>9. CASE GenerateServiceConfigMaps
  <2>1. UNCHANGED <<api, turl, held, depl, pods>> /\ pc = "config"
    BY <1>9 DEF GenerateServiceConfigMaps, holdVars, runVars, envVars, worldVars
  <2>2. /\ cfg'.sec = inst.cur /\ inst'.tsec = inst.tsec /\ inst'.cur = inst.cur
        /\ inst'.live = inst.live
    BY <1>9, ConfigEffect DEF SameSecrets
  <2>3. inst.cur # 0
    BY <2>1 DEF InternalAt, Held
  <2> QED BY <2>1, <2>2, <2>3
<1>10. CASE Deploy
  <2>1. UNCHANGED <<api, turl, held, cfg, pods>> /\ pc = "deploy"
    BY <1>10 DEF Deploy, holdVars, cfgVars, envVars, worldVars
  <2>2. cfg.sec = inst.cur /\ inst.cur # 0
    BY <2>1 DEF RenderedInv, InternalAt, Rendered
  <2>3. inst'.tsec = inst.tsec /\ inst'.cur = inst.cur /\ inst'.live = inst.live
    BY <1>10, DeployEffect DEF SameSecrets, SameResult
  <2> QED BY <2>1, <2>2, <2>3
<1>11. CASE FinalizeSecretRotation
  <2>1. UNCHANGED <<api, turl, cfg, depl, pods>> /\ pc = "finalize"
    BY <1>11 DEF FinalizeSecretRotation, cfgVars, runVars, envVars, worldVars
  <2>2. /\ inst'.cur = inst.cur /\ inst'.live = inst.live
        /\ \/ inst'.tsec = inst.tsec /\ held' = held
           \/ /\ inst.tsec = inst.cur \/ inst.ready
              /\ inst'.tsec = inst.cur /\ held' = held \ ({inst.tsec} \ {inst.cur})
    BY <1>11, FinalizeEffect DEF SameResult
  <2>3. inst.ready => inst.live
    BY <2>1 DEF LiveInv, FlowInv, Normal, Rendered
  <2>4. inst.cur # 0
    BY <2>1 DEF InternalAt, Rendered
  <2> QED BY <2>1, <2>2, <2>3, <2>4
<1>12. CASE World
  <2>1. UNCHANGED <<api, inst, pc, held, cfg>>
    BY <1>12, WorldEffect
  <2>2. CASE UNCHANGED <<turl, depl, pods>>
    BY <2>1, <2>2 DEF InternalAt
  <2>3. CASE IssueSecret
    <3>1. turl'.sec = turl.sec + 1 /\ UNCHANGED <<depl, pods>>
      BY <2>3 DEF IssueSecret, TypeOK, runVars
    <3> QED BY <2>1, <3>1 DEF InternalAt
  <2>4. CASE ObserveDeployment
    <3>1. depl'.tmpl = depl.tmpl /\ UNCHANGED <<turl, pods>>
      BY <2>4 DEF ObserveDeployment, TypeOK, envVars, worldVars
    <3> QED BY <2>1, <3>1 DEF InternalAt
  <2>5. ASSUME NEW p \in Pods, ReplacePod(p) \/ RestartPod(p) PROVE NamedInv'
    <3>1. /\ UNCHANGED <<turl, depl>> /\ pods'[p].cfg = cfg
          /\ \A q \in Pods \ {p} : pods'[q] = pods[q]
      BY <2>5 DEF ReplacePod, RestartPod, TypeOK, Pod, envVars, worldVars
    <3>2. depl.tmpl # NoTemplate
      BY <2>5 DEF ReplacePod, RestartPod, SchemaInv, NoPod
    <3> QED BY <2>1, <3>1, <3>2 DEF InternalAt
  <2> QED
    BY <1>12, <2>2, <2>3, <2>4, <2>5
       DEF World, InputArrives, InputVanishes, JobFinishes, vars, runVars, envVars, worldVars
<1> QED
  BY <1>1, <1>2, <1>3, <1>4, <1>5, <1>6, <1>7, <1>8, <1>9, <1>10, <1>11, <1>12, Kinds
     DEF Noting, Quiet

\* Every step keeps: what is rendered is held, and what runs unless it is overtaken.
LEMMA OvertakenStep ==
  ASSUME BaseInv, NamedInv, OvertakenInv, [Next]_vars
  PROVE  OvertakenInv'
<1> TypeOK /\ FlowInv /\ SchemaInv /\ OrderInv /\ RenderedInv /\ LiveInv
  BY DEF BaseInv
<1> /\ {turl.sec, cfg.sec, inst.cur, inst.tsec, api.tsec} \subseteq Nat
    /\ \A p \in Pods : pods[p].cfg.sec \in Nat
  BY Numbers
<1> DEFINE Over(p) == /\ pods[p].cfg.sec < cfg.sec /\ pods[p].cfg.sec # api.tsec
                      /\ pc # "idle" => pods[p].cfg.sec # inst.tsec
<1> SUFFICES ASSUME ~api'.deleting
             PROVE  /\ cfg'.sec # 0 => cfg'.sec \in held'
                    /\ pc' \in {"memcached", "config"} => inst'.cur \in held'
                    /\ \A p \in Running' : pods'[p].cfg.sec \in held' \/ Over(p)'
  BY DEF OvertakenInv
<1>0. ~api.deleting
  <2>1. Patch \/ DeleteAPI \/ EditSpec \/ UNCHANGED api
    BY PassingEffect, NotingEffect, WorldEffect, Kinds DEF Reconcile, Crash, ReleaseNewSecret
  <2>2. CASE EditSpec
    BY <2>2, EditEffect
  <2> QED BY <2>1, <2>2, PatchEffect, DeleteEffect
<1> /\ cfg.sec # 0 => cfg.sec \in held
    /\ pc \in {"memcached", "config"} => inst.cur \in held
    /\ \A p \in Running : pods[p].cfg.sec \in held \/ Over(p)
  BY <1>0 DEF OvertakenInv
<1> USE DEF Running
<1>1. CASE Reconcile
  <2>1. UNCHANGED <<api, held, cfg, pods>> /\ pc' \notin {"memcached", "config"} /\ inst'.tsec = api.tsec
    BY <1>1, ReconcileEffect DEF Reconcile, holdVars, cfgVars, runVars
  <2> QED BY <2>1
<1>2. CASE Patch
  <2>1. UNCHANGED <<held, cfg>> /\ pc' = "idle" /\ pc # "idle"
    BY <1>2 DEF Patch, holdVars, cfgVars
  <2>2. /\ pods' = pods \/ pods' = [p \in Pods |-> NoPod]
        /\ api'.tsec = api.tsec \/ api'.tsec = inst.tsec
    BY <1>2, PatchEffect
  <2> QED BY <2>1, <2>2
<1>3. CASE Crash
  BY <1>3 DEF Crash, holdVars, cfgVars, runVars
<1>4. CASE EditSpec \/ DeleteAPI
  <2>1. UNCHANGED <<held, cfg, pods, inst, pc>>
    BY <1>4 DEF EditSpec, DeleteAPI, holdVars, cfgVars, runVars
  <2>2. api'.tsec = api.tsec
    BY <1>4, EditEffect, DeleteEffect DEF TypeOK, API
  <2> QED BY <2>1, <2>2
<1>5. CASE ReleaseNewSecret \/ ReleaseMemcached \/ ReleaseDB \/ ReleaseOldSecret
  BY <1>0, <1>5 DEF ReleaseNewSecret, ReleaseMemcached, ReleaseDB, ReleaseOldSecret, FlowInv, Deletion
<1>6. CASE HoldSecret
  <2>1. UNCHANGED <<api, cfg, pods, inst>> /\ held' = held \cup {inst.cur} /\ pc # "idle"
    BY <1>6 DEF HoldSecret, cfgVars, runVars
  <2> QED BY <2>1
<1>7. CASE PruneSecretConsumerFinalizers
  <2>1. /\ UNCHANGED <<api, cfg, pods, inst>> /\ held' = held \cap {inst.tsec, inst.cur}
        /\ pc = "prune" /\ pc' = "patch"
    BY <1>7 DEF PruneSecretConsumerFinalizers, Return, cfgVars, runVars
  <2>2. cfg.sec = inst.cur
    BY <2>1 DEF RenderedInv, InternalAt, Rendered
  <2>3. ASSUME NEW p \in Running PROVE pods[p].cfg.sec \in held' \/ Over(p)
    <3>1. CASE inst.live
      <4>1. pods[p].cfg.sec = inst.cur
        BY <3>1, LivePods
      <4>2. inst.cur # 0 /\ inst.cur \in held
        BY <2>1, <2>2 DEF NamedInv, InternalAt, Rendered
      <4> QED BY <2>1, <4>1, <4>2
    <3>2. CASE ~inst.live /\ pods[p].cfg.sec \in held /\ pods[p].cfg.sec \notin held'
      <4>1. pods[p].cfg.sec # inst.tsec /\ pods[p].cfg.sec # inst.cur
        BY <2>1, <3>2
      <4>2. pods[p].cfg.sec # api.tsec
        BY <2>1, <3>2, <4>1 DEF NamedInv
      <4>3. pods[p].cfg.sec < cfg.sec
        BY <2>2, <4>1 DEF OrderInv, Upward
      <4> QED BY <4>1, <4>2, <4>3
    <3> QED BY <3>1, <3>2
  <2> QED BY <2>1, <2>2, <2>3
<1>8. CASE /\ Passing /\ ~HoldSecret /\ ~PruneSecretConsumerFinalizers /\ ~ReleaseMemcached
           /\ ~ReleaseDB /\ ~ReleaseOldSecret
  <2>1. UNCHANGED <<api, inst, cfg, pods>> /\ pc # "idle"
    BY <1>8, PassingEffect
  <2>2. UNCHANGED held
    BY <1>8
       DEF Passing, VerifySecret, EnsureDB, Memcached, VerifyInputs, ReleaseAccounts,
           ReconcileCloudConfig, CallFails, holdVars
  <2>3. pc' \in {"memcached", "config"} => pc = "memcached"
    BY <1>8, PassingFlow
  <2> QED BY <2>1, <2>2, <2>3
<1>9. CASE Quiet
  <2>1. /\ UNCHANGED <<api, held, cfg, pods>> /\ pc # "idle" /\ inst'.tsec = inst.tsec
        /\ pc' \notin {"memcached", "config"}
    BY <1>9, QuietEffect DEF Rendered, SameSecrets
  <2> QED BY <2>1
<1>10. CASE Deploy
  <2>1. UNCHANGED <<api, held, cfg, pods>> /\ pc = "deploy"
    BY <1>10 DEF Deploy, holdVars, cfgVars
  <2>2. pc' = "ready" /\ inst'.tsec = inst.tsec
    BY <1>10, DeployEffect DEF SameSecrets
  <2> QED BY <2>1, <2>2
<1>11. CASE TransportURL
  <2>1. UNCHANGED <<api, held, cfg, pods>> /\ pc = "transport"
    BY <1>11 DEF TransportURL, holdVars, cfgVars, runVars
  <2>2. /\ pc' \notin {"memcached", "config"}
        /\ inst'.tsec = inst.tsec \/ inst'.tsec = turl.sec
    BY <1>11, TransportEffect DEF SameSecrets
  <2>3. \A p \in Pods : pods[p].cfg.sec < cfg.sec => pods[p].cfg.sec # turl.sec
    BY DEF OrderInv
  <2> QED BY <2>1, <2>2, <2>3
<1>12. CASE GenerateServiceConfigMaps
  <2>1. UNCHANGED <<api, held, pods>> /\ pc = "config"
    BY <1>12 DEF GenerateServiceConfigMaps, holdVars, runVars
  <2>2. cfg'.sec = inst.cur /\ pc' = "fernet" /\ inst'.tsec = inst.tsec
    BY <1>12, ConfigEffect DEF SameSecrets
  <2>3. cfg.sec <= inst.cur
    BY <2>1 DEF OrderInv, Held
  <2> QED BY <2>1, <2>2, <2>3
<1>13. CASE FinalizeSecretRotation
  <2>1. UNCHANGED <<api, cfg, pods>> /\ pc = "finalize"
    BY <1>13 DEF FinalizeSecretRotation, cfgVars, runVars
  <2>2. /\ cfg.sec = inst.cur /\ ~inst.spec.ext /\ inst.cur # 0
    BY <2>1 DEF RenderedInv, NamedInv, InternalAt, Rendered, FlowInv, Normal
  <2>3. pc' = "prune" /\ inst'.cur = inst.cur
    BY <1>13, FinalizeEffect
  <2>4. CASE inst'.tsec = inst.tsec /\ held' = held
    BY <2>1, <2>3, <2>4
  <2>5. CASE inst.tsec = inst.cur /\ inst'.tsec = inst.cur /\ held' = held \ ({inst.tsec} \ {inst.cur})
    BY <2>1, <2>3, <2>5
  <2>6. CASE inst.ready /\ held' = held \ ({inst.tsec} \ {inst.cur})
    <3>1. \A p \in Pods : pods[p].cfg.sec = inst.cur
      BY <2>2, <2>6, LivePods DEF LiveInv
    <3>2. inst.cur \in held'
      BY <2>2, <2>6
    <3> QED BY <2>1, <2>2, <2>3, <3>1, <3>2
  <2> QED BY <1>13, <2>4, <2>5, <2>6, FinalizeEffect
<1>14. CASE World
  <2>1. UNCHANGED <<api, inst, pc, cfg, held>>
    BY <1>14, WorldEffect
  <2>2. CASE UNCHANGED pods
    BY <2>1, <2>2
  <2>3. ASSUME NEW p \in Pods, ReplacePod(p) \/ RestartPod(p)
        PROVE  \A q \in Running' : pods'[q].cfg.sec \in held' \/ Over(q)'
    <3>1. pods'[p].cfg = cfg /\ \A q \in Pods \ {p} : pods'[q] = pods[q]
      BY <2>3 DEF ReplacePod, RestartPod, TypeOK, Pod
    <3>2. depl.tmpl # NoTemplate
      BY <2>3 DEF ReplacePod, RestartPod, SchemaInv, NoPod
    <3>3. cfg.sec \in held
      BY <3>2 DEF NamedInv
    <3> QED BY <2>1, <3>1, <3>3
  <2> QED
    BY <1>14, <2>1, <2>2, <2>3
       DEF World, IssueSecret, InputArrives, InputVanishes, JobFinishes, ObserveDeployment, vars, runVars
<1> QED
  BY <1>1, <1>2, <1>3, <1>4, <1>5, <1>6, <1>7, <1>8, <1>9, <1>10, <1>11, <1>12, <1>13, <1>14, Kinds
     DEF Noting, Quiet

\* OnlyOvertakenReleased: however often the bus Secret is rotated while a rollout is
\* under way, the finalizer is taken off a Secret that a running pod was configured
\* from only if a later one has been rendered and the status does not name it.
THEOREM OnlyOvertakenReleased == Spec => []OvertakenOnly
<1> DEFINE Inv == BaseInv /\ NamedInv /\ OvertakenInv
<1>1. Init => Inv
  BY BaseInit, NamedInit
<1>2. Inv /\ [Next]_vars => Inv'
  <2> SUFFICES ASSUME BaseInv, NamedInv, OvertakenInv, [Next]_vars
               PROVE  BaseInv' /\ NamedInv' /\ OvertakenInv'
    OBVIOUS
  <2> QED BY BaseStep, NamedStep, OvertakenStep
<1>3. Inv => OvertakenOnly
  BY DEF OvertakenInv, OvertakenOnly
<1>4. Spec => []Inv
  <2> HIDE DEF Inv
  <2> QED BY <1>1, <1>2, PTL DEF Spec
<1> QED BY <1>3, <1>4, PTL

----------------------------------------------------------------------------
(* Deletion *)

\* The KeystoneAPI, under the account it names, holds none of its dependencies, of the
\* bus Secrets neither the one of the status nor the newest.
Clean(acct, sec) ==
  ~mcHeld /\ ~dbHeld /\ acct \notin accHeld /\ held \cap {sec, turl.sec} = {}

\* A KeystoneAPI that is gone has let go of what it depends on, and of the bus Secrets
\* at both ends of whatever rotations were pending.
EndsReleased == api.gone /\ ~api.spec.ext => Clean(api.spec.acct, api.tsec)

\* A KeystoneAPI has the finalizer from its first patch to its last, nothing is held
\* before the first, and nothing is left at the last: deletion lets go of one object
\* after the other, and none of them is held again in between.
DeletionInv ==
  /\ ~api.gone => (api.fin <=> api.init)
  /\ ~api.init => /\ pc \in {"idle", "patch"}
                  /\ held = {} /\ ~mcHeld /\ ~dbHeld /\ accHeld = {}
  /\ api.deleting /\ ~api.gone => api.fin
  /\ pc \in {"unhold_db", "unhold_old", "unhold_new"} => ~mcHeld
  /\ pc \in {"unhold_old", "unhold_new"} => ~dbHeld /\ inst.spec.acct \notin accHeld
  /\ pc = "unhold_new" => inst.tsec \notin held
  /\ pc # "idle" /\ ~inst.fin => /\ pc = "patch" /\ inst.deleting
                                 /\ ~inst.spec.ext => Clean(inst.spec.acct, inst.tsec)
  /\ api.gone => /\ api.deleting /\ pc \in {"idle", "patch"}
                 /\ ~api.spec.ext => Clean(api.spec.acct, api.tsec)

\* Nothing is being deleted at first.
LEMMA DeletionInit == Init => DeletionInv
BY DEF Init, DeletionInv

\* Every step keeps: what the deletion has passed has been released.
LEMMA DeletionStep ==
  ASSUME BaseInv, NamedInv, DeletionInv, [Next]_vars
  PROVE  DeletionInv'
<1> TypeOK /\ FlowInv
  BY DEF BaseInv
<1> {api.fin, api.init, api.gone, api.deleting, inst.fin} \subseteq BOOLEAN
  BY DEF TypeOK, API, Instance
<1> USE DEF DeletionInv, Clean
<1>1. CASE Reconcile
  <2>1. UNCHANGED <<api, held, accHeld, mcHeld, dbHeld, turl>> /\ ~api.gone /\ pc = "idle"
    BY <1>1 DEF Reconcile, holdVars, envVars, worldVars
  <2> QED BY <1>1, <2>1, ReconcileEffect
<1>2. CASE Patch
  <2>1. UNCHANGED <<held, accHeld, mcHeld, dbHeld, turl>> /\ pc = "patch"
    BY <1>2 DEF Patch, holdVars, envVars, worldVars
  <2>2. /\ pc' = "idle" /\ api'.spec = api.spec /\ api'.deleting = api.deleting
        /\ \/ api.gone /\ api' = api
           \/ /\ ~api.gone /\ api'.fin = inst.fin /\ api'.init = TRUE
              /\ api'.tsec = inst.tsec /\ api'.gone = (api.deleting /\ ~inst.fin)
    BY <1>2, PatchEffect
  <2>3. inst.deleting => api.deleting /\ inst.spec = api.spec
    BY DEF FlowInv
  <2> QED BY <2>1, <2>2, <2>3
<1>3. CASE Crash
  BY <1>3 DEF Crash, holdVars, envVars
<1>4. CASE ReleaseNewSecret
  <2>1. /\ UNCHANGED <<api, accHeld, mcHeld, dbHeld, turl>> /\ pc = "unhold_new"
        /\ held' = held \ {turl.sec}
    BY <1>4 DEF ReleaseNewSecret, envVars, worldVars
  <2>2. /\ inst'.spec = inst.spec /\ inst'.deleting = inst.deleting /\ inst'.tsec = inst.tsec
        /\ pc' = "patch"
    BY <1>4, ReleaseNewEffect DEF SameSecrets
  <2>3. inst.deleting /\ ~inst.spec.ext
    BY <2>1 DEF FlowInv, Deletion
  <2>4. held' \cap {inst.tsec, turl.sec} = {}
    BY <2>1
  <2> QED BY <2>1, <2>2, <2>3, <2>4
<1>5. CASE EditSpec
  <2>1. UNCHANGED <<inst, pc, held, accHeld, mcHeld, dbHeld, turl>>
    BY <1>5 DEF EditSpec, holdVars, envVars, worldVars
  <2>2. /\ ~api.gone /\ api'.gone = api.gone /\ api'.fin = api.fin /\ api'.init = api.init
        /\ ~api.deleting /\ api'.deleting = api.deleting
    BY <1>5, EditEffect DEF TypeOK, API
  <2> QED BY <2>1, <2>2
<1>6. CASE DeleteAPI
  <2>1. UNCHANGED <<inst, pc, held, accHeld, mcHeld, dbHeld, turl>>
    BY <1>6 DEF DeleteAPI, holdVars, envVars, worldVars
  <2>2. /\ ~api.gone /\ api'.gone = ~api.fin /\ api'.fin = api.fin /\ api'.init = api.init
        /\ api'.deleting = TRUE
    BY <1>6, DeleteEffect
  <2> QED BY <2>1, <2>2
<1>7. CASE Passing
  <2>1. UNCHANGED <<api, inst>> /\ pc # "idle"
    BY <1>7, PassingEffect
  <2>2. CASE pc = "patch"
    BY <1>7, <2>2
       DEF Passing, VerifySecret, EnsureDB, HoldSecret, Memcached, VerifyInputs, ReleaseAccounts,
           ReconcileCloudConfig, PruneSecretConsumerFinalizers, ReleaseMemcached, ReleaseDB,
           ReleaseOldSecret, CallFails
  <2>3. CASE pc # "patch"
    <3>1. inst.fin /\ api.init /\ ~api.gone
      BY <2>1, <2>3
    <3>2. CASE ReleaseMemcached
      BY <2>1, <3>1, <3>2 DEF ReleaseMemcached, Goto
    <3>3. CASE ReleaseDB
      BY <2>1, <3>1, <3>3 DEF ReleaseDB, Goto
    <3>4. CASE ReleaseOldSecret
      BY <2>1, <3>1, <3>4 DEF ReleaseOldSecret, Goto
    <3>5. CASE Passing /\ ~ReleaseMemcached /\ ~ReleaseDB /\ ~ReleaseOldSecret
      <4>1. pc' \notin {"unhold_db", "unhold_old", "unhold_new"}
        BY <3>5, PassingFlow
      <4> QED BY <2>1, <3>1, <4>1
    <3> QED BY <1>7, <3>2, <3>3, <3>4, <3>5
  <2> QED BY <2>2, <2>3
<1>8. CASE Noting
  <2>1. UNCHANGED <<api, accHeld, mcHeld, dbHeld>> /\ pc # "idle" /\ inst'.fin = inst.fin
    BY <1>8, NotingEffect DEF SameObject
  <2>2. pc # "patch" /\ pc' \notin {"unhold_db", "unhold_old", "unhold_new"}
    <3>1. pc # "patch"
      BY <1>8
         DEF Noting, TransportURL, GenerateServiceConfigMaps, EnsureFernetKeys, DbSync, CreateServices,
             Bootstrap, Deploy, DeploymentReady, CreateCronJob, FinalizeSecretRotation, ReconcileExternal
    <3>2. pc' \notin {"unhold_db", "unhold_old", "unhold_new"}
      BY <1>8, TransportEffect, ConfigEffect, FernetEffect, DbSyncEffect, ServicesEffect, BootstrapEffect,
         DeployEffect, ReadyEffect, CronEffect, FinalizeEffect, ExternalEffect DEF Noting
    <3> QED BY <3>1, <3>2
  <2>3. inst.fin /\ api.init /\ ~api.gone
    BY <2>1, <2>2
  <2> QED BY <2>1, <2>2, <2>3
<1>9. CASE World
  <2>1. UNCHANGED <<api, inst, pc, held, accHeld, mcHeld, dbHeld>>
    BY <1>9, WorldEffect
  <2>2. CASE IssueSecret
    <3>1. turl'.sec = turl.sec + 1 /\ ~api.gone
      BY <2>2 DEF IssueSecret, TypeOK
    <3>2. turl'.sec \notin 1..turl.sec
      BY <3>1, Numbers
    <3>3. turl'.sec \notin held
      BY <3>2, Zenon DEF NamedInv
    <3> QED BY <2>1, <3>1, <3>3
  <2>3. CASE UNCHANGED turl
    BY <2>1, <2>3
  <2> QED
    BY <1>9, <2>2, <2>3
       DEF World, InputArrives, InputVanishes, JobFinishes, ObserveDeployment, ReplacePod,
           RestartPod, vars, runVars, envVars, worldVars
<1> QED BY <1>1, <1>2, <1>3, <1>4, <1>5, <1>6, <1>7, <1>8, <1>9, Kinds

\* DeletionReleasesEnds: however often the bus Secret is rotated, a KeystoneAPI that is
\* gone holds neither Memcached, database and account nor the Secret its status named
\* or the newest one, wherever its deletion was interrupted.
THEOREM DeletionReleasesEnds == Spec => []EndsReleased
<1> DEFINE Inv == BaseInv /\ NamedInv /\ DeletionInv
<1>1. Init => Inv
  BY BaseInit, NamedInit, DeletionInit
<1>2. Inv /\ [Next]_vars => Inv'
  <2> SUFFICES ASSUME BaseInv, NamedInv, DeletionInv, [Next]_vars
               PROVE  BaseInv' /\ NamedInv' /\ DeletionInv'
    OBVIOUS
  <2> QED BY BaseStep, NamedStep, DeletionStep
<1>3. Inv => EndsReleased
  BY DEF DeletionInv, EndsReleased
<1>4. Spec => []Inv
  <2> HIDE DEF Inv
  <2> QED BY <1>1, <1>2, PTL DEF Spec
<1> QED BY <1>3, <1>4, PTL

\* NothingStaysStranded: if the bus Secret is rotated again only after the status names
\* it, these two are all there is: a KeystoneAPI that is gone has left no finalizer on
\* any bus Secret, wherever in a rotation or a rollout it was when it was deleted.
THEOREM NothingStaysStranded == ~Rapid /\ Spec => []NothingStranded
<1>1. ~Rapid /\ Spec => []TransportInv
  BY TransportInit, TransportStep, PTL DEF Spec
<1>2. TransportInv => HeldInv
  BY DEF TransportInv
<1>3. HeldInv /\ EndsReleased => NothingStranded
  BY DEF HeldInv, EndsReleased, Clean, NothingStranded
<1> QED BY <1>1, <1>2, <1>3, DeletionReleasesEnds, PTL
=============================================================================
