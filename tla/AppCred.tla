------------------------------ MODULE AppCred ------------------------------
(***************************************************************************)
(* The KeystoneApplicationCredential controller                            *)
(* (internal/controller/keystoneapplicationcredential_controller.go): one  *)
(* custom resource (CR), the application credentials (ACs) it owns in      *)
(* Keystone, the immutable Secrets that carry them, the service operator   *)
(* that consumes them and the EDPM nodes they are deployed to.             *)
(*                                                                         *)
(* A reconcile is a sequence of steps, one per call to the Kubernetes API  *)
(* or to Keystone, with `pc' saying what comes next.  Everything the       *)
(* reconcile keeps in memory (`inst', `listed', ...) is lost when it ends  *)
(* or the operator crashes.  Reads of the CR, and reads of a single        *)
(* Secret, are served by the informer caches crCache and secCache, which   *)
(* lag behind the API server; the label-based list of Secrets is not       *)
(* cached.  Update is refused when the object has changed since it was     *)
(* read (resourceVersion), Delete and the final status patch are not.      *)
(*                                                                         *)
(* Left out: roles, access rules and the secret text of a credential (the  *)
(* security hash of a spec version is what matters), conditions other than *)
(* "the CR has been seen", events, logging, and the clock: an AC is in     *)
(* `due' when expiresAt - gracePeriodDays has passed.                      *)
(***************************************************************************)
EXTENDS Naturals, FiniteSets

CONSTANTS
  ACIDs,          \* the IDs Keystone may give to application credentials
  Names,          \* names of Secrets in the namespace
  acSecretName,   \* acSecretName[id]: the Secret name, from 5 characters of id
  LegacyName,     \* the name used by releases with one mutable Secret
  None,           \* the empty string
  MaxSpec,        \* the CR's spec is edited at most MaxSpec times
  SecurityHash,   \* SecurityHash[v]: hash of the security fields of version v
  StaleCR,        \* may a reconcile start from a status older than its own last patch?
  SecretLag,      \* may the Secret cache lag behind the API server?
  EDPMService,    \* is the CR's edpm-service annotation other than "false"?
  Consumer,       \* "none"; "prompt": it attaches only to the current or previous
                  \* Secret; "slow": it may attach to one long rotated away
  UserOps,        \* what users do: subset of {"edit", "delete", "grace", "remove"}
  Faults,         \* what may go wrong: subset of {"call", "lost", "patch", "crash"}
  FaultsEnd       \* do the faults stop at some point?

ASSUME ConstantsAssumption ==
  /\ None \notin ACIDs /\ None \notin Names
  /\ acSecretName \in [ACIDs -> Names]
  /\ LegacyName \in Names
  /\ MaxSpec \in Nat
  /\ None \notin {SecurityHash[v] : v \in 0..MaxSpec}
  /\ {StaleCR, SecretLag, EDPMService, FaultsEnd} \subseteq BOOLEAN
  /\ Consumer \in {"none", "prompt", "slow"}
  /\ UserOps \subseteq {"edit", "delete", "grace", "remove"}
  /\ Faults \subseteq {"call", "lost", "patch", "crash"}

VARIABLES
  cr, crCache,          \* the CR in the API server, and in the informer cache
  secrets, secCache,    \* the Secrets, likewise
  live, used,           \* ACs that Keystone holds; IDs ever given out
  due,                  \* ACs whose rotation time has passed
  want, use,            \* consumer: Secret to switch to, Secret switched from
  conf, nodes,          \* AC in the rendered config; AC deployed on EDPM nodes
  calm,                 \* no fault happens any more
  pc,                   \* next step of the reconcile
  inst, base,           \* the CR in memory, and as it was read (helper.Helper)
  newID,                \* AC created by this reconcile
  listed, todo, cur     \* listed Secrets, those still to process, the one in hand

crVars == <<cr, crCache>>
secVars == <<secrets, secCache>>
ksVars == <<live, used, due>>
userVars == <<want, use, conf, nodes, calm>>
memVars == <<inst, base, newID, listed, todo, cur>>
vars == <<crVars, secVars, ksVars, userVars, pc, memVars>>

----------------------------------------------------------------------------
(* Objects *)

\* What may go wrong now: "call", a call to Keystone or to the API server fails;
\* "lost", it takes effect and its answer is lost; "patch", the final patch
\* fails, wholly or for the status only; "crash", the operator restarts.
MayFail(kind) == ~calm /\ kind \in Faults
CallFails == MayFail("call")

Hashes == {SecurityHash[v] : v \in 0..MaxSpec}
AC == ACIDs \cup {None}
Name == Names \cup {None}

\* A KeystoneApplicationCredential: metadata, spec and the status fields that
\* a later reconcile reads back.
CR == [exists: BOOLEAN, deleting: BOOLEAN, fin: BOOLEAN, init: BOOLEAN,
       spec: 0..MaxSpec, acid: AC, sec: Name, prev: Name,
       hash: Hashes \cup {None}]

NewCR == [exists |-> TRUE, deleting |-> FALSE, fin |-> FALSE, init |-> FALSE,
          spec |-> 0, acid |-> None, sec |-> None, prev |-> None, hash |-> None]

\* A Secret: its AC_ID, the protection finalizer, the consumer finalizer, the
\* application-credential-service label and its deletion timestamp.
Secret == [ex: BOOLEAN, acid: AC, fin: BOOLEAN, held: BOOLEAN,
           label: BOOLEAN, term: BOOLEAN]

NoSecret == [ex |-> FALSE, acid |-> None, fin |-> FALSE, held |-> FALSE,
             label |-> FALSE, term |-> FALSE]

ImmutableSecret(id) == [ex |-> TRUE, acid |-> id, fin |-> TRUE, held |-> FALSE,
                        label |-> TRUE, term |-> FALSE]

\* An object marked for deletion disappears with its last finalizer.
Settled(s) == IF s.term /\ ~s.fin /\ ~s.held THEN NoSecret ELSE s

\* A Delete call: an existing object is marked, and goes if nothing holds it.
Deleted(s) == IF s.ex THEN Settled([s EXCEPT !.term = TRUE]) ELSE s

GoneCR(c) == IF c.deleting /\ ~c.fin THEN [c EXCEPT !.exists = FALSE] ELSE c

\* What a Get of one Secret answers.
SecretView == IF SecretLag THEN secCache ELSE secrets

----------------------------------------------------------------------------
(* Initial states: a CR just created, or one left by an older release whose *)
(* single Secret lacks the service label and whose status lacks the hash.   *)

PCs == {"idle", "decide", "create", "store", "unstore", "label", "gate", "list",
        "next", "strip", "delete", "dgate", "dlabel", "dlist", "dnext",
        "dstrip", "patch"}

NoMem ==
  /\ inst = NewCR /\ base = NewCR /\ newID = None
  /\ listed = [n \in Names |-> NoSecret] /\ todo = {} /\ cur = None

FreshInit ==
  /\ cr = NewCR
  /\ secrets = [n \in Names |-> NoSecret]
  /\ live = {} /\ used = {}

UpgradedInit ==
  \E id \in ACIDs :
    /\ cr = [NewCR EXCEPT !.fin = TRUE, !.init = TRUE, !.acid = id, !.sec = LegacyName]
    /\ secrets = [n \in Names |->
         IF n = LegacyName THEN [ImmutableSecret(id) EXCEPT !.label = FALSE]
         ELSE NoSecret]
    /\ live = {id} /\ used = {id}

Init ==
  /\ FreshInit \/ UpgradedInit
  /\ crCache = cr /\ secCache = secrets /\ due = {}
  /\ want = None /\ use = None /\ conf = None /\ nodes = None
  /\ calm = (Faults = {})
  /\ pc = "idle" /\ NoMem

----------------------------------------------------------------------------
(* Reconcile: entry, rotation decision *)

\* The cached status is the one this controller wrote last.
ReadsOwnWrites ==
  /\ crCache.acid = cr.acid /\ crCache.sec = cr.sec /\ crCache.prev = cr.prev
  /\ crCache.hash = cr.hash

Goto(label) == pc' = label /\ UNCHANGED memVars

\* The reconcile returns: its locals are gone, the CR in memory is patched next.
NoLocals == newID' = None /\ listed' = [n \in Names |-> NoSecret] /\ todo' = {} /\ cur' = None
Return(ac) == pc' = "patch" /\ inst' = ac /\ UNCHANGED base /\ NoLocals

\* Reconcile() up to the call of reconcileNormal or reconcileDelete: a CR seen
\* for the first time only gets its finalizer and its conditions; a deleted
\* one goes to reconcileDelete whether or not the KeystoneAPI is ready; any
\* other waits for the KeystoneAPI.  Both end early if it cannot be read.
Reconcile ==
  /\ pc = "idle" /\ crCache.exists
  /\ StaleCR \/ ReadsOwnWrites
  /\ base' = crCache
  /\ \/ /\ ~crCache.deleting /\ (~crCache.fin \/ ~crCache.init)
        /\ inst' = [crCache EXCEPT !.fin = TRUE, !.init = TRUE]
        /\ pc' = "patch"
     \/ /\ ~crCache.deleting /\ crCache.fin /\ crCache.init
        /\ inst' = crCache
        /\ pc' = "decide" \/ (CallFails /\ pc' = "patch")
     \/ /\ crCache.deleting
        /\ inst' = [crCache EXCEPT !.init = TRUE]
        /\ pc' = "dgate" \/ (CallFails /\ pc' = "patch")
  /\ UNCHANGED <<crVars, secVars, ksVars, userVars, newID, listed, todo, cur>>

needsRotation(ac) ==
  \/ ac.acid = None
  \/ ac.hash # None /\ ac.hash # SecurityHash[ac.spec]
  \/ ac.acid \in due

SecretMissing(ac) == ac.sec # None /\ ~SecretView[ac.sec].ex

\* Mutant: only a CR without a credential gets one.
DecideMutant ==
  /\ pc = "decide"
  /\ Goto(IF inst.acid = None THEN "create" ELSE "label")
  /\ UNCHANGED <<crVars, secVars, ksVars, userVars>>

Decide ==
  /\ pc = "decide"
  /\ \/ Goto(IF needsRotation(inst) \/ SecretMissing(inst) THEN "create" ELSE "label")
     \/ CallFails /\ inst.sec # None /\ Return(inst)
  /\ UNCHANGED <<crVars, secVars, ksVars, userVars>>

----------------------------------------------------------------------------
(* Creation and rotation *)

\* createACWithName: Keystone answers with a fresh ID.
CreateAC(id) ==
  /\ pc = "create" /\ id \in ACIDs \ used
  /\ live' = live \cup {id} /\ used' = used \cup {id}
  /\ newID' = id /\ pc' = "store"
  /\ UNCHANGED <<due, crVars, secVars, userVars, inst, base, listed, todo, cur>>

\* No client, no user ID, or an error from Keystone.  When the answer is lost
\* the credential exists all the same.
CreateACFails ==
  /\ pc = "create"
  /\ \/ /\ CallFails \/ used = ACIDs
        /\ UNCHANGED <<live, used>>
     \/ /\ MayFail("lost")
        /\ \E id \in ACIDs \ used : live' = live \cup {id} /\ used' = used \cup {id}
  /\ Return(inst)
  /\ UNCHANGED <<due, crVars, secVars, userVars>>

\* Mutant: the status names the credential where the Secret belongs.
RotatedStatusMutant(ac, id) ==
  [ac EXCEPT !.prev = ac.sec, !.acid = id, !.sec = id, !.hash = SecurityHash[ac.spec]]

\* The status after a creation or rotation (reconcileNormal, after the Secret).
RotatedStatus(ac, id) ==
  [ac EXCEPT !.prev = IF ac.acid # None /\ ac.sec # None THEN ac.sec ELSE @,
             !.acid = id,
             !.sec = acSecretName[id],
             !.hash = SecurityHash[ac.spec]]

\* Mutant: any existing Secret of that name is accepted.
ExistingMutant(n) == SecretView[n].ex

\* An existing Secret of that name is accepted only if it holds this very AC.
ExistingMatches(n) == SecretView[n].ex /\ SecretView[n].acid = newID

\* createImmutableACSecret, then the status in memory.
StoreSecret ==
  /\ pc = "store"
  /\ LET n == acSecretName[newID] IN
       /\ secrets[n].ex => ExistingMatches(n)
       /\ secrets' = IF secrets[n].ex THEN secrets
                     ELSE [secrets EXCEPT ![n] = ImmutableSecret(newID)]
  /\ Return(RotatedStatus(inst, newID))
  /\ UNCHANGED <<crVars, secCache, ksVars, userVars>>

\* The name is taken by another AC (same 5 characters), or the call fails,
\* perhaps after it took effect.
StoreSecretFails ==
  /\ pc = "store"
  /\ LET n == acSecretName[newID] IN
       \/ /\ CallFails \/ (secrets[n].ex /\ ~ExistingMatches(n))
          /\ UNCHANGED secrets
       \/ /\ MayFail("lost") /\ ~secrets[n].ex
          /\ secrets' = [secrets EXCEPT ![n] = ImmutableSecret(newID)]
  /\ Goto("unstore")
  /\ UNCHANGED <<crVars, secCache, ksVars, userVars>>

\* Mutant: the AC in status is revoked instead of the new one.
RevokeOldMutant ==
  /\ pc = "unstore"
  /\ live' = live \ {inst.acid}
  /\ Return(inst)
  /\ UNCHANGED <<used, due, crVars, secVars, userVars>>

\* The new AC is revoked, best effort, and the error returned.
RevokeNew ==
  /\ pc = "unstore"
  /\ live' = live \ {newID} \/ (CallFails /\ live' = live)
  /\ Return(inst)
  /\ UNCHANGED <<used, due, crVars, secVars, userVars>>

----------------------------------------------------------------------------
(* No rotation: labels, then the cleanup of unused rotated Secrets *)

StatusNames(ac) == {ac.sec, ac.prev} \ {None}

\* The Secrets ensureServiceLabel updates: read without the label, unchanged since.
Unlabelled ==
  {n \in StatusNames(inst) :
     SecretView[n].ex /\ ~SecretView[n].label /\ secrets[n] = SecretView[n]}

\* ensureServiceLabel on the current and the previous Secret; a failure is logged.
EnsureServiceLabel ==
  /\ pc \in {"label", "dlabel"}
  /\ \E L \in SUBSET Unlabelled :
       /\ CallFails \/ L = Unlabelled
       /\ secrets' = [n \in Names |->
            IF n \in L THEN [secrets[n] EXCEPT !.label = TRUE] ELSE secrets[n]]
  /\ Goto(IF pc = "label" THEN "gate" ELSE "dlist")
  /\ UNCHANGED <<crVars, secCache, ksVars, userVars>>

\* edpm.AreSecretHashesInSync: the nodes run what the config Secret says.
HashesInSync == nodes = conf

\* Mutant: without EDPM there is no cleanup.
CleanupGateMutant ==
  /\ pc = "gate"
  /\ \/ (EDPMService /\ HashesInSync) /\ Goto("list")
     \/ (EDPMService => ~HashesInSync) /\ Return(inst)
     \/ CallFails /\ Return(inst)
  /\ UNCHANGED <<crVars, secVars, ksVars, userVars>>

\* The Keystone client and the EDPM check; without either the cleanup is skipped.
CleanupGate ==
  /\ pc = "gate"
  /\ \/ (EDPMService => HashesInSync) /\ Goto("list")
     \/ (EDPMService /\ ~HashesInSync) /\ Return(inst)
     \/ CallFails /\ Return(inst)
  /\ UNCHANGED <<crVars, secVars, ksVars, userVars>>

LabelledSecrets ==
  [n \in Names |-> IF secrets[n].ex /\ secrets[n].label THEN secrets[n] ELSE NoSecret]

\* Mutant: the consumer finalizer is not recognised.
NoConsumerMutant(s) == FALSE

hasConsumerFinalizer(s) == s.held

\* Mutant: the previous Secret is not kept.
UnusedMutant(s, n, ac) == s[n].ex /\ n # ac.sec /\ ~hasConsumerFinalizer(s[n])

Unused(s, n, ac) ==
  s[n].ex /\ n # ac.sec /\ n # ac.prev /\ ~hasConsumerFinalizer(s[n])

\* oko_secret.GetSecrets, and which of the listed Secrets are to go.
CleanupList ==
  /\ pc = "list"
  /\ listed' = LabelledSecrets
  /\ todo' = {n \in Names : Unused(LabelledSecrets, n, inst)}
  /\ pc' = "next"
  /\ UNCHANGED <<crVars, secVars, ksVars, userVars, inst, base, newID, cur>>

\* Mutant: a failed revocation is only logged, as it is in the deletion.
CleanupRevokeMutant(n) ==
  /\ pc = "next" /\ n \in todo
  /\ live' = live \ {listed[n].acid} \/ (CallFails /\ live' = live)
  /\ cur' = n /\ todo' = todo \ {n}
  /\ pc' = "strip"
  /\ UNCHANGED <<used, due, crVars, secVars, userVars, inst, base, newID, listed>>

\* revokeKeystoneAC for the next unused Secret; 404 counts as revoked.
CleanupRevoke(n) ==
  /\ pc = "next" /\ n \in todo
  /\ live' = live \ {listed[n].acid}
  /\ cur' = n /\ todo' = todo \ {n}
  /\ pc' = "strip"
  /\ UNCHANGED <<used, due, crVars, secVars, userVars, inst, base, newID, listed>>

\* An Update of a listed Secret is refused when it has changed since.
Conflict(n) == secrets[n] # listed[n]

\* The listed copy without the protection finalizer is written back.
Unprotect(n) == secrets' = [secrets EXCEPT ![n] = Settled([listed[n] EXCEPT !.fin = FALSE])]

CleanupStrip ==
  /\ pc = "strip"
  /\ \/ listed[cur].fin /\ ~Conflict(cur)
        /\ Unprotect(cur) /\ Goto("delete")
     \/ listed[cur].fin /\ Conflict(cur)
        /\ UNCHANGED secrets /\ Return(inst)
     \/ ~listed[cur].fin
        /\ UNCHANGED secrets /\ Goto("delete")
  /\ UNCHANGED <<crVars, secCache, ksVars, userVars>>

CleanupDelete ==
  /\ pc = "delete"
  /\ secrets' = [secrets EXCEPT ![cur] = Deleted(@)]
  /\ Goto("next")
  /\ UNCHANGED <<crVars, secCache, ksVars, userVars>>

\* An error from Keystone or the API server ends the cleanup; the reconcile
\* still succeeds.
CleanupEnds ==
  /\ \/ pc = "next" /\ todo = {}
     \/ CallFails /\ pc \in {"list", "next", "strip", "delete"}
  /\ Return(inst)
  /\ UNCHANGED <<crVars, secVars, ksVars, userVars>>

----------------------------------------------------------------------------
(* reconcileDelete *)

\* Deletion waits until the EDPM nodes are in sync.
DeleteGate ==
  /\ pc = "dgate"
  /\ \/ (EDPMService => HashesInSync) /\ Goto("dlabel")
     \/ EDPMService /\ (~HashesInSync \/ CallFails) /\ Return(inst)
  /\ UNCHANGED <<crVars, secVars, ksVars, userVars>>

\* Mutant: only the Secrets the status names are processed.
DeleteListMutant ==
  /\ pc = "dlist"
  /\ listed' = LabelledSecrets
  /\ todo' = {n \in StatusNames(inst) : LabelledSecrets[n].ex}
  /\ pc' = "dnext"
  /\ UNCHANGED <<inst, base, newID, cur, crVars, secVars, ksVars, userVars>>

DeleteList ==
  /\ pc = "dlist"
  /\ \/ /\ listed' = LabelledSecrets
        /\ todo' = {n \in Names : LabelledSecrets[n].ex}
        /\ pc' = "dnext"
        /\ UNCHANGED <<inst, base, newID, cur>>
     \/ CallFails /\ Return(inst)
  /\ UNCHANGED <<crVars, secVars, ksVars, userVars>>

\* Best-effort revocation: no client, or an error, and the pass goes on.
DeleteRevoke(n) ==
  /\ pc = "dnext" /\ n \in todo
  /\ live' = live \ {listed[n].acid} \/ (CallFails /\ live' = live)
  /\ cur' = n /\ todo' = todo \ {n}
  /\ pc' = "dstrip"
  /\ UNCHANGED <<used, due, crVars, secVars, userVars, inst, base, newID, listed>>

DeleteStrip ==
  /\ pc = "dstrip"
  /\ \/ listed[cur].fin /\ ~Conflict(cur)
        /\ Unprotect(cur) /\ Goto("dnext")
     \/ listed[cur].fin /\ (Conflict(cur) \/ CallFails)
        /\ UNCHANGED secrets /\ Return(inst)
     \/ ~listed[cur].fin
        /\ UNCHANGED secrets /\ Goto("dnext")
  /\ UNCHANGED <<crVars, secCache, ksVars, userVars>>

\* Secrets the status names that the list did not show, and those that carry the finalizer.
Unprocessed == {n \in StatusNames(inst) : ~listed[n].ex}
Fallback == {n \in Unprocessed : SecretView[n].ex /\ SecretView[n].fin}

\* Mutant: a CR whose status names no Secret is taken for one without finalizer.
DeleteFallbackMutant ==
  /\ pc = "dnext" /\ todo = {}
  /\ secrets' = [n \in Names |->
       IF n \in Fallback THEN Settled([secrets[n] EXCEPT !.fin = FALSE]) ELSE secrets[n]]
  /\ Return([inst EXCEPT !.fin = StatusNames(inst) = {}])
  /\ UNCHANGED <<crVars, secCache, ksVars, userVars>>

\* The fallback pass, in any prefix before an error; when it completes the
\* CR's own finalizer goes too.
DeleteFallback ==
  /\ pc = "dnext" /\ todo = {}
  /\ \E S \in SUBSET {n \in Fallback : secrets[n] = SecretView[n]} :
       /\ secrets' = [n \in Names |->
            IF n \in S THEN Settled([secrets[n] EXCEPT !.fin = FALSE]) ELSE secrets[n]]
       /\ \/ S = Fallback /\ Return([inst EXCEPT !.fin = FALSE])
          \/ /\ \/ CallFails /\ S # Unprocessed
                \/ \E n \in Fallback : secrets[n] # SecretView[n]
             /\ Return(inst)
  /\ UNCHANGED <<crVars, secCache, ksVars, userVars>>

----------------------------------------------------------------------------
(* The end of every reconcile *)

\* A merge patch writes the fields that differ from what was read.
Merge(old, before, after) == IF after # before THEN after ELSE old

PatchMetadata(c) == [c EXCEPT !.fin = Merge(@, base.fin, inst.fin)]

PatchStatus(c) ==
  [c EXCEPT !.init = Merge(@, base.init, inst.init),
            !.acid = Merge(@, base.acid, inst.acid),
            !.sec = Merge(@, base.sec, inst.sec),
            !.prev = Merge(@, base.prev, inst.prev),
            !.hash = Merge(@, base.hash, inst.hash)]

Forget ==
  /\ pc' = "idle"
  /\ inst' = NewCR /\ base' = NewCR /\ NoLocals

\* The deferred PatchInstance: metadata, then status; either may fail.
PatchInstance ==
  /\ pc = "patch"
  /\ \/ cr.exists /\ cr' = GoneCR(PatchStatus(PatchMetadata(cr)))
     \/ ~cr.exists /\ cr' = cr
     \/ MayFail("patch") /\ cr.exists /\ cr' \in {cr, GoneCR(PatchMetadata(cr))}
  /\ Forget
  /\ UNCHANGED <<crCache, secVars, ksVars, userVars>>

Crash ==
  /\ MayFail("crash") /\ pc # "idle"
  /\ Forget
  /\ UNCHANGED <<crVars, secVars, ksVars, userVars>>

----------------------------------------------------------------------------
(* The cluster: caches, garbage collection, time and users *)

SyncCR ==
  /\ crCache # cr /\ crCache' = cr
  /\ UNCHANGED <<cr, secVars, ksVars, userVars, pc, memVars>>

SyncSecrets ==
  /\ SecretLag /\ secCache # secrets /\ secCache' = secrets
  /\ UNCHANGED <<crVars, secrets, ksVars, userVars, pc, memVars>>

\* Secrets go with the CR that owns them.
GarbageCollect(n) ==
  /\ ~cr.exists /\ secrets[n].ex /\ ~secrets[n].term
  /\ secrets' = [secrets EXCEPT ![n] = Deleted(@)]
  /\ UNCHANGED <<crVars, secCache, ksVars, userVars, pc, memVars>>

\* The rotation time of the current AC passes, or an admin patches expiresAt
\* (bound: while Keystone has an ID left for the next one).
TimePasses ==
  /\ used # ACIDs
  /\ cr.acid # None /\ cr.acid \notin due /\ due' = due \cup {cr.acid}
  /\ UNCHANGED <<crVars, secVars, live, used, userVars, pc, memVars>>

\* gracePeriodDays is lowered: the rotation time is in the future again.
LowerGrace ==
  /\ "grace" \in UserOps /\ cr.exists /\ ~cr.deleting
  /\ cr.acid \in due /\ due' = due \ {cr.acid}
  /\ UNCHANGED <<crVars, secVars, live, used, userVars, pc, memVars>>

EditSpec ==
  /\ "edit" \in UserOps /\ cr.exists /\ ~cr.deleting /\ cr.spec < MaxSpec
  /\ cr' = [cr EXCEPT !.spec = @ + 1]
  /\ UNCHANGED <<crCache, secVars, ksVars, userVars, pc, memVars>>

DeleteCR ==
  /\ "delete" \in UserOps /\ cr.exists /\ ~cr.deleting
  /\ cr' = GoneCR([cr EXCEPT !.deleting = TRUE])
  /\ UNCHANGED <<crCache, secVars, ksVars, userVars, pc, memVars>>

\* A Secret is removed by hand, finalizers and all.
RemoveSecret(n) ==
  /\ "remove" \in UserOps /\ secrets[n].ex
  /\ secrets' = [secrets EXCEPT ![n] = NoSecret]
  /\ UNCHANGED <<crVars, secCache, ksVars, userVars, pc, memVars>>

----------------------------------------------------------------------------
(* The consumer (a service operator calling ManageACSecretFinalizer) and    *)
(* the EDPM nodes its rendered config is deployed to                        *)

Target == IF want = None THEN None ELSE secrets[want].acid

\* The name in the CR's status reaches the service's CR; a switch under way is
\* given up only if its Secret can no longer be had.
ConsumerNotice ==
  LET n == IF cr.exists /\ ~cr.deleting THEN cr.sec ELSE None IN
  /\ Consumer # "none" /\ n # want
  /\ want = use \/ (want # None /\ ~secrets[want].held /\ (secrets[want].ex => secrets[want].term))
  /\ want' = n
  /\ UNCHANGED <<crVars, secVars, ksVars, use, conf, nodes, calm, pc, memVars>>

ConsumerAttach ==
  /\ want # use /\ want # None
  /\ secrets[want].ex /\ ~secrets[want].term /\ ~secrets[want].held
  /\ Consumer = "prompt" => want \in StatusNames(cr)
  /\ secrets' = [secrets EXCEPT ![want].held = TRUE]
  /\ UNCHANGED <<crVars, secCache, ksVars, userVars, pc, memVars>>

ConsumerRender ==
  /\ want # use /\ (want # None => secrets[want].held)
  /\ conf # Target /\ conf' = Target
  /\ UNCHANGED <<crVars, secVars, ksVars, want, use, nodes, calm, pc, memVars>>

ConsumerRelease ==
  /\ want # use /\ (want # None => secrets[want].held) /\ conf = Target
  /\ use' = want
  /\ secrets' = IF use = None THEN secrets
                ELSE [secrets EXCEPT ![use] = Settled([@ EXCEPT !.held = FALSE])]
  /\ UNCHANGED <<crVars, secCache, ksVars, want, conf, nodes, calm, pc, memVars>>

\* The faults are over.
CalmDown ==
  /\ FaultsEnd /\ ~calm /\ calm' = TRUE
  /\ UNCHANGED <<crVars, secVars, ksVars, want, use, conf, nodes, pc, memVars>>

DeployNodes ==
  /\ EDPMService /\ nodes # conf /\ nodes' = conf
  /\ UNCHANGED <<crVars, secVars, ksVars, want, use, conf, calm, pc, memVars>>

----------------------------------------------------------------------------
Rotation == (\E id \in ACIDs : CreateAC(id)) \/ StoreSecret
RotationFails == CreateACFails \/ StoreSecretFails \/ RevokeNew
Cleanup ==
  \/ EnsureServiceLabel \/ CleanupGate \/ CleanupList
  \/ \E n \in Names : CleanupRevoke(n)
  \/ CleanupStrip \/ CleanupDelete \/ CleanupEnds
Deletion ==
  \/ DeleteGate \/ DeleteList \/ (\E n \in Names : DeleteRevoke(n))
  \/ DeleteStrip \/ DeleteFallback

Controller ==
  \/ Reconcile \/ Decide \/ Rotation \/ RotationFails \/ Cleanup \/ Deletion
  \/ PatchInstance

Cluster ==
  \/ SyncCR \/ SyncSecrets \/ CalmDown
  \/ \E n \in Names : GarbageCollect(n)

Consuming ==
  ConsumerNotice \/ ConsumerAttach \/ ConsumerRender \/ ConsumerRelease \/ DeployNodes

Users ==
  \/ EditSpec \/ DeleteCR \/ TimePasses \/ LowerGrace
  \/ \E n \in Names : RemoveSecret(n)

Next == Controller \/ Crash \/ Cluster \/ Consuming \/ Users

Spec == Init /\ [][Next]_vars

\* A CR that exists is reconciled again and again (requeues, watches and the
\* informers' resync); caches catch up, the garbage collector, the consumer and
\* the EDPM deployments make progress, and faults end.
Fairness ==
  /\ WF_pc(Controller)
  /\ WF_crCache(SyncCR) /\ WF_secCache(SyncSecrets) /\ WF_calm(CalmDown)
  /\ WF_secrets(\E n \in Names : GarbageCollect(n))
  /\ WF_<<use, want, conf, nodes, secrets>>(Consuming)

FairSpec == Spec /\ Fairness

----------------------------------------------------------------------------
(* Properties *)

\* The types of the state; Keystone holds only credentials it has given out.
TypeOK ==
  /\ cr \in CR /\ crCache \in CR /\ inst \in CR /\ base \in CR
  /\ secrets \in [Names -> Secret] /\ secCache \in [Names -> Secret]
  /\ listed \in [Names -> Secret]
  /\ live \subseteq used /\ used \subseteq ACIDs /\ due \subseteq used
  /\ want \in Name /\ use \in Name /\ conf \in AC /\ nodes \in AC /\ calm \in BOOLEAN
  /\ pc \in PCs /\ newID \in AC /\ todo \subseteq Names /\ cur \in Name

\* The credential in Secret n, if it is there, works and cannot vanish.
Usable(n) == secrets[n].ex => secrets[n].acid \in live /\ secrets[n].fin

\* While the CR is not being deleted, the Secrets its status names as current
\* and as previous hold credentials Keystone accepts, under the protection
\* finalizer: whatever the reconciles in flight, the faults and the user do.
CredentialsUsable ==
  cr.exists /\ ~cr.deleting => \A n \in StatusNames(cr) : Usable(n)

\* A service that has put its finalizer on a Secret keeps a working credential
\* until it lets go, however often the controller rotates.
HeldCredentialLive ==
  cr.exists /\ ~cr.deleting =>
    \A n \in Names : secrets[n].held => secrets[n].acid \in live

\* Once the CR is gone no labelled Secret, that is none created since the label
\* was introduced, keeps a protection finalizer that nobody would take off.
NoLabelledOrphan ==
  ~cr.exists => \A n \in Names : secrets[n].label => ~secrets[n].fin

\* Nodes deployed with a credential can go on using it.
EDPMCredentialLive == nodes # None => nodes \in live

(* The inductive invariant behind CredentialsUsable.  It holds when a       *)
(* reconcile reads its own last status and names of Secrets are safe.       *)

DistinctNames ==
  /\ \A a, b \in ACIDs : acSecretName[a] = acSecretName[b] => a = b
  /\ \A a \in ACIDs : acSecretName[a] # LegacyName

\* Names may collide as long as no Secret of the status is removed by hand while
\* the answer to the creation of its namesake is lost: the new Secret would then
\* stand under the old one's name, with a credential that is revoked.
NamesSafe == DistinctNames \/ "remove" \notin UserOps \/ "lost" \notin Faults

\* IDs in the CR, its cached copy and memory were given out by Keystone.
IDsKnown ==
  /\ {cr.acid, crCache.acid, inst.acid, newID} \subseteq used \cup {None}
  /\ pc \in {"store", "unstore"} => newID # None

\* Secrets, also cached ones, hold known IDs and no two hold the same.
SecretsDistinct ==
  /\ \A n \in Names : secrets[n].ex => secrets[n].acid \in used
  /\ \A n \in Names : secCache[n].ex => secCache[n].acid \in used
  /\ \A m, n \in Names :
       secrets[m].ex /\ secrets[n].ex /\ secrets[m].acid = secrets[n].acid => m = n

NameKnown(n) == n = LegacyName \/ \E a \in used : n = acSecretName[a]

\* The names in status are those of known credentials, or the old one.
StatusNamesKnown ==
  /\ \A n \in StatusNames(cr) : NameKnown(n)
  /\ pc = "patch" => \A n \in StatusNames(inst) : NameKnown(n)

\* Only this reconcile writes the status: what it read is what there is, and
\* until it returns it has not changed it in memory either.
SingleWriter ==
  pc # "idle" =>
    /\ base.sec = cr.sec /\ base.prev = cr.prev
    /\ pc # "patch" => inst.sec = cr.sec /\ inst.prev = cr.prev

\* The new credential is in no Secret yet, or only in its own after a lost answer;
\* the status does not name that one.
NewUnstored ==
  pc \in {"store", "unstore"} =>
    /\ DistinctNames => acSecretName[newID] \notin StatusNames(cr)
    /\ \A n \in Names :
         secrets[n].ex /\ secrets[n].acid = newID =>
           /\ pc = "unstore" /\ n = acSecretName[newID]
           /\ cr.exists /\ ~cr.deleting => n \notin StatusNames(cr)
    /\ pc = "store" => newID \in live
    /\ pc = "store" => \A n \in Names : secCache[n].ex => secCache[n].acid # newID

\* The Secrets of the status, also of the one about to be patched, are there unless
\* somebody removes them by hand.
StatusPresent ==
  "remove" \notin UserOps /\ cr.exists /\ ~cr.deleting =>
    \A n \in Names :
      n \in StatusNames(cr) \/ (pc = "patch" /\ n \in StatusNames(inst)) =>
        secrets[n].ex /\ ~secrets[n].term

\* The cleanup works on Secrets outside the status, and no Secret but the one
\* listed holds the credential that is about to be revoked.
CleanupElsewhere ==
  /\ pc = "next" => todo \cap StatusNames(cr) = {}
  /\ pc \in {"strip", "delete"} =>
       todo \cap StatusNames(cr) = {} /\ cur \notin StatusNames(cr) /\ cur # None
  /\ pc \in {"next", "strip", "delete"} =>
       \A m, n \in Names :
         n \in todo /\ secrets[m].ex /\ secrets[m].acid = listed[n].acid => m = n

DeletionPCs == {"dgate", "dlabel", "dlist", "dnext", "dstrip"}

\* Deletion is never taken back.
DeletingSticks ==
  /\ crCache.deleting => cr.deleting
  /\ pc \in DeletionPCs => cr.deleting

\* What the patch is about to put into status is usable already.
PatchSafe ==
  cr.exists /\ ~cr.deleting /\ pc = "patch" => \A n \in StatusNames(inst) : Usable(n)

\* Together: at every point of a reconcile the credentials of the status read,
\* of the status about to be written and of the one in the API server are safe
\* from the reconcile's revocations and deletions.
StatusProtected ==
  /\ IDsKnown /\ SecretsDistinct /\ StatusNamesKnown /\ SingleWriter
  /\ NewUnstored /\ StatusPresent /\ CleanupElsewhere /\ DeletingSticks /\ PatchSafe
  /\ CredentialsUsable

OutOfDate == cr.exists /\ ~cr.deleting /\ (needsRotation(cr) \/ SecretMissing(cr))

\* Bound: a rotation is asked for and ACIDs has no ID left for it.
Exhausted == OutOfDate /\ used = ACIDs

\* A CR whose status asks for a new credential gets one, whatever calls fail.
Rotates == []<>(~OutOfDate \/ Exhausted)

\* A Secret that is neither current nor previous and that no consumer holds does not
\* stay: it is cleaned up although a failed cleanup is not requeued.
CleanedUp ==
  \A n \in Names :
    []<>(~(cr.exists /\ Unused(LabelledSecrets, n, cr)) \/ Exhausted)

\* ... and its credential does not stay in Keystone: a Secret, which is all that
\* knows the credential's ID, loses its protection only when Keystone has revoked it,
\* whatever calls failed in this cleanup or those before.  Only people, and the
\* deletion of the CR, which revokes as well as it can, let go of a live one.
RevokedFirst ==
  [][\A n \in Names :
       /\ secrets[n].fin /\ ~secrets'[n].fin
       /\ ~RemoveSecret(n) /\ pc \notin {"dnext", "dstrip"}
       => secrets[n].acid \notin live']_vars

\* Deleting the CR completes, once the EDPM nodes are in sync, and takes the
\* labelled Secrets with it, once their consumers have let go.
DeletionCompletes ==
  cr.deleting ~> (~cr.exists /\ \A n \in Names : ~secrets[n].label)
=============================================================================
