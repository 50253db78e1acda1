---------------------------- MODULE AppCredProofs ----------------------------
(***************************************************************************)
(* Proofs about AppCred, for every set of credentials, names and spec      *)
(* versions, every behaviour of users and consumers and every fault.       *)
(***************************************************************************)
EXTENDS AppCred, TLAPS

TypeInv == TypeOK /\ IDsKnown

----------------------------------------------------------------------------
(* The types of the objects *)

\* The objects a reconcile starts from and puts into the API server (a new CR, an
\* immutable Secret, one marked for deletion) have their types.
LEMMA ObjectTypes ==
  /\ NewCR \in CR /\ NoSecret \in Secret
  /\ \A s \in Secret : Settled(s) \in Secret /\ Deleted(s) \in Secret
  /\ \A id \in ACIDs : ImmutableSecret(id) \in Secret
  /\ \A c \in CR : GoneCR(c) \in CR
<1>1. NewCR \in CR
  BY ConstantsAssumption DEF NewCR, CR, AC, Name
<1>2. NoSecret \in Secret
  BY DEF NoSecret, Secret, AC
<1>3. ASSUME NEW s \in Secret PROVE Settled(s) \in Secret
  BY <1>2 DEF Settled
<1>4. ASSUME NEW s \in Secret PROVE Deleted(s) \in Secret
  <2>1. [s EXCEPT !.term = TRUE] \in Secret
    BY DEF Secret
  <2> QED BY <1>3, <2>1 DEF Deleted
<1>5. ASSUME NEW id \in ACIDs PROVE ImmutableSecret(id) \in Secret
  BY DEF ImmutableSecret, Secret, AC
<1>6. ASSUME NEW c \in CR PROVE GoneCR(c) \in CR
  BY DEF GoneCR, CR
<1> QED BY <1>1, <1>2, <1>3, <1>4, <1>5, <1>6

\* Changing a finalizer, the label or the deletion mark of a Secret keeps its type.
LEMMA SecretUpdates ==
  ASSUME NEW s \in Secret
  PROVE  /\ [s EXCEPT !.fin = FALSE] \in Secret
         /\ [s EXCEPT !.held = TRUE] \in Secret
         /\ [s EXCEPT !.held = FALSE] \in Secret
         /\ [s EXCEPT !.label = TRUE] \in Secret
         /\ [s EXCEPT !.label = FALSE] \in Secret
BY DEF Secret

\* Changing the metadata or the spec of the CR keeps its type and its credential ID.
LEMMA CRUpdates ==
  ASSUME NEW c \in CR
  PROVE  /\ c.acid \in AC /\ c.sec \in Name /\ c.prev \in Name
         /\ [c EXCEPT !.fin = TRUE, !.init = TRUE] \in CR
         /\ [c EXCEPT !.fin = TRUE, !.init = TRUE].acid = c.acid
         /\ [c EXCEPT !.init = TRUE] \in CR
         /\ [c EXCEPT !.init = TRUE].acid = c.acid
         /\ [c EXCEPT !.fin = FALSE] \in CR
         /\ [c EXCEPT !.fin = FALSE].acid = c.acid
         /\ GoneCR(c) \in CR /\ GoneCR(c).acid = c.acid
BY DEF CR, GoneCR

\* The deferred patch of metadata and status keeps the CR's type; the ID it leaves
\* in status is the one that was there or the one in memory.
LEMMA PatchTypes ==
  ASSUME NEW c \in CR, inst \in CR, base \in CR
  PROVE  /\ PatchMetadata(c) \in CR /\ PatchMetadata(c).acid = c.acid
         /\ PatchStatus(c) \in CR /\ PatchStatus(c).acid \in {c.acid, inst.acid}
<1>1. PatchMetadata(c) \in CR /\ PatchMetadata(c).acid = c.acid
  BY DEF PatchMetadata, Merge, CR
<1>2. Merge(c.init, base.init, inst.init) \in BOOLEAN
  BY DEF Merge, CR
<1>3. Merge(c.acid, base.acid, inst.acid) \in AC \cap {c.acid, inst.acid}
  BY DEF Merge, CR
<1>4. Merge(c.sec, base.sec, inst.sec) \in Name /\ Merge(c.prev, base.prev, inst.prev) \in Name
  BY DEF Merge, CR
<1>5. Merge(c.hash, base.hash, inst.hash) \in Hashes \cup {None}
  BY DEF Merge, CR
<1>6. PatchStatus(c) \in CR /\ PatchStatus(c).acid = Merge(c.acid, base.acid, inst.acid)
  BY <1>2, <1>3, <1>4, <1>5 DEF PatchStatus, CR
<1> QED BY <1>1, <1>3, <1>6

\* The status after a rotation has its type and names the new credential.
LEMMA RotatedStatusType ==
  ASSUME NEW c \in CR, NEW id \in ACIDs
  PROVE  RotatedStatus(c, id) \in CR /\ RotatedStatus(c, id).acid = id
BY ConstantsAssumption DEF RotatedStatus, CR, AC, Name, Hashes

\* What the list by label returns has the type of the Secrets.
LEMMA LabelledSecretsType ==
  ASSUME secrets \in [Names -> Secret]
  PROVE  LabelledSecrets \in [Names -> Secret]
BY ObjectTypes DEF LabelledSecrets

\* A fresh CR and one left by an older release satisfy the type invariant.
LEMMA TypeInit == Init => TypeInv
<1> SUFFICES ASSUME Init PROVE TypeInv
  OBVIOUS
<1> USE ConstantsAssumption DEF Init
<1>1. cr \in CR /\ secrets \in [Names -> Secret] /\ live \subseteq used /\ used \subseteq ACIDs
      /\ cr.acid \in used \cup {None}
  <2>1. CASE FreshInit
    BY <2>1, ObjectTypes DEF FreshInit, NewCR
  <2>2. CASE UpgradedInit
    <3>1. PICK id \in ACIDs :
            /\ cr = [NewCR EXCEPT !.fin = TRUE, !.init = TRUE, !.acid = id, !.sec = LegacyName]
            /\ secrets = [n \in Names |->
                 IF n = LegacyName THEN [ImmutableSecret(id) EXCEPT !.label = FALSE]
                 ELSE NoSecret]
            /\ live = {id} /\ used = {id}
      BY <2>2 DEF UpgradedInit
    <3>2. cr \in CR /\ cr.acid = id
      <4>1. id \in AC /\ LegacyName \in Name
        BY DEF AC, Name
      <4>2. \A c \in CR : [c EXCEPT !.fin = TRUE, !.init = TRUE, !.acid = id, !.sec = LegacyName] \in CR
        BY <4>1 DEF CR
      <4> QED BY <3>1, <4>2, ObjectTypes DEF NewCR
    <3>3. [ImmutableSecret(id) EXCEPT !.label = FALSE] \in Secret
      BY ObjectTypes, SecretUpdates
    <3>4. secrets \in [Names -> Secret]
      <4>1. NoSecret \in Secret
        BY ObjectTypes
      <4> QED BY <3>1, <3>3, <4>1 DEF NewCR
    <3>5. live = {id} /\ used = {id}
      BY <3>1
    <3> QED BY <3>2, <3>4, <3>5
  <2> QED BY <2>1, <2>2
<1>2. TypeOK
  BY <1>1, ObjectTypes DEF TypeOK, NoMem, PCs, AC, Name
<1>3. IDsKnown
  BY <1>1 DEF IDsKnown, NoMem, NewCR
<1> QED BY <1>2, <1>3 DEF TypeInv

----------------------------------------------------------------------------
(* Every step preserves the types.  Most actions change one group of        *)
(* variables: what the others need is proved once.                          *)

\* A reconcile that returns leaves well-typed locals and the CR given to the patch.
LEMMA ReturnType ==
  ASSUME TypeOK, NEW ac \in CR, Return(ac)
  PROVE  /\ inst' = ac /\ inst' \in CR /\ base' \in CR /\ newID' = None /\ newID' \in AC
         /\ listed' \in [Names -> Secret] /\ todo' \subseteq Names /\ cur' \in Name
         /\ pc' = "patch" /\ pc' \in PCs
BY ObjectTypes DEF TypeOK, Return, NoLocals, AC, Name, PCs

\* A reconcile that has ended leaves well-typed, empty locals.
LEMMA ForgetType ==
  ASSUME Forget
  PROVE  /\ inst' = NewCR /\ inst' \in CR /\ base' \in CR /\ newID' = None /\ newID' \in AC
         /\ listed' \in [Names -> Secret] /\ todo' \subseteq Names /\ cur' \in Name
         /\ pc' = "idle" /\ pc' \in PCs
BY ObjectTypes DEF Forget, NoLocals, AC, Name, PCs

\* A reconcile starts from the CR as its cache has it, adds the finalizer unless the
\* CR is being deleted, and goes where the deletion timestamp sends it.
LEMMA ReconcileEffect ==
  ASSUME crCache \in CR, Reconcile
  PROVE  /\ inst' \in CR /\ inst'.acid = crCache.acid
         /\ inst'.sec = crCache.sec /\ inst'.prev = crCache.prev
         /\ pc' \in {"patch", "decide", "dgate"}
         /\ pc' = "decide" => crCache.fin /\ ~crCache.deleting
         /\ pc' = "dgate" => crCache.deleting
         /\ crCache.fin \/ ~crCache.deleting => inst'.fin
<1>1. CASE ~crCache.deleting /\ inst' = [crCache EXCEPT !.fin = TRUE, !.init = TRUE] /\ pc' = "patch"
  BY <1>1 DEF CR
<1>2. CASE ~crCache.deleting /\ crCache.fin /\ inst' = crCache /\ pc' \in {"decide", "patch"}
  BY <1>2 DEF CR
<1>3. CASE crCache.deleting /\ inst' = [crCache EXCEPT !.init = TRUE] /\ pc' \in {"dgate", "patch"}
  <2>1. /\ inst' \in CR /\ inst'.acid = crCache.acid /\ inst'.fin = crCache.fin
        /\ inst'.sec = crCache.sec /\ inst'.prev = crCache.prev
    BY <1>3 DEF CR
  <2> QED BY <1>3, <2>1
<1> QED BY <1>1, <1>2, <1>3 DEF Reconcile

\* Moving to another step keeps every local as it is.
LEMMA GotoType ==
  ASSUME TypeOK, NEW l \in PCs, Goto(l)
  PROVE  /\ inst' = inst /\ inst' \in CR /\ base' \in CR /\ newID' = newID /\ newID' \in AC
         /\ listed' \in [Names -> Secret] /\ todo' \subseteq Names /\ cur' \in Name
         /\ pc' = l /\ pc' \in PCs
BY DEF TypeOK, Goto, memVars

\* Every step of the controller, the cluster, the consumer and the users preserves
\* the type invariant.
LEMMA TypeStep == TypeInv /\ [Next]_vars => TypeInv'
<1> SUFFICES ASSUME TypeInv, [Next]_vars PROVE TypeInv'
  OBVIOUS
<1> USE ConstantsAssumption DEF TypeInv
<1> TypeOK /\ IDsKnown
  OBVIOUS
<1>1. CASE Reconcile
  <2>1. crCache \in CR /\ cr.acid \in used \cup {None} /\ crCache.acid \in used \cup {None}
    BY DEF TypeOK, IDsKnown
  <2>2. inst' \in CR /\ inst'.acid = crCache.acid /\ base' \in CR
    BY ZenonT(30), <1>1, <2>1, CRUpdates DEF Reconcile
  <2>3. pc' \in PCs /\ pc' \notin {"store", "unstore"}
    BY <1>1 DEF Reconcile, PCs
  <2> QED
    BY <1>1, <2>1, <2>2, <2>3 DEF Reconcile, TypeOK, IDsKnown, crVars, secVars, ksVars, userVars
<1>2. CASE Decide
  BY <1>2, GotoType, ReturnType DEF Decide, TypeOK, IDsKnown, PCs, crVars, secVars, ksVars, userVars
<1>3. ASSUME NEW id \in ACIDs, CreateAC(id) PROVE TypeInv'
  BY <1>3 DEF CreateAC, TypeOK, IDsKnown, AC, PCs, crVars, secVars, userVars
<1>4. CASE StoreSecret
  <2>1. newID \in ACIDs /\ acSecretName[newID] \in Names
    BY <1>4 DEF StoreSecret, TypeOK, IDsKnown
  <2>2. RotatedStatus(inst, newID) \in CR /\ RotatedStatus(inst, newID).acid = newID
    BY <2>1, RotatedStatusType DEF TypeOK
  <2>3. secrets' \in [Names -> Secret]
    BY <1>4, <2>1, ObjectTypes DEF StoreSecret, TypeOK
  <2> QED
    BY <1>4, <2>1, <2>2, <2>3, ReturnType DEF StoreSecret, TypeOK, IDsKnown, crVars, ksVars, userVars
<1>5. CASE CreateACFails
  BY <1>5, ReturnType DEF CreateACFails, TypeOK, IDsKnown, crVars, secVars, userVars
<1>6. CASE StoreSecretFails
  <2>1. newID \in ACIDs /\ acSecretName[newID] \in Names
    BY <1>6 DEF StoreSecretFails, TypeOK, IDsKnown
  <2>2. secrets' \in [Names -> Secret]
    BY <1>6, <2>1, ObjectTypes DEF StoreSecretFails, TypeOK
  <2> QED
    BY <1>6, <2>1, <2>2, GotoType DEF StoreSecretFails, TypeOK, IDsKnown, PCs, crVars, ksVars, userVars
<1>7. CASE RevokeNew
  BY <1>7, ReturnType DEF RevokeNew, TypeOK, IDsKnown, crVars, secVars, userVars
<1>8. CASE EnsureServiceLabel
  <2>1. secrets' \in [Names -> Secret]
    <3>1. \A n \in Names : secrets[n] \in Secret /\ [secrets[n] EXCEPT !.label = TRUE] \in Secret
      BY SecretUpdates DEF TypeOK
    <3>2. PICK L \in SUBSET Unlabelled :
            secrets' = [n \in Names |->
              IF n \in L THEN [secrets[n] EXCEPT !.label = TRUE] ELSE secrets[n]]
      BY <1>8 DEF EnsureServiceLabel
    <3> QED BY <3>1, <3>2
  <2> QED
    BY <1>8, <2>1, GotoType DEF EnsureServiceLabel, TypeOK, IDsKnown, PCs, crVars, ksVars, userVars
<1>9. CASE CleanupGate
  BY <1>9, GotoType, ReturnType DEF CleanupGate, TypeOK, IDsKnown, PCs, crVars, secVars, ksVars, userVars
<1>10. CASE CleanupList
  BY <1>10, LabelledSecretsType
     DEF CleanupList, TypeOK, IDsKnown, PCs, crVars, secVars, ksVars, userVars
<1>11. ASSUME NEW n \in Names, CleanupRevoke(n) PROVE TypeInv'
  BY <1>11 DEF CleanupRevoke, TypeOK, IDsKnown, Name, PCs, crVars, secVars, userVars
<1>12. ASSUME NEW n \in Names, Unprotect(n) PROVE secrets' \in [Names -> Secret]
  <2>1. [listed[n] EXCEPT !.fin = FALSE] \in Secret
    BY SecretUpdates DEF TypeOK
  <2> QED BY <1>12, <2>1, ObjectTypes DEF Unprotect, TypeOK
<1>13. ASSUME cur \notin Names, Unprotect(cur) PROVE secrets' \in [Names -> Secret]
  BY <1>13 DEF Unprotect, TypeOK
<1>14. CASE CleanupStrip
  <2>1. secrets' \in [Names -> Secret]
    BY <1>12, <1>13, <1>14 DEF CleanupStrip, TypeOK
  <2> QED
    BY <1>14, <2>1, GotoType, ReturnType
       DEF CleanupStrip, TypeOK, IDsKnown, PCs, crVars, ksVars, userVars
<1>15. CASE CleanupDelete
  <2>1. secrets' \in [Names -> Secret]
    BY <1>15, ObjectTypes DEF CleanupDelete, TypeOK
  <2> QED
    BY <1>15, <2>1, GotoType DEF CleanupDelete, TypeOK, IDsKnown, PCs, crVars, ksVars, userVars
<1>16. CASE CleanupEnds
  BY <1>16, ReturnType DEF CleanupEnds, TypeOK, IDsKnown, crVars, secVars, ksVars, userVars
<1>17. CASE DeleteGate
  BY <1>17, GotoType, ReturnType DEF DeleteGate, TypeOK, IDsKnown, PCs, crVars, secVars, ksVars, userVars
<1>18. CASE DeleteList
  BY <1>18, LabelledSecretsType, ReturnType
     DEF DeleteList, TypeOK, IDsKnown, PCs, crVars, secVars, ksVars, userVars
<1>19. ASSUME NEW n \in Names, DeleteRevoke(n) PROVE TypeInv'
  BY <1>19 DEF DeleteRevoke, TypeOK, IDsKnown, Name, PCs, crVars, secVars, userVars
<1>20. CASE DeleteStrip
  <2>1. secrets' \in [Names -> Secret]
    BY <1>12, <1>13, <1>20 DEF DeleteStrip, TypeOK
  <2> QED
    BY <1>20, <2>1, GotoType, ReturnType
       DEF DeleteStrip, TypeOK, IDsKnown, PCs, crVars, ksVars, userVars
<1>21. CASE DeleteFallback
  <2>1. [inst EXCEPT !.fin = FALSE] \in CR /\ [inst EXCEPT !.fin = FALSE].acid = inst.acid
    BY CRUpdates DEF TypeOK
  <2>2. secrets' \in [Names -> Secret]
    <3>1. \A n \in Names : [secrets[n] EXCEPT !.fin = FALSE] \in Secret
      BY SecretUpdates DEF TypeOK
    <3> QED BY <1>21, <3>1, ObjectTypes DEF DeleteFallback, TypeOK
  <2>3. Return([inst EXCEPT !.fin = FALSE]) \/ Return(inst)
    BY <1>21 DEF DeleteFallback
  <2>4. inst' \in CR /\ inst'.acid = inst.acid /\ pc' = "patch"
    BY <2>1, <2>3, ReturnType DEF TypeOK
  <2>5. UNCHANGED <<cr, crCache, secCache, live, used, due, want, use, conf, nodes, calm>>
    BY <1>21 DEF DeleteFallback, crVars, ksVars, userVars
  <2>6. /\ base' \in CR /\ newID' = None /\ newID' \in AC /\ pc' \in PCs
        /\ listed' \in [Names -> Secret] /\ todo' \subseteq Names /\ cur' \in Name
    BY <2>1, <2>3, ReturnType DEF TypeOK
  <2> QED BY <2>2, <2>4, <2>5, <2>6 DEF TypeOK, IDsKnown
<1>22. CASE PatchInstance
  <2>1. PatchMetadata(cr) \in CR /\ PatchMetadata(cr).acid = cr.acid
    BY PatchTypes DEF TypeOK
  <2>2. /\ PatchStatus(PatchMetadata(cr)) \in CR
        /\ PatchStatus(PatchMetadata(cr)).acid \in {cr.acid, inst.acid}
    BY <2>1, PatchTypes DEF TypeOK
  <2>3. \A c \in CR : GoneCR(c) \in CR /\ GoneCR(c).acid = c.acid
    BY CRUpdates
  <2>4. cr' \in CR /\ cr'.acid \in {cr.acid, inst.acid}
    BY <1>22, <2>1, <2>2, <2>3 DEF PatchInstance, TypeOK
  <2> QED
    BY <1>22, <2>4, ForgetType
       DEF PatchInstance, NewCR, TypeOK, IDsKnown, secVars, ksVars, userVars
<1>23. CASE Crash
  BY <1>23, ForgetType DEF Crash, NewCR, TypeOK, IDsKnown, crVars, secVars, ksVars, userVars
<1>24. CASE Cluster
  <2>1. ASSUME NEW n \in Names, GarbageCollect(n) PROVE TypeInv'
    BY <2>1, ObjectTypes DEF GarbageCollect, TypeOK, IDsKnown, crVars, ksVars, userVars, memVars
  <2>2. CASE SyncCR \/ SyncSecrets \/ CalmDown
    BY <2>2 DEF SyncCR, SyncSecrets, CalmDown, TypeOK, IDsKnown, crVars, secVars, ksVars, userVars, memVars
  <2> QED BY <1>24, <2>1, <2>2 DEF Cluster
<1>25. CASE Consuming
  <2>1. CASE ConsumerNotice
    BY <2>1 DEF ConsumerNotice, TypeOK, IDsKnown, CR, Name, crVars, secVars, ksVars, memVars
  <2>2. CASE ConsumerAttach
    <3>1. want \in Names
      BY <2>2 DEF ConsumerAttach, TypeOK, Name
    <3>2. secrets' \in [Names -> Secret]
      BY <2>2, <3>1, SecretUpdates DEF ConsumerAttach, TypeOK
    <3> QED
      BY <2>2, <3>2 DEF ConsumerAttach, TypeOK, IDsKnown, crVars, ksVars, userVars, memVars
  <2>3. CASE ConsumerRender
    BY <2>3 DEF ConsumerRender, Target, TypeOK, IDsKnown, Secret, AC, Name, crVars, secVars, ksVars, memVars
  <2>4. CASE ConsumerRelease
    <3>1. secrets' \in [Names -> Secret]
      <4>1. ASSUME NEW n \in Names PROVE Settled([secrets[n] EXCEPT !.held = FALSE]) \in Secret
        <5>1. [secrets[n] EXCEPT !.held = FALSE] \in Secret
          BY SecretUpdates DEF TypeOK
        <5> QED BY <5>1, ObjectTypes
      <4> QED BY <2>4, <4>1 DEF ConsumerRelease, TypeOK, Name
    <3> QED BY <2>4, <3>1 DEF ConsumerRelease, TypeOK, IDsKnown, crVars, ksVars, memVars
  <2>5. CASE DeployNodes
    BY <2>5 DEF DeployNodes, TypeOK, IDsKnown, crVars, secVars, ksVars, memVars
  <2> QED BY <1>25, <2>1, <2>2, <2>3, <2>4, <2>5 DEF Consuming
<1>26. CASE Users
  <2>1. CASE EditSpec
    BY <2>1 DEF EditSpec, TypeOK, IDsKnown, CR, secVars, ksVars, userVars, memVars
  <2>2. CASE DeleteCR
    <3>1. cr' \in CR /\ cr'.acid = cr.acid
      BY <2>2 DEF DeleteCR, GoneCR, TypeOK, CR
    <3> QED BY <2>2, <3>1 DEF DeleteCR, TypeOK, IDsKnown, secVars, ksVars, userVars, memVars
  <2>3. CASE TimePasses \/ LowerGrace
    BY <2>3 DEF TimePasses, LowerGrace, TypeOK, IDsKnown, crVars, secVars, userVars, memVars
  <2>4. ASSUME NEW n \in Names, RemoveSecret(n) PROVE TypeInv'
    BY <2>4, ObjectTypes DEF RemoveSecret, TypeOK, IDsKnown, crVars, ksVars, userVars, memVars
  <2> QED BY <1>26, <2>1, <2>2, <2>3, <2>4 DEF Users
<1>27. CASE UNCHANGED vars
  BY <1>27 DEF vars, crVars, secVars, ksVars, userVars, memVars, TypeOK, IDsKnown
<1> QED
  BY <1>1, <1>2, <1>3, <1>4, <1>5, <1>6, <1>7, <1>8, <1>9, <1>10, <1>11, <1>14, <1>15, <1>16,
     <1>17, <1>18, <1>19, <1>20, <1>21, <1>22, <1>23, <1>24, <1>25, <1>26, <1>27
     DEF Next, Controller, Rotation, RotationFails, Cleanup, Deletion

\* TypeCorrect: in every reachable state of the controller, its caches, Keystone
\* and the consumer, variables have their types and every ID in the CR, its cached
\* copy and the reconcile in progress was given out by Keystone.
THEOREM TypeCorrect == Spec => [](TypeOK /\ IDsKnown)
<1>1. Spec => []TypeInv
  BY TypeInit, TypeStep, PTL DEF Spec
<1>2. TypeInv => TypeOK /\ IDsKnown
  BY DEF TypeInv
<1> QED BY <1>1, <1>2, PTL
----------------------------------------------------------------------------
(* StatusProtected is inductive when a reconcile reads its own writes and   *)
(* names of Secrets are safe.                                               *)

Conditions == ~StaleCR /\ NamesSafe

Inv == Conditions /\ TypeInv /\ StatusProtected

\* The Secrets a status names are names of Secrets.
LEMMA StatusNamesType ==
  ASSUME NEW c \in CR
  PROVE  StatusNames(c) \subseteq Names
BY DEF StatusNames, CR, Name

\* The inductive invariant holds for a fresh CR and for one of an older release.
LEMMA ProtectedInit == Conditions /\ Init => Inv
<1> SUFFICES ASSUME Conditions, Init PROVE StatusProtected
  BY TypeInit DEF Inv
<1> USE ConstantsAssumption
<1>1. pc = "idle" /\ crCache = cr /\ secCache = secrets /\ TypeInv
  BY TypeInit DEF Init
<1>2. /\ \A n \in Names : secrets[n].ex =>
           /\ n = LegacyName /\ secrets[n].acid \in used /\ secrets[n].acid \in live
           /\ secrets[n].fin
      /\ StatusNames(cr) \subseteq {LegacyName} /\ ~cr.deleting
      /\ \A n \in StatusNames(cr) : secrets[n].ex /\ ~secrets[n].term
  <2>1. CASE FreshInit
    BY <2>1 DEF FreshInit, NewCR, NoSecret, StatusNames
  <2>2. CASE UpgradedInit
    BY <2>2 DEF UpgradedInit, NewCR, NoSecret, ImmutableSecret, StatusNames
  <2> QED BY <2>1, <2>2 DEF Init
<1>3. IDsKnown /\ SecretsDistinct
  BY <1>1, <1>2 DEF TypeInv, SecretsDistinct
<1>4. StatusNamesKnown /\ SingleWriter /\ NewUnstored /\ CleanupElsewhere /\ DeletingSticks /\ PatchSafe
  BY <1>1, <1>2
     DEF StatusNamesKnown, NameKnown, SingleWriter, NewUnstored, CleanupElsewhere,
         DeletingSticks, DeletionPCs, PatchSafe
<1>5. CredentialsUsable /\ StatusPresent
  BY <1>1, <1>2 DEF CredentialsUsable, Usable, StatusNames, StatusPresent
<1> QED BY <1>3, <1>4, <1>5 DEF StatusProtected

\* What an update or a Delete call leaves of a Secret is that Secret.
LEMMA SecretSteps ==
  ASSUME NEW s \in Secret
  PROVE  /\ Deleted(s).ex => s.ex /\ Deleted(s).acid = s.acid /\ Deleted(s).fin = s.fin
         /\ Settled([s EXCEPT !.fin = FALSE]).ex =>
              s.ex /\ Settled([s EXCEPT !.fin = FALSE]).acid = s.acid
         /\ Settled([s EXCEPT !.held = FALSE]).ex =>
              /\ s.ex /\ Settled([s EXCEPT !.held = FALSE]).acid = s.acid
              /\ Settled([s EXCEPT !.held = FALSE]).fin = s.fin
BY DEF Deleted, Settled, Secret, NoSecret

\* No Secret appears, changes its credential or loses its protection.
SecretsKept ==
  \A n \in Names :
    secrets'[n].ex =>
      secrets[n].ex /\ secrets'[n].acid = secrets[n].acid /\ (secrets[n].fin => secrets'[n].fin)

\* The status is as before; a deletion is not taken back.
StatusKept ==
  /\ cr'.sec = cr.sec /\ cr'.prev = cr.prev
  /\ cr.deleting => cr'.deleting
  /\ cr'.exists => cr.exists
  /\ crCache'.deleting => cr'.deleting

\* A deletion is not taken back and a CR that is gone does not return.
LEMMA DeletionStays ==
  ASSUME TypeInv, [Next]_vars
  PROVE  cr'.exists /\ ~cr'.deleting => cr.exists /\ ~cr.deleting
<1>1. CASE cr' = cr
  BY <1>1
<1>2. CASE EditSpec \/ DeleteCR
  BY <1>2 DEF EditSpec, DeleteCR, GoneCR, TypeInv, TypeOK, CR
<1>3. CASE PatchInstance
  <2>1. /\ PatchMetadata(cr) \in CR /\ PatchStatus(PatchMetadata(cr)) \in CR
        /\ PatchMetadata(cr).deleting = cr.deleting /\ PatchMetadata(cr).exists = cr.exists
    BY PatchTypes DEF TypeInv, TypeOK, PatchMetadata, CR
  <2>3. /\ PatchStatus(PatchMetadata(cr)).deleting = cr.deleting
        /\ PatchStatus(PatchMetadata(cr)).exists = cr.exists
    BY <2>1 DEF PatchStatus, CR
  <2>2. \A c \in CR : GoneCR(c).deleting = c.deleting /\ (GoneCR(c).exists => c.exists)
    BY DEF GoneCR, CR
  <2> QED BY <1>3, <2>1, <2>2, <2>3 DEF PatchInstance
<1>4. CASE Reconcile \/ Decide \/ Rotation \/ RotationFails
  BY <1>1, <1>4
     DEF Reconcile, Decide, Rotation, RotationFails, CreateAC, StoreSecret, CreateACFails,
         StoreSecretFails, RevokeNew, crVars
<1>5. CASE Cleanup
  BY <1>1, <1>5
     DEF Cleanup, EnsureServiceLabel, CleanupGate, CleanupList, CleanupRevoke, CleanupStrip,
         CleanupDelete, CleanupEnds, crVars
<1>6. CASE Deletion \/ Crash
  BY <1>1, <1>6
     DEF Deletion, DeleteGate, DeleteList, DeleteRevoke, DeleteStrip, DeleteFallback, Crash, crVars
<1>7. CASE Cluster \/ Consuming
  BY <1>1, <1>7
     DEF Cluster, Consuming, SyncCR, SyncSecrets, CalmDown, GarbageCollect, ConsumerNotice,
         ConsumerAttach, ConsumerRender, ConsumerRelease, DeployNodes, crVars
<1>8. CASE TimePasses \/ LowerGrace \/ \E n \in Names : RemoveSecret(n)
  BY <1>1, <1>8 DEF TimePasses, LowerGrace, RemoveSecret, crVars
<1>9. CASE UNCHANGED vars
  BY <1>1, <1>9 DEF vars, crVars
<1> QED
  BY <1>2, <1>3, <1>4, <1>5, <1>6, <1>7, <1>8, <1>9 DEF Next, Controller, Users

\* The Secrets of the status stay: nobody but a user or a deletion takes them away,
\* and a Secret gets into the status only when it has been stored.
LEMMA PresentStep == Inv /\ [Next]_vars => StatusPresent'
<1> SUFFICES ASSUME Inv, [Next]_vars, "remove" \notin UserOps, cr'.exists, ~cr'.deleting,
                    NEW n \in Names,
                    n \in StatusNames(cr)' \/ (pc' = "patch" /\ n \in StatusNames(inst)')
             PROVE  secrets'[n].ex /\ ~secrets'[n].term
  BY DEF StatusPresent
<1> DEFINE Present(s) == s.ex /\ ~s.term
           Named == n \in StatusNames(cr) \/ (pc = "patch" /\ n \in StatusNames(inst))
<1>a. TypeOK /\ TypeInv /\ StatusProtected /\ ~StaleCR
  BY DEF Inv, TypeInv, Conditions
<1>b. cr.exists /\ ~cr.deleting
  BY <1>a, DeletionStays
<1>c. secrets \in [Names -> Secret] /\ secrets[n] \in Secret
  BY <1>a DEF TypeOK
<1>d. Named => Present(secrets[n]) /\ secrets[n].fin
  BY <1>a, <1>b
     DEF StatusProtected, StatusPresent, CredentialsUsable, PatchSafe, Usable
<1>e. pc \notin {"idle", "patch"} => StatusNames(inst) = StatusNames(cr)
  BY <1>a DEF StatusProtected, SingleWriter, StatusNames
<1>f. pc \notin DeletionPCs
  BY <1>a, <1>b DEF StatusProtected, DeletingSticks
<1>g. ASSUME pc \notin {"idle", "patch"}, inst' = inst, cr' = cr PROVE Named /\ n \in StatusNames(cr)
  <2>1. StatusNames(cr)' = StatusNames(cr) /\ StatusNames(inst)' = StatusNames(inst)
    BY <1>g DEF StatusNames
  <2> QED BY <1>e, <1>g, <2>1
<1>h. ASSUME UNCHANGED <<pc, inst>>, cr'.sec = cr.sec, cr'.prev = cr.prev PROVE Named
  BY <1>h DEF StatusNames
<1>1. CASE Reconcile
  <2>1. /\ cr' = cr /\ secrets' = secrets /\ crCache.sec = cr.sec /\ crCache.prev = cr.prev
        /\ inst'.sec = crCache.sec /\ inst'.prev = crCache.prev
    BY <1>1, <1>a DEF Reconcile, ReadsOwnWrites, TypeOK, CR, crVars, secVars
  <2>2. Named
    BY <2>1 DEF StatusNames
  <2> QED BY <1>d, <2>1, <2>2
<1>2. CASE Decide \/ CreateACFails \/ RevokeNew \/ (\E id \in ACIDs : CreateAC(id))
  <2>1. /\ UNCHANGED <<cr, secrets, inst>> /\ pc \in {"decide", "create", "unstore"}
    BY <1>2 DEF Decide, CreateACFails, RevokeNew, CreateAC, Goto, Return, crVars, secVars, memVars
  <2> QED BY <1>d, <1>g, <2>1
<1>3. CASE StoreSecret
  <2>1. newID \in ACIDs
    BY <1>3, <1>a DEF StoreSecret, TypeOK, TypeInv, IDsKnown
  <2>k. PICK k \in Names : k = acSecretName[newID]
    BY <2>1, ConstantsAssumption
  <2>2. ~secrets[k].ex
    BY <1>3, <1>a, <2>1, <2>k
       DEF StoreSecret, ExistingMatches, SecretView, StatusProtected, NewUnstored
  <2>3. /\ cr' = cr /\ inst' = RotatedStatus(inst, newID) /\ pc = "store"
        /\ secrets' = [secrets EXCEPT ![k] = ImmutableSecret(newID)]
    BY <1>3, <2>2, <2>k DEF StoreSecret, Return, crVars
  <2>4. StatusNames(inst') \subseteq StatusNames(inst) \cup {k}
    BY <1>a, <2>3, <2>1, <2>k DEF RotatedStatus, StatusNames, TypeOK, CR
  <2>5. CASE n = k
    BY <1>c, <2>3, <2>5 DEF ImmutableSecret
  <2>6. CASE n # k
    <3>1. Named
      BY <1>e, <2>3, <2>4, <2>6 DEF StatusNames
    <3> QED BY <1>c, <1>d, <2>3, <2>6, <3>1
  <2> QED BY <2>5, <2>6
<1>4. CASE StoreSecretFails
  <2>1. newID \in ACIDs
    BY <1>4, <1>a DEF StoreSecretFails, TypeOK, TypeInv, IDsKnown
  <2>k. PICK k \in Names : k = acSecretName[newID]
    BY <2>1, ConstantsAssumption
  <2>2. /\ UNCHANGED <<cr, inst>> /\ pc = "store"
        /\ \/ secrets' = secrets
           \/ ~secrets[k].ex /\ secrets' = [secrets EXCEPT ![k] = ImmutableSecret(newID)]
    BY <1>4, <2>k DEF StoreSecretFails, Goto, crVars, memVars
  <2> QED BY <1>c, <1>d, <1>g, <2>2
<1>5. CASE EnsureServiceLabel
  <2>1. UNCHANGED <<cr, inst>> /\ pc \in {"label", "dlabel"}
    BY <1>5 DEF EnsureServiceLabel, Goto, crVars, memVars
  <2>2. PICK L \in SUBSET Unlabelled :
          secrets' = [m \in Names |->
            IF m \in L THEN [secrets[m] EXCEPT !.label = TRUE] ELSE secrets[m]]
    BY <1>5 DEF EnsureServiceLabel
  <2>3. secrets'[n].ex = secrets[n].ex /\ secrets'[n].term = secrets[n].term
    BY <1>c, <2>2 DEF Secret
  <2> QED BY <1>d, <1>g, <2>1, <2>3
<1>6. CASE CleanupGate \/ CleanupList \/ CleanupEnds \/ (\E m \in Names : CleanupRevoke(m))
  <2>1. /\ UNCHANGED <<cr, secrets, inst>> /\ pc \in {"gate", "list", "next", "strip", "delete"}
    BY <1>6 DEF CleanupGate, CleanupList, CleanupEnds, CleanupRevoke, Goto, Return, crVars, secVars, memVars
  <2> QED BY <1>d, <1>g, <2>1
<1>7. CASE CleanupStrip \/ CleanupDelete
  <2>1. UNCHANGED <<cr, inst>> /\ pc \in {"strip", "delete"}
    BY <1>7 DEF CleanupStrip, CleanupDelete, Goto, Return, crVars, memVars
  <2>2. n # cur
    BY <1>a, <1>g, <2>1 DEF StatusProtected, CleanupElsewhere
  <2>3. secrets'[n] = secrets[n]
    BY <1>7, <1>c, <2>2 DEF CleanupStrip, CleanupDelete, Unprotect
  <2> QED BY <1>d, <1>g, <2>1, <2>3
<1>8. CASE Deletion
  <2>1. pc \in DeletionPCs
    BY <1>8, <1>f
       DEF Deletion, DeleteGate, DeleteList, DeleteRevoke, DeleteStrip, DeleteFallback, DeletionPCs
  <2> QED BY <1>f, <2>1
<1>9. CASE PatchInstance
  <2>1. secrets' = secrets /\ pc = "patch" /\ pc' = "idle" /\ base.sec = cr.sec /\ base.prev = cr.prev
    BY <1>9, <1>a DEF PatchInstance, Forget, secVars, StatusProtected, SingleWriter
  <2>2. \A c \in CR : GoneCR(c).sec = c.sec /\ GoneCR(c).prev = c.prev
    BY DEF GoneCR, CR
  <2>3. /\ PatchMetadata(cr) \in CR /\ PatchStatus(PatchMetadata(cr)) \in CR
        /\ PatchMetadata(cr).sec = cr.sec /\ PatchMetadata(cr).prev = cr.prev
    BY <1>a, PatchTypes DEF TypeOK, PatchMetadata, CR
  <2>4. /\ PatchStatus(PatchMetadata(cr)).sec = inst.sec
        /\ PatchStatus(PatchMetadata(cr)).prev = inst.prev
    BY <1>a, <2>1, <2>3 DEF TypeOK, PatchStatus, Merge, CR
  <2>5. \/ cr'.sec = cr.sec /\ cr'.prev = cr.prev
        \/ cr'.sec = inst.sec /\ cr'.prev = inst.prev
    BY <1>9, <2>2, <2>3, <2>4 DEF PatchInstance
  <2>6. Named
    BY <2>1, <2>5 DEF StatusNames
  <2> QED BY <1>d, <2>1, <2>6
<1>10. CASE Crash
  <2>1. cr' = cr /\ secrets' = secrets /\ pc' = "idle"
    BY <1>10 DEF Crash, Forget, crVars, secVars
  <2>2. Named
    BY <2>1 DEF StatusNames
  <2> QED BY <1>d, <2>1, <2>2
<1>11. CASE SyncCR \/ SyncSecrets \/ CalmDown \/ ConsumerNotice \/ ConsumerRender \/ DeployNodes
            \/ TimePasses \/ LowerGrace
  <2>1. UNCHANGED <<pc, inst, cr, secrets>>
    BY <1>11
       DEF SyncCR, SyncSecrets, CalmDown, ConsumerNotice, ConsumerRender, DeployNodes, TimePasses,
           LowerGrace, crVars, secVars, memVars
  <2> QED BY <1>d, <1>h, <2>1
<1>12. CASE EditSpec \/ DeleteCR
  <2>1. UNCHANGED <<pc, inst, secrets>> /\ cr'.sec = cr.sec /\ cr'.prev = cr.prev
    BY <1>12, <1>a DEF EditSpec, DeleteCR, GoneCR, TypeOK, CR, secVars, memVars
  <2> QED BY <1>d, <1>h, <2>1
<1>13. CASE (\E m \in Names : GarbageCollect(m)) \/ (\E m \in Names : RemoveSecret(m))
  BY <1>13, <1>b DEF GarbageCollect, RemoveSecret
<1>14. CASE ConsumerAttach
  <2>1. UNCHANGED <<pc, inst, cr>> /\ secrets' = [secrets EXCEPT ![want].held = TRUE]
    BY <1>14 DEF ConsumerAttach, crVars, memVars
  <2>2. secrets'[n].ex = secrets[n].ex /\ secrets'[n].term = secrets[n].term
    BY <1>c, <2>1 DEF Secret
  <2> QED BY <1>d, <1>h, <2>1, <2>2
<1>15. CASE ConsumerRelease
  <2>1. /\ UNCHANGED <<pc, inst, cr>>
        /\ \/ secrets' = secrets
           \/ secrets' = [secrets EXCEPT ![use] = Settled([secrets[use] EXCEPT !.held = FALSE])]
    BY <1>15 DEF ConsumerRelease, crVars, memVars
  <2>2. Present(secrets[n]) /\ secrets[n].fin
    BY <1>d, <1>h, <2>1
  <2>3. Present(Settled([secrets[n] EXCEPT !.held = FALSE]))
    BY <1>c, <2>2 DEF Settled, Secret
  <2> QED BY <1>c, <2>1, <2>2, <2>3
<1>16. CASE UNCHANGED vars
  <2>1. UNCHANGED <<pc, inst, cr, secrets>>
    BY <1>16 DEF vars, crVars, secVars, memVars
  <2> QED BY <1>d, <1>h, <2>1
<1> QED
  BY <1>1, <1>2, <1>3, <1>4, <1>5, <1>6, <1>7, <1>8, <1>9, <1>10, <1>11, <1>12, <1>13, <1>14,
     <1>15, <1>16
     DEF Next, Controller, Rotation, RotationFails, Cleanup, Cluster, Consuming, Users

\* Steps outside the controller: caches, garbage collector, consumer, users, time.
LEMMA OutsideStep ==
  ASSUME Inv, TypeInv', StatusPresent', StatusKept, SecretsKept, secCache' \in {secCache, secrets},
         UNCHANGED <<live, used, pc, memVars>>
  PROVE  StatusProtected'
<1> USE DEF Inv, StatusProtected, StatusKept, SecretsKept, memVars
<1>1. StatusNames(cr)' = StatusNames(cr) /\ StatusNames(inst)' = StatusNames(inst)
  BY DEF StatusNames
<1>2. \A n \in StatusNames(cr) \cup StatusNames(inst) : n \in Names
  BY StatusNamesType DEF TypeInv, TypeOK
<1>3. IDsKnown'
  BY DEF TypeInv
<1>4. SecretsDistinct'
  BY DEF SecretsDistinct
<1>5. StatusNamesKnown'
  BY <1>1 DEF StatusNamesKnown, NameKnown
<1>6. SingleWriter'
  BY DEF SingleWriter
<1>7. NewUnstored'
  BY <1>1 DEF NewUnstored
<1>8. CleanupElsewhere'
  BY <1>1 DEF CleanupElsewhere
<1>9. DeletingSticks'
  BY DEF DeletingSticks
<1>10. PatchSafe'
  BY <1>1, <1>2 DEF PatchSafe, Usable
<1>11. CredentialsUsable'
  BY <1>1, <1>2 DEF CredentialsUsable, Usable
<1> QED BY <1>3, <1>4, <1>5, <1>6, <1>7, <1>8, <1>9, <1>10, <1>11

\* Steps of the controller that leave the CR alone and create no Secret: what
\* remains to be shown is about the place they go to.
LEMMA InsideStep ==
  ASSUME Inv, TypeInv', StatusPresent', UNCHANGED crVars, UNCHANGED secCache, UNCHANGED base,
         used \subseteq used', pc # "idle", pc # "patch", pc' # "idle",
         inst'.sec = inst.sec, inst'.prev = inst.prev,
         \A n \in Names : secrets'[n].ex => secrets[n].ex /\ secrets'[n].acid = secrets[n].acid,
         cr.exists /\ ~cr.deleting =>
           \A n \in StatusNames(cr) : Usable(n)',
         NewUnstored', CleanupElsewhere', pc' \in DeletionPCs => cr.deleting
  PROVE  StatusProtected'
<1> USE DEF Inv, StatusProtected, crVars
<1>1. StatusNames(cr)' = StatusNames(cr) /\ StatusNames(inst)' = StatusNames(inst)
      /\ StatusNames(inst) = StatusNames(cr)
  BY DEF StatusNames, SingleWriter
<1>3. IDsKnown'
  BY DEF TypeInv
<1>4. SecretsDistinct'
  BY DEF SecretsDistinct
<1>5. StatusNamesKnown'
  BY <1>1 DEF StatusNamesKnown, NameKnown
<1>6. SingleWriter'
  BY DEF SingleWriter
<1>9. DeletingSticks'
  BY DEF DeletingSticks
<1>10. PatchSafe'
  BY <1>1 DEF PatchSafe
<1>11. CredentialsUsable'
  BY <1>1 DEF CredentialsUsable
<1> QED BY <1>3, <1>4, <1>5, <1>6, <1>9, <1>10, <1>11

\* Every step preserves the inductive invariant: the heart of the proof.
LEMMA ProtectedStep == Inv /\ [Next]_vars => Inv'
<1> SUFFICES ASSUME Inv, [Next]_vars PROVE StatusProtected'
  BY TypeStep DEF Inv, Conditions, NamesSafe, DistinctNames
<1> USE ConstantsAssumption
<1>a. TypeInv' /\ TypeOK /\ TypeOK' /\ StatusPresent'
  BY TypeStep, PresentStep DEF Inv, TypeInv
<1>b. ~StaleCR /\ NamesSafe
  BY DEF Inv, Conditions
<1>c. StatusNames(cr) \subseteq Names
  BY <1>a, StatusNamesType DEF TypeOK
<1>d. cr.exists /\ ~cr.deleting => \A n \in StatusNames(cr) : Usable(n)
  BY DEF Inv, StatusProtected, CredentialsUsable
<1>1. CASE Reconcile
  <2> USE DEF Inv, StatusProtected
  <2>1. UNCHANGED <<cr, crCache, secrets, secCache, live, used>>
    BY <1>1 DEF Reconcile, crVars, secVars, ksVars
  <2>2. base' = crCache /\ crCache.sec = cr.sec /\ crCache.prev = cr.prev
    BY <1>1, <1>b DEF Reconcile, ReadsOwnWrites
  <2>3. inst'.sec = cr.sec /\ inst'.prev = cr.prev
    BY <1>1, <1>a, <2>2, ReconcileEffect DEF TypeOK
  <2>4. pc' \in {"patch", "decide", "dgate"} /\ (crCache.deleting \/ pc' # "dgate")
    BY <1>1 DEF Reconcile
  <2>5. StatusNames(inst)' = StatusNames(cr) /\ StatusNames(cr)' = StatusNames(cr)
    BY <2>1, <2>3 DEF StatusNames
  <2>6. IDsKnown' /\ SecretsDistinct'
    BY <1>a, <2>1 DEF TypeInv, SecretsDistinct
  <2>7. StatusNamesKnown' /\ SingleWriter'
    BY <2>1, <2>2, <2>3, <2>5 DEF StatusNamesKnown, NameKnown, SingleWriter
  <2>8. NewUnstored' /\ CleanupElsewhere' /\ DeletingSticks'
    BY <2>1, <2>4 DEF NewUnstored, CleanupElsewhere, DeletingSticks, DeletionPCs
  <2>9. PatchSafe' /\ CredentialsUsable'
    BY <1>d, <2>1, <2>5 DEF PatchSafe, CredentialsUsable, Usable
  <2> QED BY <1>a, <2>6, <2>7, <2>8, <2>9
<1>2. CASE Decide \/ CleanupGate \/ CleanupEnds \/ DeleteGate
  <2>1. UNCHANGED <<crVars, secVars, live, used>>
    BY <1>2 DEF Decide, CleanupGate, CleanupEnds, DeleteGate, ksVars
  <2>2. inst' = inst /\ base' = base
    BY <1>2 DEF Decide, CleanupGate, CleanupEnds, DeleteGate, Goto, Return, memVars
  <2>3. /\ pc \notin {"idle", "patch"}
        /\ pc' \in {"create", "label", "list", "dlabel", "patch"}
        /\ pc' = "dlabel" => pc = "dgate"
    BY <1>2 DEF Decide, CleanupGate, CleanupEnds, DeleteGate, Goto, Return
  <2>4. NewUnstored' /\ CleanupElsewhere' /\ (pc' \in DeletionPCs => cr.deleting)
    BY <2>3 DEF NewUnstored, CleanupElsewhere, DeletionPCs, Inv, StatusProtected, DeletingSticks
  <2>5. cr.exists /\ ~cr.deleting => \A n \in StatusNames(cr) : Usable(n)'
    BY <1>d, <2>1 DEF Usable, secVars
  <2> QED BY <1>a, <2>1, <2>2, <2>3, <2>4, <2>5, InsideStep DEF secVars
<1>3. ASSUME NEW id \in ACIDs, CreateAC(id) PROVE StatusProtected'
  <2> USE DEF Inv, StatusProtected
  <2>1. /\ UNCHANGED <<crVars, secVars, inst, base>> /\ pc = "create" /\ pc' = "store"
        /\ newID' = id /\ id \notin used /\ live' = live \cup {id} /\ used' = used \cup {id}
    BY <1>3 DEF CreateAC
  <2>2. ASSUME DistinctNames PROVE acSecretName[id] \notin StatusNames(cr)
    <3>1. \A a \in used : acSecretName[a] # acSecretName[id]
      BY <1>a, <2>1, <2>2 DEF DistinctNames, TypeOK
    <3> QED BY <2>2, <3>1 DEF DistinctNames, StatusNamesKnown, NameKnown
  <2>3. StatusNames(cr)' = StatusNames(cr)
    BY <2>1 DEF StatusNames, crVars
  <2>4. NewUnstored' /\ CleanupElsewhere' /\ pc' \notin DeletionPCs
    BY <2>1, <2>2, <2>3
       DEF NewUnstored, CleanupElsewhere, DeletionPCs, SecretsDistinct, secVars
  <2>5. cr.exists /\ ~cr.deleting => \A n \in StatusNames(cr) : Usable(n)'
    BY <1>d, <2>1 DEF Usable, secVars
  <2> QED BY <1>a, <2>1, <2>4, <2>5, InsideStep DEF secVars
<1>4. CASE StoreSecret
  <2> USE DEF Inv, StatusProtected
  <2>1. newID \in used /\ newID \in ACIDs /\ newID \in live
    BY <1>4, <1>a DEF StoreSecret, IDsKnown, TypeOK, NewUnstored
  <2>k. PICK k \in Names : k = acSecretName[newID]
    BY <2>1
  <2>2. ~secrets[k].ex
    BY <1>4, <2>1, <2>k DEF StoreSecret, ExistingMatches, SecretView, NewUnstored
  <2>3. /\ UNCHANGED <<cr, crCache, secCache, live, used, base>> /\ pc = "store" /\ pc' = "patch"
        /\ inst' = RotatedStatus(inst, newID)
        /\ secrets' = [secrets EXCEPT ![k] = ImmutableSecret(newID)]
    BY <1>4, <2>2, <2>k DEF StoreSecret, Return, crVars, ksVars
  <2>4. StatusNames(inst') \subseteq StatusNames(cr) \cup {k}
    BY <1>a, <2>3, <2>1, <2>k DEF RotatedStatus, StatusNames, SingleWriter, TypeOK, CR
  <2>5. /\ secrets'[k].ex /\ secrets'[k].acid = newID /\ secrets'[k].fin
        /\ \A n \in Names : n # k => secrets'[n] = secrets[n]
    BY <1>a, <2>1, <2>3 DEF TypeOK, ImmutableSecret
  <2>6. \A n \in Names : secrets[n].ex => secrets[n].acid # newID
    BY <2>3 DEF NewUnstored
  <2>7. IDsKnown' /\ StatusNames(cr)' = StatusNames(cr)
    BY <1>a, <2>3 DEF TypeInv, StatusNames
  <2>8. SecretsDistinct'
    BY <2>1, <2>3, <2>5, <2>6 DEF SecretsDistinct
  <2>9. StatusNamesKnown' /\ SingleWriter'
    BY <2>1, <2>3, <2>4, <2>7, <2>k DEF StatusNamesKnown, NameKnown, SingleWriter
  <2>10. NewUnstored' /\ CleanupElsewhere' /\ DeletingSticks'
    BY <2>3 DEF NewUnstored, CleanupElsewhere, DeletingSticks, DeletionPCs
  <2>11. Usable(k)' /\ \A n \in Names : n # k /\ Usable(n) => Usable(n)'
    BY <2>1, <2>3, <2>5 DEF Usable
  <2>12. PatchSafe' /\ CredentialsUsable'
    BY <1>c, <1>d, <2>3, <2>4, <2>7, <2>11 DEF PatchSafe, CredentialsUsable
  <2> QED BY <1>a, <2>7, <2>8, <2>9, <2>10, <2>12
<1>5. CASE CreateACFails
  <2>1. /\ UNCHANGED <<crVars, secVars>> /\ pc = "create" /\ pc' = "patch"
        /\ inst' = inst /\ base' = base /\ live \subseteq live' /\ used \subseteq used'
    BY <1>5 DEF CreateACFails, Return
  <2>2. NewUnstored' /\ CleanupElsewhere' /\ pc' \notin DeletionPCs
    BY <2>1 DEF NewUnstored, CleanupElsewhere, DeletionPCs
  <2>3. cr.exists /\ ~cr.deleting => \A n \in StatusNames(cr) : Usable(n)'
    BY <1>d, <2>1 DEF Usable, secVars
  <2> QED BY <1>a, <2>1, <2>2, <2>3, InsideStep DEF secVars
<1>6. CASE StoreSecretFails
  <2> USE DEF Inv, StatusProtected
  <2>1. newID \in used /\ newID \in ACIDs /\ newID \in live
    BY <1>6, <1>a DEF StoreSecretFails, IDsKnown, TypeOK, NewUnstored
  <2>k. PICK k \in Names : k = acSecretName[newID]
    BY <2>1
  <2>2. /\ UNCHANGED <<cr, crCache, secCache, live, used>> /\ UNCHANGED memVars
        /\ pc = "store" /\ pc' = "unstore"
    BY <1>6 DEF StoreSecretFails, Goto, crVars, ksVars
  <2>3. \/ secrets' = secrets
        \/ ~secrets[k].ex /\ secrets' = [secrets EXCEPT ![k] = ImmutableSecret(newID)]
    BY <1>6, <2>k DEF StoreSecretFails
  <2>4. /\ secrets'[k].ex => secrets'[k] = secrets[k] \/ secrets'[k].acid = newID
        /\ \A n \in Names : n # k => secrets'[n] = secrets[n]
    BY <1>a, <2>3 DEF TypeOK, ImmutableSecret
  <2>5. \A n \in Names : secrets[n].ex => secrets[n].acid # newID
    BY <2>2 DEF NewUnstored
  <2>n. cr.exists /\ ~cr.deleting /\ secrets' # secrets => k \notin StatusNames(cr)
    <3>1. CASE DistinctNames
      BY <2>2, <2>k, <3>1 DEF NewUnstored
    <3>2. CASE "remove" \notin UserOps
      BY <2>3, <3>2 DEF StatusPresent
    <3>3. CASE "lost" \notin Faults
      BY <1>6, <3>3 DEF StoreSecretFails, MayFail
    <3> QED BY <1>b, <3>1, <3>2, <3>3 DEF NamesSafe
  <2>6. IDsKnown' /\ StatusNames(cr)' = StatusNames(cr)
    BY <1>a, <2>2 DEF TypeInv, StatusNames
  <2>7. SecretsDistinct'
    BY <2>1, <2>2, <2>4, <2>5 DEF SecretsDistinct
  <2>8. StatusNamesKnown' /\ SingleWriter'
    BY <2>2, <2>6 DEF StatusNamesKnown, NameKnown, SingleWriter, memVars
  <2>9. NewUnstored'
    BY <2>2, <2>4, <2>5, <2>6, <2>k, <2>n DEF NewUnstored, memVars
  <2>10. CleanupElsewhere' /\ DeletingSticks' /\ PatchSafe'
    BY <2>2 DEF CleanupElsewhere, DeletingSticks, DeletionPCs, PatchSafe
  <2>11. CredentialsUsable'
    BY <1>c, <1>d, <2>2, <2>4, <2>6, <2>n DEF CredentialsUsable, Usable
  <2> QED BY <1>a, <2>6, <2>7, <2>8, <2>9, <2>10, <2>11
<1>7. CASE RevokeNew
  <2> USE DEF Inv, StatusProtected
  <2>1. /\ UNCHANGED <<crVars, secVars, used>> /\ pc = "unstore" /\ pc' = "patch"
        /\ inst' = inst /\ base' = base /\ live \ {newID} \subseteq live'
    BY <1>7 DEF RevokeNew, Return
  <2>2. NewUnstored' /\ CleanupElsewhere' /\ pc' \notin DeletionPCs
    BY <2>1 DEF NewUnstored, CleanupElsewhere, DeletionPCs
  <2>3. cr.exists /\ ~cr.deleting =>
          \A n \in StatusNames(cr) : secrets[n].ex => secrets[n].acid # newID
    BY <1>c, <2>1 DEF NewUnstored
  <2>4. cr.exists /\ ~cr.deleting => \A n \in StatusNames(cr) : Usable(n)'
    BY <1>d, <2>1, <2>3 DEF Usable, secVars
  <2> QED BY <1>a, <2>1, <2>2, <2>4, InsideStep DEF secVars
<1>8. CASE EnsureServiceLabel
  <2>1. /\ UNCHANGED <<crVars, secCache, live, used>> /\ UNCHANGED memVars
        /\ pc \in {"label", "dlabel"} /\ pc' = IF pc = "label" THEN "gate" ELSE "dlist"
    BY <1>8 DEF EnsureServiceLabel, Goto, ksVars
  <2>2. \A n \in Names : /\ secrets'[n].ex = secrets[n].ex /\ secrets'[n].acid = secrets[n].acid
                         /\ secrets'[n].fin = secrets[n].fin
    <3>1. PICK L \in SUBSET Unlabelled :
            secrets' = [n \in Names |->
              IF n \in L THEN [secrets[n] EXCEPT !.label = TRUE] ELSE secrets[n]]
      BY <1>8 DEF EnsureServiceLabel
    <3> QED BY <1>a, <3>1 DEF TypeOK, Secret
  <2>3. NewUnstored' /\ CleanupElsewhere' /\ (pc' \in DeletionPCs => cr.deleting)
    BY <2>1 DEF NewUnstored, CleanupElsewhere, DeletionPCs, Inv, StatusProtected, DeletingSticks
  <2>4. cr.exists /\ ~cr.deleting => \A n \in StatusNames(cr) : Usable(n)'
    BY <1>c, <1>d, <2>1, <2>2 DEF Usable
  <2> QED BY <1>a, <2>1, <2>2, <2>3, <2>4, InsideStep DEF memVars
<1>10. CASE CleanupList
  <2> USE DEF Inv, StatusProtected
  <2>1. /\ UNCHANGED <<crVars, secVars, live, used, inst, base>> /\ pc = "list" /\ pc' = "next"
        /\ listed' = LabelledSecrets
        /\ todo' = {n \in Names : Unused(LabelledSecrets, n, inst)}
    BY <1>10 DEF CleanupList, ksVars
  <2>2. \A n \in todo' : n \in Names /\ n \notin StatusNames(cr) /\ listed'[n].ex
    BY <2>1 DEF Unused, StatusNames, SingleWriter
  <2>3. \A n \in Names : listed'[n].ex => secrets[n].ex /\ listed'[n].acid = secrets[n].acid
    BY <2>1 DEF LabelledSecrets, NoSecret
  <2>4. StatusNames(cr)' = StatusNames(cr)
    BY <2>1 DEF StatusNames, crVars
  <2>5. NewUnstored' /\ CleanupElsewhere' /\ pc' \notin DeletionPCs
    BY <2>1, <2>2, <2>3, <2>4
       DEF NewUnstored, CleanupElsewhere, DeletionPCs, SecretsDistinct, secVars
  <2>6. cr.exists /\ ~cr.deleting => \A n \in StatusNames(cr) : Usable(n)'
    BY <1>d, <2>1 DEF Usable, secVars
  <2> QED BY <1>a, <2>1, <2>5, <2>6, InsideStep DEF secVars
<1>11. ASSUME NEW n \in Names, CleanupRevoke(n) PROVE StatusProtected'
  <2> USE DEF Inv, StatusProtected
  <2>1. /\ UNCHANGED <<crVars, secVars, used, inst, base, listed>> /\ pc = "next" /\ pc' = "strip"
        /\ n \in todo /\ todo' = todo \ {n} /\ cur' = n /\ live' = live \ {listed[n].acid}
    BY <1>11 DEF CleanupRevoke
  <2>2. n \notin StatusNames(cr) /\ n # None
    BY <2>1 DEF CleanupElsewhere
  <2>3. \A m \in StatusNames(cr) : secrets[m].ex => secrets[m].acid # listed[n].acid
    BY <1>c, <2>1, <2>2 DEF CleanupElsewhere
  <2>4. StatusNames(cr)' = StatusNames(cr)
    BY <2>1 DEF StatusNames, crVars
  <2>5. NewUnstored' /\ CleanupElsewhere' /\ pc' \notin DeletionPCs
    BY <2>1, <2>2, <2>4 DEF NewUnstored, CleanupElsewhere, DeletionPCs, secVars
  <2>6. cr.exists /\ ~cr.deleting => \A m \in StatusNames(cr) : Usable(m)'
    BY <1>d, <2>1, <2>3 DEF Usable, secVars
  <2> QED BY <1>a, <2>1, <2>5, <2>6, InsideStep DEF secVars
<1>12. CASE CleanupStrip
  <2> USE DEF Inv, StatusProtected
  <2>1. /\ UNCHANGED <<crVars, secCache, live, used, inst, base>> /\ pc = "strip"
        /\ pc' \in {"delete", "patch"} /\ (pc' = "delete" => UNCHANGED <<listed, todo, cur>>)
    BY <1>12 DEF CleanupStrip, Goto, Return, memVars, ksVars
  <2>2. cur \in Names /\ cur \notin StatusNames(cr)
    BY <1>a, <2>1 DEF CleanupElsewhere, TypeOK, Name
  <2>3. /\ \A n \in Names : n # cur => secrets'[n] = secrets[n]
        /\ secrets'[cur].ex => secrets[cur].ex /\ secrets'[cur].acid = secrets[cur].acid
    <3>1. \/ secrets' = secrets
          \/ secrets' = [secrets EXCEPT ![cur] = Settled([secrets[cur] EXCEPT !.fin = FALSE])]
      BY <1>12 DEF CleanupStrip, Conflict, Unprotect
    <3>2. secrets \in [Names -> Secret] /\ secrets[cur] \in Secret
      BY <1>a, <2>2 DEF TypeOK
    <3>3. Settled([secrets[cur] EXCEPT !.fin = FALSE]).ex =>
            secrets[cur].ex /\ Settled([secrets[cur] EXCEPT !.fin = FALSE]).acid = secrets[cur].acid
      BY <3>2, SecretSteps
    <3> QED BY <2>2, <3>1, <3>2, <3>3
  <2>4. StatusNames(cr)' = StatusNames(cr)
    BY <2>1 DEF StatusNames, crVars
  <2>5. NewUnstored' /\ CleanupElsewhere' /\ pc' \notin DeletionPCs
    BY <2>1, <2>3, <2>4 DEF NewUnstored, CleanupElsewhere, DeletionPCs
  <2>6. cr.exists /\ ~cr.deleting => \A n \in StatusNames(cr) : Usable(n)'
    BY <1>c, <1>d, <2>1, <2>2, <2>3 DEF Usable
  <2>7. \A n \in Names : secrets'[n].ex => secrets[n].ex /\ secrets'[n].acid = secrets[n].acid
    BY <2>3
  <2> QED BY <1>a, <2>1, <2>5, <2>6, <2>7, InsideStep
<1>13. CASE CleanupDelete
  <2> USE DEF Inv, StatusProtected
  <2>1. /\ UNCHANGED <<crVars, secCache, live, used>> /\ UNCHANGED memVars
        /\ pc = "delete" /\ pc' = "next"
    BY <1>13 DEF CleanupDelete, Goto, ksVars
  <2>2. cur \in Names /\ cur \notin StatusNames(cr)
    BY <1>a, <2>1 DEF CleanupElsewhere, TypeOK, Name
  <2>3. /\ \A n \in Names : n # cur => secrets'[n] = secrets[n]
        /\ secrets'[cur].ex => secrets[cur].ex /\ secrets'[cur].acid = secrets[cur].acid
    <3>1. secrets' = [secrets EXCEPT ![cur] = Deleted(secrets[cur])]
      BY <1>13 DEF CleanupDelete
    <3>2. secrets \in [Names -> Secret] /\ secrets[cur] \in Secret
      BY <1>a, <2>2 DEF TypeOK
    <3>3. Deleted(secrets[cur]).ex =>
            secrets[cur].ex /\ Deleted(secrets[cur]).acid = secrets[cur].acid
      BY <3>2, SecretSteps
    <3> QED BY <2>2, <3>1, <3>2, <3>3
  <2>4. StatusNames(cr)' = StatusNames(cr)
    BY <2>1 DEF StatusNames, crVars
  <2>5. NewUnstored' /\ CleanupElsewhere' /\ pc' \notin DeletionPCs
    BY <2>1, <2>3, <2>4 DEF NewUnstored, CleanupElsewhere, DeletionPCs, memVars
  <2>6. cr.exists /\ ~cr.deleting => \A n \in StatusNames(cr) : Usable(n)'
    BY <1>c, <1>d, <2>1, <2>2, <2>3 DEF Usable
  <2>7. \A n \in Names : secrets'[n].ex => secrets[n].ex /\ secrets'[n].acid = secrets[n].acid
    BY <2>3
  <2> QED BY <1>a, <2>1, <2>5, <2>6, <2>7, InsideStep DEF memVars
<1>14. CASE DeleteList \/ DeleteStrip \/ DeleteFallback \/ \E n \in Names : DeleteRevoke(n)
  <2> USE DEF Inv, StatusProtected
  <2>1. pc \in {"dlist", "dstrip", "dnext"} /\ pc' \in {"dnext", "dstrip", "patch"}
    BY <1>14 DEF DeleteList, DeleteStrip, DeleteFallback, DeleteRevoke, Goto, Return
  <2>2. UNCHANGED <<crVars, secCache, used, base>>
    BY <1>14 DEF DeleteList, DeleteStrip, DeleteFallback, DeleteRevoke, Goto, Return, memVars, ksVars, secVars
  <2>3. inst'.sec = inst.sec /\ inst'.prev = inst.prev
    BY <1>14, <1>a DEF DeleteList, DeleteStrip, DeleteFallback, DeleteRevoke, Goto, Return, memVars, TypeOK, CR
  <2>4. cr.deleting /\ NewUnstored' /\ CleanupElsewhere'
    BY <2>1 DEF NewUnstored, CleanupElsewhere, DeletionPCs, DeletingSticks
  <2>5. \A n \in Names : secrets'[n].ex => secrets[n].ex /\ secrets'[n].acid = secrets[n].acid
    <3>1. CASE DeleteList \/ \E n \in Names : DeleteRevoke(n)
      BY <3>1 DEF DeleteList, DeleteRevoke, secVars
    <3>a. /\ secrets \in [Names -> Secret]
          /\ \A n \in Names : Settled([secrets[n] EXCEPT !.fin = FALSE]).ex =>
               secrets[n].ex /\ Settled([secrets[n] EXCEPT !.fin = FALSE]).acid = secrets[n].acid
      BY <1>a, SecretSteps DEF TypeOK
    <3>2. CASE DeleteStrip
      <4>1. \/ secrets' = secrets
            \/ secrets' = [secrets EXCEPT ![cur] = Settled([secrets[cur] EXCEPT !.fin = FALSE])]
        BY <3>2 DEF DeleteStrip, Conflict, Unprotect
      <4> QED BY <3>a, <4>1
    <3>3. CASE DeleteFallback
      <4>1. PICK S \in SUBSET {n \in Fallback : secrets[n] = SecretView[n]} :
              secrets' = [n \in Names |->
                IF n \in S THEN Settled([secrets[n] EXCEPT !.fin = FALSE]) ELSE secrets[n]]
        BY <3>3 DEF DeleteFallback
      <4> QED BY <3>a, <4>1
    <3> QED BY <1>14, <3>1, <3>2, <3>3
  <2> QED BY <1>a, <2>1, <2>2, <2>3, <2>4, <2>5, InsideStep
<1>18. CASE PatchInstance
  <2> USE DEF Inv, StatusProtected
  <2>1. UNCHANGED <<crCache, secrets, secCache, live, used>> /\ pc = "patch" /\ pc' = "idle"
    BY <1>18 DEF PatchInstance, Forget, secVars, ksVars
  <2>2. base.sec = cr.sec /\ base.prev = cr.prev
    BY <2>1 DEF SingleWriter
  <2>3. \A c \in CR : /\ GoneCR(c).sec = c.sec /\ GoneCR(c).prev = c.prev
                      /\ GoneCR(c).deleting = c.deleting /\ (GoneCR(c).exists => c.exists)
    BY DEF GoneCR, CR
  <2>4. /\ PatchMetadata(cr) \in CR /\ PatchStatus(PatchMetadata(cr)) \in CR
        /\ PatchMetadata(cr).sec = cr.sec /\ PatchMetadata(cr).prev = cr.prev
        /\ PatchMetadata(cr).deleting = cr.deleting /\ PatchMetadata(cr).exists = cr.exists
    BY <1>a, PatchTypes DEF TypeOK, PatchMetadata, CR
  <2>5. /\ PatchStatus(PatchMetadata(cr)).sec = inst.sec
        /\ PatchStatus(PatchMetadata(cr)).prev = inst.prev
        /\ PatchStatus(PatchMetadata(cr)).deleting = cr.deleting
        /\ PatchStatus(PatchMetadata(cr)).exists = cr.exists
    BY <1>a, <2>2, <2>4 DEF TypeOK, PatchStatus, Merge, CR
  <2>6. /\ cr'.deleting = cr.deleting /\ (cr'.exists => cr.exists)
        /\ \/ cr'.sec = cr.sec /\ cr'.prev = cr.prev
           \/ cr'.sec = inst.sec /\ cr'.prev = inst.prev
    <3>1. \/ cr' = GoneCR(PatchStatus(PatchMetadata(cr)))
          \/ cr' = cr
          \/ cr' = GoneCR(PatchMetadata(cr))
      BY <1>18 DEF PatchInstance
    <3> QED BY <3>1, <2>3, <2>4, <2>5
  <2>7. StatusNames(cr') = StatusNames(cr) \/ StatusNames(cr') = StatusNames(inst)
    BY <2>6 DEF StatusNames
  <2>8. IDsKnown' /\ SecretsDistinct' /\ SingleWriter' /\ DeletingSticks'
    BY <1>a, <2>1, <2>6
       DEF TypeInv, SecretsDistinct, SingleWriter, DeletingSticks, DeletionPCs
  <2>9. StatusNamesKnown'
    BY <2>1, <2>7 DEF StatusNamesKnown, NameKnown
  <2>10. NewUnstored' /\ CleanupElsewhere' /\ PatchSafe'
    BY <2>1 DEF NewUnstored, CleanupElsewhere, PatchSafe
  <2>11. CredentialsUsable'
    BY <1>d, <2>1, <2>6, <2>7 DEF CredentialsUsable, PatchSafe, Usable
  <2> QED BY <1>a, <2>8, <2>9, <2>10, <2>11
<1>19. CASE Crash
  <2> USE DEF Inv, StatusProtected
  <2>1. UNCHANGED <<cr, crCache, secrets, secCache, live, used>> /\ pc' = "idle"
    BY <1>19 DEF Crash, Forget, crVars, secVars, ksVars
  <2>2. StatusNames(cr)' = StatusNames(cr)
    BY <2>1 DEF StatusNames
  <2>3. IDsKnown' /\ SecretsDistinct' /\ StatusNamesKnown' /\ SingleWriter' /\ DeletingSticks'
    BY <1>a, <2>1, <2>2
       DEF TypeInv, SecretsDistinct, StatusNamesKnown, NameKnown, SingleWriter, DeletingSticks, DeletionPCs
  <2>4. NewUnstored' /\ CleanupElsewhere' /\ PatchSafe' /\ CredentialsUsable'
    BY <2>1, <2>2 DEF NewUnstored, CleanupElsewhere, PatchSafe, CredentialsUsable, Usable
  <2> QED BY <1>a, <2>3, <2>4
<1>20. CASE Cluster
  <2>1. CASE SyncCR \/ SyncSecrets \/ CalmDown
    <3>1. StatusKept /\ SecretsKept /\ secCache' \in {secCache, secrets}
      BY <2>1 DEF SyncCR, SyncSecrets, CalmDown, StatusKept, SecretsKept, crVars, secVars,
                  Inv, StatusProtected, DeletingSticks
    <3> QED BY <1>a, <2>1, <3>1, OutsideStep DEF SyncCR, SyncSecrets, CalmDown, ksVars
  <2>2. ASSUME NEW n \in Names, GarbageCollect(n) PROVE StatusProtected'
    <3>1. StatusKept /\ SecretsKept /\ secCache' = secCache
      BY ZenonT(30), <1>a, <2>2, SecretSteps
         DEF GarbageCollect, StatusKept, SecretsKept, TypeOK, crVars, Inv, StatusProtected, DeletingSticks
    <3> QED BY <1>a, <2>2, <3>1, OutsideStep DEF GarbageCollect, ksVars
  <2> QED BY <1>20, <2>1, <2>2 DEF Cluster
<1>21. CASE Consuming
  <2>1. CASE ConsumerNotice \/ ConsumerRender \/ DeployNodes
    <3>1. StatusKept /\ SecretsKept /\ secCache' = secCache
      BY <2>1 DEF ConsumerNotice, ConsumerRender, DeployNodes, StatusKept, SecretsKept, crVars, secVars,
                  Inv, StatusProtected, DeletingSticks
    <3> QED BY <1>a, <2>1, <3>1, OutsideStep DEF ConsumerNotice, ConsumerRender, DeployNodes, ksVars
  <2>2. CASE ConsumerAttach
    <3>1. StatusKept /\ SecretsKept /\ secCache' = secCache
      BY <1>a, <2>2 DEF ConsumerAttach, StatusKept, SecretsKept, TypeOK, Secret, crVars,
                        Inv, StatusProtected, DeletingSticks
    <3> QED BY <1>a, <2>2, <3>1, OutsideStep DEF ConsumerAttach, ksVars
  <2>3. CASE ConsumerRelease
    <3>1. /\ secrets \in [Names -> Secret]
          /\ \A n \in Names : Settled([secrets[n] EXCEPT !.held = FALSE]).ex =>
               /\ secrets[n].ex /\ Settled([secrets[n] EXCEPT !.held = FALSE]).acid = secrets[n].acid
               /\ Settled([secrets[n] EXCEPT !.held = FALSE]).fin = secrets[n].fin
      BY <1>a, SecretSteps DEF TypeOK
    <3>2. \/ secrets' = secrets
          \/ secrets' = [secrets EXCEPT ![use] = Settled([secrets[use] EXCEPT !.held = FALSE])]
      BY <2>3 DEF ConsumerRelease
    <3>3. SecretsKept
      BY <3>1, <3>2 DEF SecretsKept
    <3>4. StatusKept /\ secCache' = secCache
      BY <2>3 DEF ConsumerRelease, StatusKept, crVars, Inv, StatusProtected, DeletingSticks
    <3> QED BY <1>a, <2>3, <3>3, <3>4, OutsideStep DEF ConsumerRelease, ksVars
  <2> QED BY <1>21, <2>1, <2>2, <2>3 DEF Consuming
<1>22. CASE Users
  <2>1. CASE EditSpec \/ DeleteCR
    <3>1. StatusKept
      BY ZenonT(30), <1>a, <2>1 DEF EditSpec, DeleteCR, GoneCR, StatusKept, TypeOK, CR, Inv, StatusProtected, DeletingSticks
    <3>2. SecretsKept /\ secCache' = secCache
      BY <2>1 DEF EditSpec, DeleteCR, SecretsKept, secVars
    <3> QED BY <1>a, <2>1, <3>1, <3>2, OutsideStep DEF EditSpec, DeleteCR, ksVars
  <2>2. CASE TimePasses \/ LowerGrace
    <3>1. StatusKept /\ SecretsKept /\ secCache' = secCache
      BY <2>2 DEF TimePasses, LowerGrace, StatusKept, SecretsKept, crVars, secVars,
                  Inv, StatusProtected, DeletingSticks
    <3> QED BY <1>a, <2>2, <3>1, OutsideStep DEF TimePasses, LowerGrace
  <2>3. ASSUME NEW n \in Names, RemoveSecret(n) PROVE StatusProtected'
    <3>1. StatusKept /\ SecretsKept /\ secCache' = secCache
      BY <1>a, <2>3 DEF RemoveSecret, NoSecret, StatusKept, SecretsKept, TypeOK, crVars,
                        Inv, StatusProtected, DeletingSticks
    <3> QED BY <1>a, <2>3, <3>1, OutsideStep DEF RemoveSecret, ksVars
  <2> QED BY <1>22, <2>1, <2>2, <2>3 DEF Users
<1>23. CASE UNCHANGED vars
  <2>1. StatusKept /\ SecretsKept /\ secCache' = secCache
    BY <1>23 DEF vars, StatusKept, SecretsKept, crVars, secVars, Inv, StatusProtected, DeletingSticks
  <2> QED BY <1>a, <1>23, <2>1, OutsideStep DEF vars, ksVars
<1> QED
  BY <1>1, <1>2, <1>3, <1>4, <1>5, <1>6, <1>7, <1>8, <1>10, <1>11, <1>12, <1>13, <1>14, <1>18,
     <1>19, <1>20, <1>21, <1>22, <1>23
     DEF Next, Controller, Rotation, RotationFails, Cleanup, Deletion

\* CredentialsStayUsable: as long as a reconcile starts from the status the last
\* one wrote, and either names of Secrets do not collide or nobody removes Secrets
\* by hand or no answer of the API server is lost, no rotation, cleanup, crash, lost
\* answer, lagging Secret cache, consumer or user leaves the status of a CR with
\* a current or previous Secret whose credential is revoked or unprotected.
THEOREM CredentialsStayUsable ==
  ~StaleCR /\ NamesSafe /\ Spec => []CredentialsUsable
<1>1. Conditions /\ Spec => []Inv
  BY ProtectedInit, ProtectedStep, PTL DEF Spec
<1>2. Inv => CredentialsUsable
  BY DEF Inv, StatusProtected
<1>3. ~StaleCR /\ NamesSafe => Conditions
  BY DEF Conditions
<1> QED BY <1>1, <1>2, <1>3, PTL

\* StatusStaysProtected: the same for the inductive invariant itself.
THEOREM StatusStaysProtected ==
  ~StaleCR /\ NamesSafe /\ Spec => []StatusProtected
<1>1. Conditions /\ Spec => []Inv
  BY ProtectedInit, ProtectedStep, PTL DEF Spec
<1>2. Inv => StatusProtected
  BY DEF Inv
<1>3. ~StaleCR /\ NamesSafe => Conditions
  BY DEF Conditions
<1> QED BY <1>1, <1>2, <1>3, PTL
----------------------------------------------------------------------------
(* A credential a consumer holds is not revoked.  StatusProtected says that *)
(* the cleanup stays away from the status; what has to be added is that     *)
(* nobody attaches to what the cleanup has listed, which is so when the     *)
(* consumer attaches only to the current or the previous Secret.            *)

\* A consumer's finalizer is on a Secret that is there.
HeldExists == \A n \in Names : secrets[n].held => secrets[n].ex

\* Nobody holds the credential that is revoked because it could not be stored.
NewUnheld ==
  pc = "unstore" /\ cr.exists /\ ~cr.deleting =>
    \A n \in Names : secrets[n].held => secrets[n].acid # newID

\* Nobody holds a Secret the cleanup still has to process.
TodoUnheld ==
  pc \in {"next", "strip", "delete"} => \A n \in todo : ~secrets[n].held

HoldInv == HeldExists /\ NewUnheld /\ TodoUnheld /\ HeldCredentialLive

\* A fresh CR has no Secret and that of an older release is held by nobody.
LEMMA HoldInit == Init => HoldInv
<1> SUFFICES ASSUME Init PROVE HoldInv
  OBVIOUS
<1>1. pc = "idle" /\ \A n \in Names : ~secrets[n].held
  <2>1. CASE FreshInit
    BY <2>1 DEF Init, FreshInit, NoSecret
  <2>2. CASE UpgradedInit
    <3>1. PICK id \in ACIDs :
            secrets = [n \in Names |->
              IF n = LegacyName THEN [ImmutableSecret(id) EXCEPT !.label = FALSE]
              ELSE NoSecret]
      BY <2>2 DEF UpgradedInit
    <3> QED BY <3>1 DEF Init, ImmutableSecret, NoSecret
  <2> QED BY <2>1, <2>2 DEF Init
<1> QED BY <1>1 DEF HoldInv, HeldExists, NewUnheld, TodoUnheld, HeldCredentialLive

\* No Secret is held that was not, and one still held has kept its credential.
HoldsKept ==
  \A n \in Names :
    secrets'[n].held =>
      secrets[n].held /\ secrets'[n].ex /\ secrets'[n].acid = secrets[n].acid

\* What updates, labels and Delete calls leave of a held Secret.
LEMMA HeldSecretSteps ==
  ASSUME NEW s \in Secret, s.held => s.ex
  PROVE  /\ Deleted(s).held => s.held /\ Deleted(s).ex /\ Deleted(s).acid = s.acid
         /\ Settled([s EXCEPT !.fin = FALSE]).held =>
              /\ s.held /\ Settled([s EXCEPT !.fin = FALSE]).ex
              /\ Settled([s EXCEPT !.fin = FALSE]).acid = s.acid
         /\ ~Settled([s EXCEPT !.held = FALSE]).held
         /\ [s EXCEPT !.label = TRUE].held = s.held /\ [s EXCEPT !.label = TRUE].ex = s.ex
         /\ [s EXCEPT !.label = TRUE].acid = s.acid
BY DEF Deleted, Settled, Secret, NoSecret

\* No step but the consumer's makes a Secret held.
LEMMA OnlyConsumersHold ==
  ASSUME TypeInv, HeldExists, [Next]_vars, ~ConsumerAttach
  PROVE  HoldsKept
<1> USE DEF HeldExists, HoldsKept
<1>a. secrets \in [Names -> Secret] /\ \A n \in Names : secrets[n] \in Secret
  BY DEF TypeInv, TypeOK
<1>b. ASSUME NEW n \in Names
      PROVE  /\ Deleted(secrets[n]).held =>
                  /\ secrets[n].held /\ Deleted(secrets[n]).ex
                  /\ Deleted(secrets[n]).acid = secrets[n].acid
             /\ Settled([secrets[n] EXCEPT !.fin = FALSE]).held =>
                  /\ secrets[n].held /\ Settled([secrets[n] EXCEPT !.fin = FALSE]).ex
                  /\ Settled([secrets[n] EXCEPT !.fin = FALSE]).acid = secrets[n].acid
             /\ ~Settled([secrets[n] EXCEPT !.held = FALSE]).held
  BY <1>a, HeldSecretSteps
<1>1. CASE secrets' = secrets
  BY <1>1
<1>2. ASSUME NEW n \in Names, NEW id, ~secrets[n].ex,
             secrets' = [secrets EXCEPT ![n] = ImmutableSecret(id)]
      PROVE  HoldsKept
  BY <1>a, <1>2 DEF ImmutableSecret
<1>3. CASE StoreSecret \/ StoreSecretFails
  <2>1. acSecretName[newID] \in Names
    BY <1>3, ConstantsAssumption DEF TypeInv, TypeOK, IDsKnown, StoreSecret, StoreSecretFails
  <2> QED BY <1>1, <1>2, <1>3, <2>1 DEF StoreSecret, StoreSecretFails
<1>4. CASE EnsureServiceLabel
  <2>1. PICK L \in SUBSET Unlabelled :
          secrets' = [n \in Names |->
            IF n \in L THEN [secrets[n] EXCEPT !.label = TRUE] ELSE secrets[n]]
    BY <1>4 DEF EnsureServiceLabel
  <2> QED BY <1>a, <2>1, HeldSecretSteps
<1>5. CASE CleanupStrip \/ DeleteStrip
  <2>1. \/ secrets' = secrets
        \/ secrets' = [secrets EXCEPT ![cur] = Settled([secrets[cur] EXCEPT !.fin = FALSE])]
    BY <1>5 DEF CleanupStrip, DeleteStrip, Conflict, Unprotect
  <2> QED BY <1>a, <1>b, <2>1
<1>6. CASE CleanupDelete
  BY <1>a, <1>b, <1>6 DEF CleanupDelete
<1>7. CASE DeleteFallback
  <2>1. PICK S \in SUBSET {n \in Fallback : secrets[n] = SecretView[n]} :
          secrets' = [n \in Names |->
            IF n \in S THEN Settled([secrets[n] EXCEPT !.fin = FALSE]) ELSE secrets[n]]
    BY <1>7 DEF DeleteFallback
  <2> QED BY <1>a, <1>b, <2>1
<1>8. CASE \E n \in Names : GarbageCollect(n)
  <2>1. PICK n \in Names : secrets' = [secrets EXCEPT ![n] = Deleted(secrets[n])]
    BY <1>8 DEF GarbageCollect
  <2> QED BY <1>a, <1>b, <2>1
<1>9. CASE ConsumerRelease
  <2>1. \/ secrets' = secrets
        \/ secrets' = [secrets EXCEPT ![use] = Settled([secrets[use] EXCEPT !.held = FALSE])]
    BY <1>9 DEF ConsumerRelease
  <2> QED BY <1>a, <1>b, <2>1
<1>10. CASE \E n \in Names : RemoveSecret(n)
  BY <1>a, <1>10 DEF RemoveSecret, NoSecret
<1>11. CASE Reconcile \/ Decide \/ CreateACFails \/ RevokeNew \/ (\E id \in ACIDs : CreateAC(id))
  BY <1>1, <1>11 DEF Reconcile, Decide, CreateACFails, RevokeNew, CreateAC, secVars
<1>12. CASE CleanupGate \/ CleanupList \/ CleanupEnds \/ (\E n \in Names : CleanupRevoke(n))
  BY <1>1, <1>12 DEF CleanupGate, CleanupList, CleanupEnds, CleanupRevoke, secVars
<1>13. CASE DeleteGate \/ DeleteList \/ PatchInstance \/ Crash \/ (\E n \in Names : DeleteRevoke(n))
  BY <1>1, <1>13 DEF DeleteGate, DeleteList, PatchInstance, Crash, DeleteRevoke, secVars
<1>14. CASE SyncCR \/ SyncSecrets \/ CalmDown \/ ConsumerNotice \/ ConsumerRender \/ DeployNodes
  BY <1>1, <1>14 DEF SyncCR, SyncSecrets, CalmDown, ConsumerNotice, ConsumerRender, DeployNodes, secVars
<1>15. CASE EditSpec \/ DeleteCR \/ TimePasses \/ LowerGrace
  BY <1>1, <1>15 DEF EditSpec, DeleteCR, TimePasses, LowerGrace, secVars
<1>16. CASE UNCHANGED vars
  BY <1>1, <1>16 DEF vars, secVars
<1> QED
  BY <1>3, <1>4, <1>5, <1>6, <1>7, <1>8, <1>9, <1>10, <1>11, <1>12, <1>13, <1>14, <1>15, <1>16
     DEF Next, Controller, Rotation, RotationFails, Cleanup, Deletion, Cluster, Consuming, Users

\* Only a consumer that there is wants a Secret.
WantJustified == Consumer = "none" => want = None

\* No step but the consumer's own makes it want another Secret.
LEMMA WantStep == WantJustified /\ [Next]_vars => WantJustified'
<1> SUFFICES ASSUME WantJustified, [Next]_vars, Consumer = "none" PROVE want' = want
  BY DEF WantJustified
<1>1. CASE Reconcile \/ Decide \/ Rotation \/ RotationFails
  BY <1>1
     DEF Reconcile, Decide, Rotation, RotationFails, CreateAC, StoreSecret, CreateACFails,
         StoreSecretFails, RevokeNew, userVars
<1>2. CASE Cleanup
  BY <1>2
     DEF Cleanup, EnsureServiceLabel, CleanupGate, CleanupList, CleanupRevoke, CleanupStrip,
         CleanupDelete, CleanupEnds, userVars
<1>3. CASE Deletion \/ PatchInstance \/ Crash
  BY <1>3
     DEF Deletion, DeleteGate, DeleteList, DeleteRevoke, DeleteStrip, DeleteFallback,
         PatchInstance, Crash, userVars
<1>4. CASE Cluster \/ Users
  BY <1>4
     DEF Cluster, SyncCR, SyncSecrets, CalmDown, GarbageCollect, Users, EditSpec, DeleteCR,
         TimePasses, LowerGrace, RemoveSecret, userVars
<1>5. CASE Consuming
  BY <1>5
     DEF Consuming, ConsumerNotice, ConsumerAttach, ConsumerRender, ConsumerRelease, DeployNodes,
         userVars
<1>6. CASE UNCHANGED vars
  BY <1>6 DEF vars, userVars
<1> QED BY <1>1, <1>2, <1>3, <1>4, <1>5, <1>6 DEF Next, Controller

\* Steps at whose end the cleanup has no more to do than before, that revoke
\* nothing held and that let nobody attach.
LEMMA HoldsKeptStep ==
  ASSUME HoldInv, HoldsKept,
         cr'.exists /\ ~cr'.deleting => cr.exists /\ ~cr.deleting,
         cr.exists /\ ~cr.deleting =>
           \A n \in Names : secrets[n].held /\ secrets[n].acid \in live => secrets[n].acid \in live',
         todo \subseteq Names, todo' \subseteq Names, NewUnheld',
         pc' \in {"next", "strip", "delete"} =>
           pc \in {"next", "strip", "delete"} /\ todo' \subseteq todo
  PROVE  HoldInv'
<1> USE DEF HoldInv, HoldsKept
<1>1. HeldExists'
  BY DEF HeldExists
<1>2. TodoUnheld'
  BY DEF TodoUnheld
<1>3. HeldCredentialLive'
  BY DEF HeldCredentialLive
<1> QED BY <1>1, <1>2, <1>3

\* Every step keeps what consumers hold, given that the status is protected.
LEMMA HoldStep ==
  Inv /\ HoldInv /\ WantJustified /\ Consumer # "slow" /\ [Next]_vars => HoldInv'
<1> SUFFICES ASSUME Inv, HoldInv, WantJustified, Consumer # "slow", [Next]_vars PROVE HoldInv'
  OBVIOUS
<1>a. TypeInv /\ TypeOK /\ TypeOK' /\ StatusProtected
  BY TypeStep DEF Inv, TypeInv
<1>b. cr'.exists /\ ~cr'.deleting => cr.exists /\ ~cr.deleting
  BY <1>a, DeletionStays
<1>c. todo \subseteq Names /\ todo' \subseteq Names
  BY <1>a DEF TypeOK
<1>d. HeldExists
  BY DEF HoldInv
<1>1. CASE ConsumerAttach
  <2>1. /\ want \in Names /\ want \in StatusNames(cr) /\ secrets[want].ex
        /\ secrets' = [secrets EXCEPT ![want].held = TRUE]
        /\ UNCHANGED <<cr, live, pc, newID, todo>>
    BY <1>1, <1>a, ConstantsAssumption
       DEF ConsumerAttach, WantJustified, TypeOK, Name, crVars, ksVars, memVars
  <2>2. /\ \A n \in Names : n # want => secrets'[n] = secrets[n]
        /\ secrets'[want].ex /\ secrets'[want].acid = secrets[want].acid
    BY <2>1, <1>a DEF TypeOK, Secret
  <2>3. HeldExists'
    BY <1>d, <2>2 DEF HeldExists
  <2>4. NewUnheld'
    BY <1>a, <1>b, <2>1, <2>2 DEF HoldInv, NewUnheld, StatusProtected, NewUnstored
  <2>5. TodoUnheld'
    BY <1>a, <1>c, <2>1, <2>2 DEF HoldInv, TodoUnheld, StatusProtected, CleanupElsewhere
  <2>6. HeldCredentialLive'
    BY <1>a, <2>1, <2>2
       DEF HoldInv, HeldCredentialLive, StatusProtected, CredentialsUsable, Usable
  <2> QED BY <2>3, <2>4, <2>5, <2>6 DEF HoldInv
<1>2. CASE ~ConsumerAttach
  <2>a. HoldsKept
    BY <1>2, <1>a, <1>d, OnlyConsumersHold
  <2> USE DEF HoldsKept
  <2>1. CASE StoreSecretFails
    <3>1. /\ UNCHANGED <<live, newID, todo>> /\ pc = "store" /\ pc' = "unstore"
      BY <2>1 DEF StoreSecretFails, Goto, ksVars, memVars
    <3>2. NewUnheld'
      BY <1>a, <1>d, <2>a, <3>1 DEF NewUnheld, HeldExists, StatusProtected, NewUnstored
    <3> QED BY <1>b, <1>c, <2>a, <3>1, <3>2, HoldsKeptStep
  <2>2. CASE RevokeNew
    <3>1. pc = "unstore" /\ pc' = "patch" /\ live \ {newID} \subseteq live'
      BY <2>2 DEF RevokeNew, Return
    <3>2. NewUnheld'
      BY <3>1 DEF NewUnheld
    <3>3. cr.exists /\ ~cr.deleting => \A n \in Names : secrets[n].held => secrets[n].acid # newID
      BY <3>1 DEF HoldInv, NewUnheld
    <3> QED BY <1>b, <1>c, <2>a, <3>1, <3>2, <3>3, HoldsKeptStep
  <2>3. CASE CleanupList
    <3>1. /\ UNCHANGED <<cr, secrets, live>> /\ pc' = "next"
          /\ todo' = {n \in Names : Unused(LabelledSecrets, n, inst)}
      BY <2>3 DEF CleanupList, crVars, secVars, ksVars
    <3>2. \A n \in todo' : ~secrets'[n].held
      BY <3>1 DEF Unused, LabelledSecrets, NoSecret, hasConsumerFinalizer
    <3>3. TodoUnheld' /\ NewUnheld'
      BY <3>1, <3>2 DEF TodoUnheld, NewUnheld
    <3>4. HeldExists' /\ HeldCredentialLive'
      BY <3>1 DEF HoldInv, HeldExists, HeldCredentialLive
    <3> QED BY <3>3, <3>4 DEF HoldInv
  <2>4. ASSUME NEW n \in Names, CleanupRevoke(n) PROVE HoldInv'
    <3>1. /\ pc = "next" /\ pc' = "strip" /\ n \in todo /\ todo' = todo \ {n}
          /\ live' = live \ {listed[n].acid}
      BY <2>4 DEF CleanupRevoke
    <3>2. \A m \in Names : secrets[m].held => secrets[m].acid # listed[n].acid
      BY <1>a, <1>d, <3>1 DEF HeldExists, HoldInv, TodoUnheld, StatusProtected, CleanupElsewhere
    <3>3. NewUnheld'
      BY <3>1 DEF NewUnheld
    <3> QED BY <1>b, <1>c, <2>a, <3>1, <3>2, <3>3, HoldsKeptStep
  <2>5. ASSUME NEW n \in Names, DeleteRevoke(n) PROVE HoldInv'
    <3>1. pc = "dnext" /\ pc' = "dstrip"
      BY <2>5 DEF DeleteRevoke
    <3>2. cr.deleting
      BY <1>a, <3>1 DEF StatusProtected, DeletingSticks, DeletionPCs
    <3>3. NewUnheld'
      BY <3>1 DEF NewUnheld
    <3> QED BY <1>b, <1>c, <2>a, <3>1, <3>2, <3>3, HoldsKeptStep
  <2>6. CASE CleanupStrip \/ CleanupDelete \/ CleanupEnds
    <3>1. /\ live' = live /\ pc \in {"list", "next", "strip", "delete"}
          /\ pc' \in {"next", "delete", "patch"}
          /\ pc' # "patch" => pc \in {"strip", "delete"} /\ todo' = todo
      BY <2>6 DEF CleanupStrip, CleanupDelete, CleanupEnds, Goto, Return, ksVars, memVars
    <3>2. NewUnheld'
      BY <3>1 DEF NewUnheld
    <3> QED BY <1>b, <1>c, <2>a, <3>1, <3>2, HoldsKeptStep
  <2>7. CASE Reconcile \/ Decide \/ StoreSecret \/ CreateACFails \/ (\E id \in ACIDs : CreateAC(id))
    <3>1. /\ live \subseteq live' /\ pc' \in {"patch", "decide", "dgate", "create", "label", "store"}
      BY <2>7 DEF Reconcile, Decide, StoreSecret, CreateACFails, CreateAC, Goto, Return, ksVars
    <3>2. NewUnheld'
      BY <3>1 DEF NewUnheld
    <3> QED BY <1>b, <1>c, <2>a, <3>1, <3>2, HoldsKeptStep
  <2>8. CASE EnsureServiceLabel \/ CleanupGate \/ PatchInstance \/ Crash
    <3>1. live' = live /\ pc' \in {"gate", "dlist", "list", "patch", "idle"}
      BY <2>8 DEF EnsureServiceLabel, CleanupGate, PatchInstance, Crash, Goto, Return, Forget, ksVars
    <3>2. NewUnheld'
      BY <3>1 DEF NewUnheld
    <3> QED BY <1>b, <1>c, <2>a, <3>1, <3>2, HoldsKeptStep
  <2>9. CASE DeleteGate \/ DeleteList \/ DeleteStrip \/ DeleteFallback
    <3>1. live' = live /\ pc' \in {"dlabel", "dnext", "patch"}
      BY <2>9 DEF DeleteGate, DeleteList, DeleteStrip, DeleteFallback, Goto, Return, ksVars
    <3>2. NewUnheld'
      BY <3>1 DEF NewUnheld
    <3> QED BY <1>b, <1>c, <2>a, <3>1, <3>2, HoldsKeptStep
  <2>10. CASE UNCHANGED <<live, pc, newID, todo>>
    <3>1. NewUnheld'
      BY <1>b, <2>10, <2>a DEF NewUnheld, HoldInv
    <3> QED BY <1>b, <1>c, <2>a, <2>10, <3>1, HoldsKeptStep
  <2>11. CASE Cluster \/ Users
    BY <2>10, <2>11
       DEF Cluster, SyncCR, SyncSecrets, CalmDown, GarbageCollect, Users, EditSpec, DeleteCR,
           TimePasses, LowerGrace, RemoveSecret, ksVars, memVars
  <2>12. CASE Consuming
    BY <1>2, <2>10, <2>12
       DEF Consuming, ConsumerNotice, ConsumerRender, ConsumerRelease, DeployNodes, ksVars, memVars
  <2>13. CASE UNCHANGED vars
    BY <2>10, <2>13 DEF vars, ksVars, memVars
  <2> QED
    BY <2>1, <2>2, <2>3, <2>4, <2>5, <2>6, <2>7, <2>8, <2>9, <2>11, <2>12, <2>13
       DEF Next, Controller, Rotation, RotationFails, Cleanup, Deletion
<1> QED BY <1>1, <1>2

\* HeldStaysLive: under the same conditions, a credential whose Secret a consumer
\* has put its finalizer on is not revoked while the CR is not being deleted,
\* provided consumers attach only to the current or the previous Secret of the
\* status: one that attaches to a Secret rotated away longer ago may do so between
\* the cleanup's list and its revocation.
THEOREM HeldStaysLive ==
  ~StaleCR /\ NamesSafe /\ Consumer # "slow" /\ Spec => []HeldCredentialLive
<1> DEFINE J == Inv /\ HoldInv /\ WantJustified /\ Consumer # "slow"
<1>1. ~StaleCR /\ NamesSafe /\ Consumer # "slow" /\ Init => J
  BY ProtectedInit, HoldInit DEF Conditions, Init, WantJustified
<1>2. J /\ [Next]_vars => J'
  BY ProtectedStep, HoldStep, WantStep
<1>3. J => HeldCredentialLive
  BY DEF HoldInv
<1>4. ~StaleCR /\ NamesSafe /\ Consumer # "slow" /\ Spec => []J
  <2> HIDE DEF J
  <2> QED BY <1>1, <1>2, PTL DEF Spec
<1> QED BY <1>3, <1>4, PTL
----------------------------------------------------------------------------
(* Deletion takes the finalizer off every labelled Secret before the CR     *)
(* goes.  Names of Secrets may collide here; what matters is that only a    *)
(* reconcile that has seen the deletion takes off the CR's own finalizer,   *)
(* that none before it creates a Secret for a CR without one, and that the  *)
(* single worker creates none while the deletion goes through its list.     *)

\* The CR goes only when its finalizer does, and the cache shows the deletion
\* before that.
FinalizerKept ==
  /\ crCache.deleting => cr.deleting
  /\ cr.exists /\ cr.deleting => cr.fin
  /\ crCache.exists /\ crCache.deleting => crCache.fin
  /\ crCache.exists /\ crCache.fin /\ ~crCache.deleting => cr.exists /\ cr.fin

Working == pc \notin {"idle", "patch"}

\* The final patch of a deletion that is complete.
LettingGo == pc = "patch" /\ ~inst.fin

\* What a reconcile can rely on while it runs.
ReconcileKnows ==
  /\ Working => inst.fin
  /\ Working /\ pc \notin DeletionPCs => cr.exists /\ cr.fin
  /\ pc \in DeletionPCs => crCache.deleting
  /\ LettingGo => crCache.deleting /\ inst.sec = base.sec /\ inst.prev = base.prev

\* A Secret without label is older than the cache, which shows it, and its
\* finalizer if it still has one.
UnlabelledSeen ==
  \A n \in Names :
    /\ secrets[n].fin => secrets[n].ex
    /\ secrets[n].ex /\ ~secrets[n].label =>
         SecretView[n].ex /\ (secrets[n].fin => SecretView[n].fin)

\* The deletion's list has all labelled Secrets, and those it has dealt with are free.
DeletionPass ==
  pc \in {"dnext", "dstrip"} =>
    \A n \in Names :
      /\ listed[n].ex /\ secrets[n].ex => secrets[n].label
      /\ secrets[n].label /\ secrets[n].fin =>
           listed[n].fin /\ (n \in todo \/ (pc = "dstrip" /\ n = cur))

\* No Secret that is labelled, or that a reconcile could still label, is protected.
Released == \A n \in Names : secrets[n].fin => ~secrets[n].label /\ n \notin StatusNames(cr)

\* So it is before the CR has its finalizer, in the last patch and after it.
ReleasedAtTheEnd ==
  /\ cr.exists /\ ~cr.fin => \A n \in Names : ~secrets[n].fin
  /\ ~cr.exists \/ LettingGo => Released

DeletionInv ==
  /\ FinalizerKept /\ ReconcileKnows /\ UnlabelledSeen /\ DeletionPass
  /\ ReleasedAtTheEnd /\ SingleWriter

\* It holds for a fresh CR and for one of an older release.
LEMMA DeletionInit == Init => DeletionInv
<1> SUFFICES ASSUME Init PROVE DeletionInv
  OBVIOUS
<1>1. pc = "idle" /\ crCache = cr /\ SecretView = secrets
  BY DEF Init, SecretView
<1>2. /\ cr.exists /\ ~cr.deleting
      /\ \A n \in Names : secrets[n].fin => secrets[n].ex /\ cr.fin
  <2>1. CASE FreshInit
    BY <2>1 DEF FreshInit, NewCR, NoSecret
  <2>2. CASE UpgradedInit
    <3>1. PICK id \in ACIDs :
            /\ cr = [NewCR EXCEPT !.fin = TRUE, !.init = TRUE, !.acid = id, !.sec = LegacyName]
            /\ secrets = [n \in Names |->
                 IF n = LegacyName THEN [ImmutableSecret(id) EXCEPT !.label = FALSE]
                 ELSE NoSecret]
      BY <2>2 DEF UpgradedInit
    <3> QED BY <3>1 DEF NewCR, ImmutableSecret, NoSecret
  <2> QED BY <2>1, <2>2 DEF Init
<1>3. FinalizerKept /\ ReconcileKnows /\ SingleWriter
  BY <1>1, <1>2
     DEF FinalizerKept, ReconcileKnows, Working, LettingGo, DeletionPCs, SingleWriter
<1>4. UnlabelledSeen /\ DeletionPass /\ ReleasedAtTheEnd
  BY <1>1, <1>2 DEF UnlabelledSeen, DeletionPass, ReleasedAtTheEnd, LettingGo
<1> QED BY <1>3, <1>4 DEF DeletionInv

\* Secrets only go, or lose their protection.
SecretsFade ==
  \A n \in Names :
    \/ secrets'[n] = NoSecret
    \/ /\ secrets'[n].ex = secrets[n].ex /\ secrets'[n].label = secrets[n].label
       /\ secrets'[n].fin => secrets[n].fin

\* What updates and Delete calls leave of a Secret.
LEMMA FadingSteps ==
  ASSUME NEW s \in Secret
  PROVE  /\ \/ Deleted(s) = NoSecret
            \/ Deleted(s).ex = s.ex /\ Deleted(s).label = s.label /\ Deleted(s).fin = s.fin
         /\ \/ Settled([s EXCEPT !.fin = FALSE]) = NoSecret
            \/ /\ Settled([s EXCEPT !.fin = FALSE]).ex = s.ex
               /\ Settled([s EXCEPT !.fin = FALSE]).label = s.label
         /\ ~Settled([s EXCEPT !.fin = FALSE]).fin
         /\ \/ Settled([s EXCEPT !.held = FALSE]) = NoSecret
            \/ /\ Settled([s EXCEPT !.held = FALSE]).ex = s.ex
               /\ Settled([s EXCEPT !.held = FALSE]).label = s.label
               /\ Settled([s EXCEPT !.held = FALSE]).fin = s.fin
         /\ [s EXCEPT !.held = TRUE].ex = s.ex /\ [s EXCEPT !.held = TRUE].label = s.label
         /\ [s EXCEPT !.held = TRUE].fin = s.fin
BY DEF Deleted, Settled, Secret, NoSecret

\* A Get shows what it showed, or the Secrets as they are now.
ViewMoves ==
  \A n \in Names : SecretView'[n] = SecretView[n] \/ SecretView'[n] = secrets'[n]

\* Reads of the API server follow it and the cache keeps what it has until it syncs.
LEMMA ViewStep ==
  ASSUME secCache' = secCache \/ (secCache' = secrets /\ secrets' = secrets)
  PROVE  ViewMoves
BY DEF ViewMoves, SecretView

\* Steps in which Secrets fade keep what is known of unlabelled ones.
LEMMA FadingKeepsView ==
  ASSUME UnlabelledSeen, SecretsFade, ViewMoves
  PROVE  UnlabelledSeen'
BY DEF UnlabelledSeen, SecretsFade, ViewMoves, NoSecret

\* Released is kept when Secrets fade and the status does not change.
LEMMA FadingKeepsReleased ==
  ASSUME Released, SecretsFade, cr'.sec = cr.sec, cr'.prev = cr.prev
  PROVE  Released'
BY DEF Released, SecretsFade, StatusNames, NoSecret

DInv == ~StaleCR /\ TypeInv /\ DeletionInv

\* Steps outside the controller: caches, garbage collector, consumer, users, time.
LEMMA OutsideDeletion ==
  ASSUME DInv, SecretsFade, ViewMoves, UNCHANGED <<pc, memVars>>, FinalizerKept',
         cr'.sec = cr.sec, cr'.prev = cr.prev, cr'.fin = cr.fin,
         cr'.exists => cr.exists, cr.exists /\ cr.fin => cr'.exists,
         crCache.deleting => crCache'.deleting
  PROVE  DeletionInv'
<1> USE DEF DInv, DeletionInv, memVars
<1>1. ReconcileKnows'
  BY DEF ReconcileKnows, Working, LettingGo
<1>2. UnlabelledSeen'
  BY FadingKeepsView
<1>3. DeletionPass'
  BY DEF DeletionPass, SecretsFade, NoSecret
<1>4. ReleasedAtTheEnd'
  <2>1. CASE cr.exists /\ ~cr.fin
    BY <2>1 DEF ReleasedAtTheEnd, Released, SecretsFade, NoSecret
  <2>2. CASE ~cr.exists \/ cr.fin
    <3>1. ~cr'.exists \/ LettingGo' => ~cr.exists \/ LettingGo
      BY <2>2 DEF LettingGo
    <3> QED BY <2>2, <3>1, FadingKeepsReleased DEF ReleasedAtTheEnd
  <2> QED BY <2>1, <2>2
<1>5. SingleWriter'
  BY DEF SingleWriter
<1> QED BY <1>1, <1>2, <1>3, <1>4, <1>5

\* Steps of a running reconcile that create and label no Secret and keep the CR
\* in memory: they stay in the deletion, outside it, or end.
LEMMA InsideDeletion ==
  ASSUME DInv, SecretsFade, UNCHANGED <<crVars, secCache, inst, base>>,
         Working, pc' # "idle", pc' = "patch" \/ (pc' \in DeletionPCs <=> pc \in DeletionPCs),
         DeletionPass'
  PROVE  DeletionInv'
<1> USE DEF DInv, DeletionInv, crVars
<1>1. FinalizerKept' /\ SingleWriter'
  BY DEF FinalizerKept, SingleWriter, Working
<1>2. inst.fin /\ ~LettingGo'
  BY DEF ReconcileKnows, LettingGo
<1>3. ReconcileKnows'
  BY <1>2 DEF ReconcileKnows, Working, DeletionPCs
<1>4. UnlabelledSeen'
  BY ViewStep, FadingKeepsView
<1>5. ReleasedAtTheEnd'
  <2>1. cr.exists /\ ~cr.fin => \A n \in Names : ~secrets'[n].fin
    BY DEF ReleasedAtTheEnd, SecretsFade, NoSecret
  <2> QED BY <1>2, <2>1, FadingKeepsReleased DEF ReleasedAtTheEnd
<1> QED BY <1>1, <1>3, <1>4, <1>5

\* No step but those that create or label a Secret does more than let Secrets fade.
LEMMA OnlyStoreAndLabel ==
  ASSUME TypeInv, [Next]_vars, ~StoreSecret, ~StoreSecretFails, ~EnsureServiceLabel
  PROVE  SecretsFade
<1> USE DEF SecretsFade
<1>a. secrets \in [Names -> Secret] /\ \A n \in Names : secrets[n] \in Secret
  BY DEF TypeInv, TypeOK
<1>b. ASSUME NEW n \in Names
      PROVE  /\ \/ Deleted(secrets[n]) = NoSecret
                \/ /\ Deleted(secrets[n]).ex = secrets[n].ex
                   /\ Deleted(secrets[n]).label = secrets[n].label
                   /\ Deleted(secrets[n]).fin = secrets[n].fin
             /\ \/ Settled([secrets[n] EXCEPT !.fin = FALSE]) = NoSecret
                \/ /\ Settled([secrets[n] EXCEPT !.fin = FALSE]).ex = secrets[n].ex
                   /\ Settled([secrets[n] EXCEPT !.fin = FALSE]).label = secrets[n].label
             /\ ~Settled([secrets[n] EXCEPT !.fin = FALSE]).fin
             /\ \/ Settled([secrets[n] EXCEPT !.held = FALSE]) = NoSecret
                \/ /\ Settled([secrets[n] EXCEPT !.held = FALSE]).ex = secrets[n].ex
                   /\ Settled([secrets[n] EXCEPT !.held = FALSE]).label = secrets[n].label
                   /\ Settled([secrets[n] EXCEPT !.held = FALSE]).fin = secrets[n].fin
             /\ [secrets[n] EXCEPT !.held = TRUE].ex = secrets[n].ex
             /\ [secrets[n] EXCEPT !.held = TRUE].label = secrets[n].label
             /\ [secrets[n] EXCEPT !.held = TRUE].fin = secrets[n].fin
  BY <1>a, FadingSteps
<1>1. CASE secrets' = secrets
  BY <1>1
<1>5. CASE CleanupStrip \/ DeleteStrip
  <2>1. \/ secrets' = secrets
        \/ secrets' = [secrets EXCEPT ![cur] = Settled([secrets[cur] EXCEPT !.fin = FALSE])]
    BY <1>5 DEF CleanupStrip, DeleteStrip, Conflict, Unprotect
  <2>2. ASSUME NEW n \in Names PROVE secrets'[n] \in {secrets[n], Settled([secrets[n] EXCEPT !.fin = FALSE])}
    BY <1>a, <2>1
  <2> QED BY <1>b, <2>2
<1>6. CASE CleanupDelete
  BY <1>a, <1>b, <1>6 DEF CleanupDelete
<1>7. CASE DeleteFallback
  <2>1. PICK S \in SUBSET {n \in Fallback : secrets[n] = SecretView[n]} :
          secrets' = [n \in Names |->
            IF n \in S THEN Settled([secrets[n] EXCEPT !.fin = FALSE]) ELSE secrets[n]]
    BY <1>7 DEF DeleteFallback
  <2>2. ASSUME NEW n \in Names PROVE secrets'[n] \in {secrets[n], Settled([secrets[n] EXCEPT !.fin = FALSE])}
    BY <1>a, <2>1
  <2> QED BY <1>b, <2>2
<1>8. CASE \E n \in Names : GarbageCollect(n)
  <2>1. PICK n \in Names : secrets' = [secrets EXCEPT ![n] = Deleted(secrets[n])]
    BY <1>8 DEF GarbageCollect
  <2>2. ASSUME NEW m \in Names PROVE secrets'[m] \in {secrets[m], Deleted(secrets[m])}
    BY <1>a, <2>1
  <2> QED BY <1>b, <2>2
<1>9. CASE ConsumerRelease
  <2>1. \/ secrets' = secrets
        \/ secrets' = [secrets EXCEPT ![use] = Settled([secrets[use] EXCEPT !.held = FALSE])]
    BY <1>9 DEF ConsumerRelease
  <2>2. ASSUME NEW n \in Names PROVE secrets'[n] \in {secrets[n], Settled([secrets[n] EXCEPT !.held = FALSE])}
    BY <1>a, <2>1
  <2> QED BY <1>b, <2>2
<1>10. CASE ConsumerAttach
  <2>1. secrets' = [secrets EXCEPT ![want] = [secrets[want] EXCEPT !.held = TRUE]]
    BY <1>10 DEF ConsumerAttach
  <2> QED BY <1>a, <1>b, <2>1
<1>11. CASE \E n \in Names : RemoveSecret(n)
  BY <1>a, <1>11 DEF RemoveSecret
<1>12. CASE Reconcile \/ Decide \/ CreateACFails \/ RevokeNew \/ (\E id \in ACIDs : CreateAC(id))
  BY <1>1, <1>12 DEF Reconcile, Decide, CreateACFails, RevokeNew, CreateAC, secVars
<1>13. CASE CleanupGate \/ CleanupList \/ CleanupEnds \/ (\E n \in Names : CleanupRevoke(n))
  BY <1>1, <1>13 DEF CleanupGate, CleanupList, CleanupEnds, CleanupRevoke, secVars
<1>14. CASE DeleteGate \/ DeleteList \/ PatchInstance \/ Crash \/ (\E n \in Names : DeleteRevoke(n))
  BY <1>1, <1>14 DEF DeleteGate, DeleteList, PatchInstance, Crash, DeleteRevoke, secVars
<1>15. CASE SyncCR \/ SyncSecrets \/ CalmDown \/ ConsumerNotice \/ ConsumerRender \/ DeployNodes
  BY <1>1, <1>15 DEF SyncCR, SyncSecrets, CalmDown, ConsumerNotice, ConsumerRender, DeployNodes, secVars
<1>16. CASE EditSpec \/ DeleteCR \/ TimePasses \/ LowerGrace
  BY <1>1, <1>16 DEF EditSpec, DeleteCR, TimePasses, LowerGrace, secVars
<1>17. CASE UNCHANGED vars
  BY <1>1, <1>17 DEF vars, secVars
<1> QED
  BY <1>5, <1>6, <1>7, <1>8, <1>9, <1>10, <1>11, <1>12, <1>13, <1>14, <1>15, <1>16, <1>17
     DEF Next, Controller, Rotation, RotationFails, Cleanup, Deletion, Cluster, Consuming, Users

\* Storing a credential: the CR has its finalizer, so nothing has been released.
LEMMA StoreInDeletion ==
  ASSUME DInv, TypeOK', StoreSecret \/ StoreSecretFails
  PROVE  DeletionInv'
<1> USE DEF DInv, DeletionInv
<1>a. TypeOK /\ newID \in ACIDs
  BY DEF TypeInv, TypeOK, IDsKnown, StoreSecret, StoreSecretFails
<1>k. PICK k \in Names : k = acSecretName[newID]
  BY <1>a, ConstantsAssumption
<1>1. /\ UNCHANGED <<cr, crCache, secCache, base>> /\ pc = "store"
      /\ pc' \in {"patch", "unstore"}
      /\ \/ secrets' = secrets
         \/ secrets' = [secrets EXCEPT ![k] = ImmutableSecret(newID)]
      /\ \/ pc' = "patch" /\ inst' = RotatedStatus(inst, newID)
         \/ pc' = "unstore" /\ inst' = inst
  BY <1>k DEF StoreSecret, StoreSecretFails, Return, Goto, crVars, memVars
<1>2. inst'.fin = inst.fin
  BY <1>a, <1>1 DEF RotatedStatus, TypeOK, CR
<1>3. inst.fin /\ cr.exists /\ cr.fin /\ ~LettingGo'
  BY <1>1, <1>2 DEF ReconcileKnows, Working, DeletionPCs, LettingGo
<1>4. FinalizerKept' /\ ReconcileKnows' /\ ReleasedAtTheEnd'
  BY <1>1, <1>2, <1>3
     DEF FinalizerKept, ReconcileKnows, Working, DeletionPCs, ReleasedAtTheEnd
<1>5. DeletionPass' /\ SingleWriter'
  BY <1>1 DEF DeletionPass, SingleWriter
<1>6. UnlabelledSeen'
  <2>1. \A n \in Names : \/ secrets'[n] = secrets[n]
                         \/ secrets'[n].ex /\ secrets'[n].label
    BY <1>a, <1>1 DEF TypeOK, ImmutableSecret
  <2>2. \A n \in Names : SecretView'[n] = IF SecretLag THEN secCache[n] ELSE secrets'[n]
    BY <1>1 DEF SecretView
  <2>3. \A n \in Names : SecretView[n] = IF SecretLag THEN secCache[n] ELSE secrets[n]
    BY DEF SecretView
  <2> QED BY <2>1, <2>2, <2>3 DEF UnlabelledSeen
<1> QED BY <1>4, <1>5, <1>6

\* Labelling: once a Secret may be released only unprotected ones are labelled,
\* since the reconcile knows the status the CR has.
LEMMA LabelInDeletion ==
  ASSUME DInv, TypeOK', EnsureServiceLabel
  PROVE  DeletionInv'
<1> USE DEF DInv, DeletionInv
<1>a. TypeOK /\ \A n \in Names : secrets[n] \in Secret
  BY DEF TypeInv, TypeOK
<1>1. /\ UNCHANGED <<crVars, secCache, inst, base>> /\ pc \in {"label", "dlabel"}
      /\ pc' = IF pc = "label" THEN "gate" ELSE "dlist"
  BY DEF EnsureServiceLabel, Goto, memVars
<1>2. PICK L \in SUBSET Unlabelled :
        secrets' = [n \in Names |->
          IF n \in L THEN [secrets[n] EXCEPT !.label = TRUE] ELSE secrets[n]]
  BY DEF EnsureServiceLabel
<1>3. \A n \in Names :
        /\ secrets'[n].ex = secrets[n].ex /\ secrets'[n].fin = secrets[n].fin
        /\ n \in L => secrets'[n].label
        /\ n \notin L => secrets'[n] = secrets[n]
  BY <1>a, <1>2 DEF Secret
<1>4. L \subseteq StatusNames(inst) /\ StatusNames(inst) = StatusNames(cr)
  BY <1>1, <1>2 DEF Unlabelled, SingleWriter, StatusNames
<1>5. inst.fin /\ ~LettingGo'
  BY <1>1 DEF ReconcileKnows, Working, LettingGo
<1>6. FinalizerKept' /\ SingleWriter'
  BY <1>1 DEF FinalizerKept, SingleWriter, crVars
<1>7. ReconcileKnows'
  BY <1>1, <1>5 DEF ReconcileKnows, Working, DeletionPCs, crVars
<1>8. DeletionPass'
  BY <1>1 DEF DeletionPass
<1>9. ReleasedAtTheEnd'
  <2>1. cr' = cr
    BY <1>1 DEF crVars
  <2>2. Released => Released'
    BY <1>3, <1>4, <2>1 DEF Released, StatusNames
  <2> QED BY <1>3, <1>5, <2>1, <2>2 DEF ReleasedAtTheEnd
<1>10. UnlabelledSeen'
  <2>1. \A n \in Names : SecretView'[n] = IF SecretLag THEN secCache[n] ELSE secrets'[n]
    BY <1>1 DEF SecretView
  <2>2. \A n \in Names : SecretView[n] = IF SecretLag THEN secCache[n] ELSE secrets[n]
    BY DEF SecretView
  <2> QED BY <1>3, <2>1, <2>2 DEF UnlabelledSeen
<1> QED BY <1>6, <1>7, <1>8, <1>9, <1>10

\* The pass over the Secrets the list did not show: when it completes, what the
\* status names is released as well, and the CR may go.
LEMMA FallbackInDeletion ==
  ASSUME DInv, SecretsFade, DeleteFallback
  PROVE  DeletionInv'
<1> USE DEF DInv, DeletionInv
<1>a. TypeOK /\ \A n \in Names : secrets[n] \in Secret
  BY DEF TypeInv, TypeOK
<1>1. UNCHANGED <<crVars, secCache, base>> /\ pc = "dnext" /\ pc' = "patch" /\ todo = {}
  BY DEF DeleteFallback, Return
<1>2. PICK S \in SUBSET {n \in Fallback : secrets[n] = SecretView[n]} :
        /\ secrets' = [n \in Names |->
             IF n \in S THEN Settled([secrets[n] EXCEPT !.fin = FALSE]) ELSE secrets[n]]
        /\ \/ S = Fallback /\ inst' = [inst EXCEPT !.fin = FALSE]
           \/ inst' = inst
  BY DEF DeleteFallback, Return
<1>3. DeletionPass'
  BY <1>1 DEF DeletionPass
<1>4. CASE inst' = inst
  BY <1>1, <1>3, <1>4, InsideDeletion DEF Working
<1>5. CASE S = Fallback /\ inst' = [inst EXCEPT !.fin = FALSE]
  <2>1. /\ inst'.sec = base.sec /\ inst'.prev = base.prev
        /\ StatusNames(inst) = StatusNames(cr) /\ crCache.deleting
    BY <1>a, <1>1, <1>5 DEF TypeOK, CR, SingleWriter, StatusNames, ReconcileKnows, DeletionPCs
  <2>2. FinalizerKept' /\ SingleWriter'
    BY <1>1 DEF FinalizerKept, SingleWriter, crVars
  <2>3. ReconcileKnows'
    BY <1>1, <2>1 DEF ReconcileKnows, Working, DeletionPCs, LettingGo, crVars
  <2>4. UnlabelledSeen'
    BY <1>1, ViewStep, FadingKeepsView
  <2>5. \A n \in S : ~secrets'[n].fin
    <3>1. \A n \in Names : ~Settled([secrets[n] EXCEPT !.fin = FALSE]).fin
      BY <1>a, FadingSteps
    <3>2. S \subseteq Names
      BY <1>a, <1>2, StatusNamesType DEF Fallback, Unprocessed, TypeOK
    <3> QED BY <1>2, <3>1, <3>2
  <2>6. ASSUME NEW n \in Names, secrets'[n].fin
        PROVE  ~secrets'[n].label /\ n \notin StatusNames(cr)
    <3>1. n \notin S /\ secrets'[n] = secrets[n]
      BY <1>2, <2>5, <2>6
    <3>2. ~secrets[n].label
      BY <1>1, <2>6, <3>1 DEF DeletionPass
    <3>3. /\ secrets[n].ex /\ SecretView[n].ex /\ SecretView[n].fin /\ ~listed[n].ex
      BY <1>1, <2>6, <3>1, <3>2 DEF UnlabelledSeen, DeletionPass
    <3>4. n \notin StatusNames(inst)
      BY <1>5, <3>1, <3>3 DEF Fallback, Unprocessed
    <3> QED BY <2>1, <3>1, <3>2, <3>4
  <2>7. Released' /\ cr' = cr
    BY <1>1, <2>6 DEF Released, StatusNames, crVars
  <2>8. cr.exists /\ ~cr.fin => \A n \in Names : ~secrets'[n].fin
    BY DEF ReleasedAtTheEnd, SecretsFade, NoSecret
  <2>9. ReleasedAtTheEnd'
    BY <2>7, <2>8 DEF ReleasedAtTheEnd
  <2> QED BY <1>3, <2>2, <2>3, <2>4, <2>9
<1> QED BY <1>2, <1>4, <1>5

\* The final patch: the CR goes only if it is the one of a completed deletion.
LEMMA PatchInDeletion ==
  ASSUME DInv, PatchInstance
  PROVE  DeletionInv'
<1> USE DEF DInv, DeletionInv
<1>a. TypeOK
  BY DEF TypeInv
<1>1. UNCHANGED <<crCache, secrets, secCache>> /\ pc = "patch" /\ pc' = "idle"
  BY DEF PatchInstance, Forget, secVars
<1>2. ReconcileKnows' /\ DeletionPass' /\ SingleWriter' /\ ~LettingGo'
  BY <1>1 DEF ReconcileKnows, Working, LettingGo, DeletionPCs, DeletionPass, SingleWriter
<1>3. UnlabelledSeen'
  BY <1>1 DEF UnlabelledSeen, SecretView
<1>4. CASE cr' = cr
  <2>1. FinalizerKept' /\ ReleasedAtTheEnd'
    BY <1>1, <1>2, <1>4 DEF FinalizerKept, ReleasedAtTheEnd, Released, StatusNames
  <2> QED BY <1>2, <1>3, <2>1
<1>5. CASE cr.exists /\ cr' \in {GoneCR(PatchMetadata(cr)), GoneCR(PatchStatus(PatchMetadata(cr)))}
  <2> DEFINE m == PatchMetadata(cr)
             p == PatchStatus(PatchMetadata(cr))
  <2>1. /\ m \in CR /\ p \in CR
        /\ m.deleting = cr.deleting /\ m.exists = cr.exists /\ m.sec = cr.sec /\ m.prev = cr.prev
        /\ m.fin = IF inst.fin # base.fin THEN inst.fin ELSE cr.fin
    BY <1>a, PatchTypes DEF PatchMetadata, Merge, TypeOK, CR
  <2>2. /\ p.deleting = m.deleting /\ p.exists = m.exists /\ p.fin = m.fin
        /\ p.sec = IF inst.sec # base.sec THEN inst.sec ELSE cr.sec
        /\ p.prev = IF inst.prev # base.prev THEN inst.prev ELSE cr.prev
    BY <2>1 DEF PatchStatus, Merge, CR
  <2>3. \A c \in CR : /\ GoneCR(c).deleting = c.deleting /\ GoneCR(c).fin = c.fin
                      /\ GoneCR(c).sec = c.sec /\ GoneCR(c).prev = c.prev
                      /\ (c.deleting /\ ~c.fin => ~GoneCR(c).exists)
                      /\ (~(c.deleting /\ ~c.fin) => GoneCR(c).exists = c.exists)
    BY DEF GoneCR, CR
  <2>4. \/ cr' = GoneCR(m)
        \/ cr' = GoneCR(p)
    BY <1>5
  <2>5. /\ cr'.deleting = cr.deleting
        /\ cr'.fin = m.fin
        /\ cr.deleting /\ ~m.fin => ~cr'.exists
        /\ ~(cr.deleting /\ ~m.fin) => cr'.exists
        /\ inst.sec = base.sec => cr'.sec = cr.sec
        /\ inst.prev = base.prev => cr'.prev = cr.prev
    <3> HIDE DEF m, p
    <3>1. CASE cr' = GoneCR(m)
      BY <1>5, <2>1, <2>3, <3>1
    <3>2. CASE cr' = GoneCR(p)
      BY <1>5, <2>1, <2>2, <2>3, <3>2
    <3> QED BY <2>4, <3>1, <3>2
  <2>6. inst.fin /\ cr.fin => m.fin
    BY <2>1
  <2>7. ~inst.fin => crCache.deleting /\ cr.deleting /\ Released
                     /\ inst.sec = base.sec /\ inst.prev = base.prev
    BY <1>1 DEF ReconcileKnows, LettingGo, FinalizerKept, ReleasedAtTheEnd
  <2> HIDE DEF m, p
  <2>8. FinalizerKept'
    BY <1>1, <1>5, <2>5, <2>6, <2>7 DEF FinalizerKept
  <2>9. cr'.exists /\ ~cr'.fin => \A n \in Names : ~secrets'[n].fin
    BY <1>1, <1>5, <2>5, <2>6, <2>7 DEF ReleasedAtTheEnd
  <2>10. ~cr'.exists => Released'
    <3>1. ASSUME ~cr'.exists PROVE ~inst.fin
      BY <1>5, <2>5, <2>6, <3>1 DEF FinalizerKept
    <3> QED BY <1>1, <2>5, <2>7, <3>1 DEF Released, StatusNames
  <2>11. ReleasedAtTheEnd'
    BY <1>2, <2>9, <2>10 DEF ReleasedAtTheEnd
  <2> QED BY <1>2, <1>3, <2>8, <2>11
<1> QED BY <1>4, <1>5 DEF PatchInstance

\* Every step preserves the invariant of the deletion.
LEMMA DeletionStep == DInv /\ [Next]_vars => DInv'
<1> SUFFICES ASSUME DInv, [Next]_vars PROVE DeletionInv'
  BY TypeStep DEF DInv
<1>a. TypeInv /\ TypeOK /\ TypeOK' /\ DeletionInv
  BY TypeStep DEF DInv, TypeInv
<1>1. CASE StoreSecret \/ StoreSecretFails
  BY <1>a, <1>1, StoreInDeletion
<1>2. CASE EnsureServiceLabel
  BY <1>a, <1>2, LabelInDeletion
<1>3. CASE ~StoreSecret /\ ~StoreSecretFails /\ ~EnsureServiceLabel
  <2>a. SecretsFade
    BY <1>a, <1>3, OnlyStoreAndLabel
  <2>1. CASE Reconcile
    <3> USE DEF DeletionInv
    <3>1. UNCHANGED <<cr, crCache, secrets, secCache>> /\ pc = "idle" /\ crCache.exists
      BY <2>1 DEF Reconcile, crVars, secVars
    <3>2. base' = crCache /\ crCache.sec = cr.sec /\ crCache.prev = cr.prev
      BY <2>1 DEF Reconcile, ReadsOwnWrites, DInv
    <3>3. /\ inst'.sec = cr.sec /\ inst'.prev = cr.prev /\ inst'.fin
          /\ pc' \in {"patch", "decide", "dgate"}
          /\ pc' = "decide" => crCache.fin /\ ~crCache.deleting
          /\ pc' = "dgate" => crCache.deleting
      BY <1>a, <2>1, <3>1, <3>2, ReconcileEffect DEF TypeOK, FinalizerKept
    <3>4. FinalizerKept' /\ SingleWriter'
      BY <1>a, <3>1, <3>2, <3>3 DEF FinalizerKept, SingleWriter
    <3>5. ReconcileKnows'
      BY <1>a, <3>1, <3>3 DEF FinalizerKept, ReconcileKnows, Working, LettingGo, DeletionPCs
    <3>6. UnlabelledSeen'
      BY <1>a, <3>1 DEF UnlabelledSeen, SecretView
    <3>7. DeletionPass' /\ ReleasedAtTheEnd'
      BY <1>a, <3>1, <3>3 DEF DeletionPass, ReleasedAtTheEnd, Released, StatusNames, LettingGo
    <3> QED BY <3>4, <3>5, <3>6, <3>7
  <2>2. CASE Decide \/ CreateACFails \/ RevokeNew \/ (\E id \in ACIDs : CreateAC(id))
    <3>1. /\ UNCHANGED <<crVars, secCache, inst, base>>
          /\ pc \in {"decide", "create", "unstore"}
          /\ pc' \in {"create", "label", "store", "patch"}
      BY <2>2 DEF Decide, CreateACFails, RevokeNew, CreateAC, Goto, Return, secVars, memVars
    <3>2. DeletionPass'
      BY <3>1 DEF DeletionPass
    <3> QED BY <2>a, <3>1, <3>2, InsideDeletion DEF Working, DeletionPCs
  <2>3. CASE CleanupGate \/ CleanupList \/ CleanupEnds \/ (\E n \in Names : CleanupRevoke(n))
    <3>1. /\ UNCHANGED <<crVars, secCache, inst, base>>
          /\ pc \in {"gate", "list", "next", "strip", "delete"}
          /\ pc' \in {"list", "next", "strip", "patch"}
      BY <2>3 DEF CleanupGate, CleanupList, CleanupEnds, CleanupRevoke, Goto, Return, secVars, memVars
    <3>2. DeletionPass'
      BY <3>1 DEF DeletionPass
    <3> QED BY <2>a, <3>1, <3>2, InsideDeletion DEF Working, DeletionPCs
  <2>4. CASE CleanupStrip \/ CleanupDelete
    <3>1. /\ UNCHANGED <<crVars, secCache, inst, base>>
          /\ pc \in {"strip", "delete"} /\ pc' \in {"delete", "next", "patch"}
      BY <2>4 DEF CleanupStrip, CleanupDelete, Goto, Return, memVars
    <3>2. DeletionPass'
      BY <3>1 DEF DeletionPass
    <3> QED BY <2>a, <3>1, <3>2, InsideDeletion DEF Working, DeletionPCs
  <2>5. CASE DeleteGate
    <3>1. /\ UNCHANGED <<crVars, secCache, inst, base>>
          /\ pc = "dgate" /\ pc' \in {"dlabel", "patch"}
      BY <2>5 DEF DeleteGate, Goto, Return, secVars, memVars
    <3>2. DeletionPass'
      BY <3>1 DEF DeletionPass
    <3> QED BY <2>a, <3>1, <3>2, InsideDeletion DEF Working, DeletionPCs
  <2>6. CASE DeleteList
    <3>1. /\ UNCHANGED <<crVars, secrets, secCache, inst, base>>
          /\ pc = "dlist" /\ pc' \in {"dnext", "patch"}
          /\ pc' = "dnext" =>
               listed' = LabelledSecrets /\ todo' = {n \in Names : LabelledSecrets[n].ex}
      BY <2>6 DEF DeleteList, Return, secVars
    <3>2. \A n \in Names : /\ LabelledSecrets[n].ex => secrets[n].label
                           /\ secrets[n].label /\ secrets[n].fin =>
                                LabelledSecrets[n] = secrets[n] /\ LabelledSecrets[n].ex
      BY <1>a DEF LabelledSecrets, NoSecret, DeletionInv, UnlabelledSeen
    <3>3. DeletionPass'
      BY <3>1, <3>2 DEF DeletionPass
    <3> QED BY <2>a, <3>1, <3>3, InsideDeletion DEF Working, DeletionPCs
  <2>7. ASSUME NEW n \in Names, DeleteRevoke(n) PROVE DeletionInv'
    <3>1. /\ UNCHANGED <<crVars, secrets, secCache, inst, base, listed>>
          /\ pc = "dnext" /\ pc' = "dstrip" /\ cur' = n /\ todo' = todo \ {n}
      BY <2>7 DEF DeleteRevoke, secVars
    <3>2. DeletionPass'
      BY <1>a, <3>1 DEF DeletionPass, DeletionInv
    <3> QED BY <2>a, <3>1, <3>2, InsideDeletion DEF Working, DeletionPCs
  <2>8. CASE DeleteStrip
    <3>1. /\ UNCHANGED <<crVars, secCache, inst, base>>
          /\ pc = "dstrip" /\ pc' \in {"dnext", "patch"}
          /\ pc' = "dnext" => UNCHANGED <<listed, todo>>
      BY <2>8 DEF DeleteStrip, Goto, Return, memVars
    <3>2. ASSUME pc' = "dnext", NEW n \in Names, secrets'[n].label, secrets'[n].fin
          PROVE  n # cur
      <4>1. secrets[n].fin /\ secrets[n].label
        BY <2>a, <3>2 DEF SecretsFade, NoSecret
      <4>2. CASE listed[cur].fin /\ ~Conflict(cur) /\ Unprotect(cur) /\ n = cur
        <5>1. secrets' = [secrets EXCEPT ![n] = Settled([secrets[n] EXCEPT !.fin = FALSE])]
          BY <4>2 DEF Conflict, Unprotect
        <5>2. secrets'[n] = Settled([secrets[n] EXCEPT !.fin = FALSE])
          BY <1>a, <5>1 DEF TypeOK
        <5>3. secrets[n] \in Secret
          BY <1>a DEF TypeOK
        <5>4. ~Settled([secrets[n] EXCEPT !.fin = FALSE]).fin
          BY <5>3, FadingSteps
        <5> QED BY <3>2, <5>2, <5>4
      <4>3. CASE ~listed[cur].fin
        BY <1>a, <3>1, <4>1, <4>3 DEF DeletionInv, DeletionPass
      <4>4. (listed[cur].fin /\ ~Conflict(cur) /\ Unprotect(cur)) \/ ~listed[cur].fin
        BY <2>8, <3>2, Zenon DEF DeleteStrip, Return
      <4> QED BY <4>2, <4>3, <4>4, Zenon
    <3>3. DeletionPass'
      BY <1>a, <2>a, <3>1, <3>2 DEF DeletionPass, DeletionInv, SecretsFade, NoSecret
    <3> QED BY <2>a, <3>1, <3>3, InsideDeletion DEF Working, DeletionPCs
  <2>9. CASE DeleteFallback
    BY <2>a, <2>9, FallbackInDeletion
  <2>10. CASE PatchInstance
    BY <2>10, PatchInDeletion
  <2>11. CASE Crash
    <3> USE DEF DeletionInv
    <3>1. UNCHANGED <<cr, crCache, secrets, secCache>> /\ pc' = "idle"
      BY <2>11 DEF Crash, Forget, crVars, secVars
    <3>2. FinalizerKept' /\ ReconcileKnows' /\ DeletionPass' /\ SingleWriter'
      BY <1>a, <3>1
         DEF FinalizerKept, ReconcileKnows, Working, LettingGo, DeletionPCs, DeletionPass, SingleWriter
    <3>3. UnlabelledSeen' /\ ReleasedAtTheEnd'
      BY <1>a, <3>1
         DEF UnlabelledSeen, SecretView, ReleasedAtTheEnd, Released, StatusNames, LettingGo
    <3> QED BY <3>2, <3>3
  <2>12. CASE SyncCR
    <3>1. cr' = cr /\ crCache' = cr /\ UNCHANGED <<secrets, secCache, pc, memVars>>
      BY <2>12 DEF SyncCR, secVars
    <3>2. FinalizerKept' /\ (crCache.deleting => crCache'.deleting)
      BY <1>a, <3>1 DEF DeletionInv, FinalizerKept
    <3> QED BY <2>a, <3>1, <3>2, ViewStep, OutsideDeletion
  <2>13. CASE UNCHANGED <<crVars, pc, memVars>> /\ secCache' \in {secCache, secrets}
              /\ (secCache' = secCache \/ secrets' = secrets)
    <3>1. FinalizerKept' /\ cr' = cr /\ crCache' = crCache
      BY <1>a, <2>13 DEF DeletionInv, FinalizerKept, crVars
    <3> QED BY <2>a, <2>13, <3>1, ViewStep, OutsideDeletion
  <2>14. CASE SyncSecrets \/ CalmDown \/ \E n \in Names : GarbageCollect(n)
    BY <2>13, <2>14 DEF SyncSecrets, CalmDown, GarbageCollect, secVars
  <2>15. CASE Consuming
    BY <2>13, <2>15
       DEF Consuming, ConsumerNotice, ConsumerAttach, ConsumerRender, ConsumerRelease, DeployNodes, secVars
  <2>16. CASE TimePasses \/ LowerGrace \/ \E n \in Names : RemoveSecret(n)
    BY <2>13, <2>16 DEF TimePasses, LowerGrace, RemoveSecret, secVars
  <2>17. CASE EditSpec \/ DeleteCR
    <3>1. UNCHANGED <<crCache, secrets, secCache, pc, memVars>> /\ cr.exists /\ ~cr.deleting
      BY <2>17 DEF EditSpec, DeleteCR, secVars
    <3>2. /\ cr'.sec = cr.sec /\ cr'.prev = cr.prev /\ cr'.fin = cr.fin
          /\ cr.fin => cr'.exists
          /\ cr'.exists /\ cr'.deleting => cr.fin
      BY ZenonT(30), <1>a, <2>17, <3>1 DEF EditSpec, DeleteCR, GoneCR, TypeOK, CR
    <3>3. FinalizerKept'
      BY <1>a, <3>1, <3>2 DEF DeletionInv, FinalizerKept
    <3> QED BY <2>a, <3>1, <3>2, <3>3, ViewStep, OutsideDeletion
  <2>18. CASE UNCHANGED vars
    BY <2>13, <2>18 DEF vars, secVars
  <2> QED
    BY <1>3, <2>1, <2>2, <2>3, <2>4, <2>5, <2>6, <2>7, <2>8, <2>9, <2>10, <2>11, <2>12,
       <2>14, <2>15, <2>16, <2>17, <2>18
       DEF Next, Controller, Rotation, RotationFails, Cleanup, Deletion, Cluster, Users
<1> QED BY <1>1, <1>2, <1>3

\* NothingOrphaned: as long as a reconcile starts from the status the last one wrote,
\* no labelled Secret keeps its protection finalizer once the CR is gone, whatever
\* the order of failures, restarts, conflicting updates and lagging Secret caches,
\* and even if names of Secrets collide.
THEOREM NothingOrphaned == ~StaleCR /\ Spec => []NoLabelledOrphan
<1>1. ~StaleCR /\ Init => DInv
  BY TypeInit, DeletionInit DEF DInv
<1>2. DInv => NoLabelledOrphan
  BY DEF DInv, DeletionInv, ReleasedAtTheEnd, Released, NoLabelledOrphan
<1>3. ~StaleCR /\ Spec => []DInv
  BY <1>1, DeletionStep, PTL DEF Spec
<1> QED BY <1>2, <1>3, PTL

----------------------------------------------------------------------------
(* What is cleaned up has been revoked *)

\* The credential of the Secret that the cleanup is about to unprotect is revoked.
RevokedInv == pc = "strip" => cur \in Names /\ listed[cur].acid \notin live

\* Only a strip, the fallback of the deletion and people take the protection off a Secret.
LEMMA ProtectionLost ==
  ASSUME TypeInv, [Next]_vars, NEW n \in Names, secrets[n].fin, ~secrets'[n].fin
  PROVE  (CleanupStrip /\ n = cur) \/ DeleteStrip \/ DeleteFallback \/ RemoveSecret(n)
<1>a. secrets \in [Names -> Secret] /\ \A m \in Names : secrets[m] \in Secret
  BY DEF TypeInv, TypeOK
<1>b. ASSUME NEW m \in Names, secrets[m].fin
      PROVE  /\ Deleted(secrets[m]).fin
             /\ Settled([secrets[m] EXCEPT !.held = FALSE]).fin
             /\ [secrets[m] EXCEPT !.held = TRUE].fin
             /\ [secrets[m] EXCEPT !.label = TRUE].fin
  BY <1>a, <1>b DEF Deleted, Settled, Secret
<1>1. secrets' # secrets
  OBVIOUS
<1>2. ASSUME NEW m \in Names, NEW s, s.fin \/ (secrets[m].fin => s.fin),
             secrets' = [secrets EXCEPT ![m] = s]
      PROVE  FALSE
  <2>1. secrets'[n] = IF n = m THEN s ELSE secrets[n]
    BY <1>a, <1>2
  <2> QED BY <1>2, <2>1
<1>3. ~StoreSecret /\ ~StoreSecretFails
  <2>1. ASSUME StoreSecret \/ StoreSecretFails PROVE acSecretName[newID] \in Names
    BY <2>1, ConstantsAssumption DEF TypeInv, TypeOK, IDsKnown, StoreSecret, StoreSecretFails
  <2>2. ImmutableSecret(newID).fin
    BY DEF ImmutableSecret
  <2> QED BY <1>1, <1>2, <2>1, <2>2 DEF StoreSecret, StoreSecretFails
<1>4. ~EnsureServiceLabel
  <2> SUFFICES ASSUME EnsureServiceLabel PROVE FALSE
    OBVIOUS
  <2>1. PICK L \in SUBSET Unlabelled :
          secrets' = [m \in Names |->
            IF m \in L THEN [secrets[m] EXCEPT !.label = TRUE] ELSE secrets[m]]
    BY DEF EnsureServiceLabel
  <2> QED BY <1>b, <2>1
<1>5. CleanupStrip => n = cur
  <2> SUFFICES ASSUME CleanupStrip, n # cur PROVE FALSE
    OBVIOUS
  <2>1. secrets' = [secrets EXCEPT ![cur] = Settled([listed[cur] EXCEPT !.fin = FALSE])]
    BY <1>1 DEF CleanupStrip, Unprotect
  <2> QED BY <1>a, <2>1
<1>6. ~CleanupDelete
  <2> SUFFICES ASSUME CleanupDelete PROVE FALSE
    OBVIOUS
  <2>1. secrets' = [secrets EXCEPT ![cur] = Deleted(secrets[cur])]
    BY DEF CleanupDelete
  <2> QED BY <1>a, <1>b, <2>1
<1>7. ~\E m \in Names : GarbageCollect(m)
  BY <1>b, <1>2 DEF GarbageCollect
<1>8. ~ConsumerRelease
  <2> SUFFICES ASSUME ConsumerRelease PROVE FALSE
    OBVIOUS
  <2>1. secrets' = [secrets EXCEPT ![use] = Settled([secrets[use] EXCEPT !.held = FALSE])]
    BY <1>1 DEF ConsumerRelease
  <2> QED BY <1>a, <1>b, <2>1
<1>9. ~ConsumerAttach
  <2> SUFFICES ASSUME ConsumerAttach PROVE FALSE
    OBVIOUS
  <2>1. secrets' = [secrets EXCEPT ![want] = [secrets[want] EXCEPT !.held = TRUE]]
    BY DEF ConsumerAttach
  <2> QED BY <1>a, <1>b, <2>1
<1>10. ASSUME NEW m \in Names, RemoveSecret(m) PROVE m = n
  BY <1>a, <1>10 DEF RemoveSecret
<1>11. ~(Reconcile \/ Decide \/ CreateACFails \/ RevokeNew \/ (\E id \in ACIDs : CreateAC(id)))
  BY <1>1 DEF Reconcile, Decide, CreateACFails, RevokeNew, CreateAC, secVars
<1>12. ~(CleanupGate \/ CleanupList \/ CleanupEnds \/ (\E m \in Names : CleanupRevoke(m)))
  BY <1>1 DEF CleanupGate, CleanupList, CleanupEnds, CleanupRevoke, secVars
<1>13. ~(DeleteGate \/ DeleteList \/ PatchInstance \/ Crash \/ (\E m \in Names : DeleteRevoke(m)))
  BY <1>1 DEF DeleteGate, DeleteList, PatchInstance, Crash, DeleteRevoke, secVars
<1>14. ~(SyncCR \/ SyncSecrets \/ CalmDown \/ ConsumerNotice \/ ConsumerRender \/ DeployNodes)
  BY <1>1 DEF SyncCR, SyncSecrets, CalmDown, ConsumerNotice, ConsumerRender, DeployNodes, secVars
<1>15. ~(EditSpec \/ DeleteCR \/ TimePasses \/ LowerGrace)
  BY <1>1 DEF EditSpec, DeleteCR, TimePasses, LowerGrace, secVars
<1>16. ~UNCHANGED vars
  BY <1>1 DEF vars, secVars
<1> QED
  BY <1>3, <1>4, <1>5, <1>6, <1>7, <1>8, <1>9, <1>10, <1>11, <1>12, <1>13, <1>14, <1>15, <1>16
     DEF Next, Controller, Rotation, RotationFails, Cleanup, Deletion, Cluster, Consuming, Users

\* A strip follows the revocation, and nothing comes to life in between.
LEMMA RevokedStep ==
  ASSUME RevokedInv, [Next]_vars
  PROVE  RevokedInv'
<1> USE DEF RevokedInv
<1>1. CASE \E n \in Names : CleanupRevoke(n)
  BY <1>1 DEF CleanupRevoke
<1>2. CASE Reconcile \/ Decide \/ Rotation \/ RotationFails \/ PatchInstance \/ Crash
  BY <1>2
     DEF Reconcile, Decide, Rotation, RotationFails, CreateAC, StoreSecret, CreateACFails,
         StoreSecretFails, RevokeNew, PatchInstance, Crash, Forget, Goto, Return
<1>3. CASE EnsureServiceLabel \/ CleanupGate \/ CleanupList \/ CleanupStrip \/ CleanupDelete \/ CleanupEnds
  BY <1>3
     DEF EnsureServiceLabel, CleanupGate, CleanupList, CleanupStrip, CleanupDelete, CleanupEnds,
         Goto, Return
<1>4. CASE Deletion
  BY <1>4 DEF Deletion, DeleteGate, DeleteList, DeleteRevoke, DeleteStrip, DeleteFallback, Goto, Return
<1>5. CASE UNCHANGED <<pc, memVars, live>>
  BY <1>5 DEF memVars
<1>6. Cluster \/ Consuming \/ Users \/ UNCHANGED vars => UNCHANGED <<pc, memVars, live>>
  BY DEF Cluster, SyncCR, SyncSecrets, CalmDown, GarbageCollect, Consuming, ConsumerNotice,
         ConsumerAttach, ConsumerRender, ConsumerRelease, DeployNodes, Users, EditSpec, DeleteCR,
         TimePasses, LowerGrace, RemoveSecret, ksVars, vars
<1> QED BY <1>1, <1>2, <1>3, <1>4, <1>5, <1>6 DEF Next, Controller, Cleanup

\* RevokedStaysFirst: whatever fails, restarts, conflicts or lags, and even if names of
\* Secrets collide, the cleanup lets go of no Secret whose credential is not revoked.
THEOREM RevokedStaysFirst == Spec => RevokedFirst
<1>1. Init => RevokedInv
  BY DEF Init, RevokedInv
<1>2. ASSUME TypeInv, RevokedInv, [Next]_vars, NEW n \in Names,
             secrets[n].fin, ~secrets'[n].fin, ~RemoveSecret(n), pc \notin {"dnext", "dstrip"}
      PROVE  secrets[n].acid \notin live'
  <2>1. CleanupStrip /\ n = cur
    BY <1>2, ProtectionLost DEF DeleteStrip, DeleteFallback
  <2>2. listed[cur].acid \notin live /\ live' = live
    BY <1>2, <2>1 DEF CleanupStrip, RevokedInv, ksVars
  <2>3. secrets[cur] = listed[cur]
    BY <1>2, <2>1 DEF CleanupStrip, Conflict
  <2> QED BY <2>1, <2>2, <2>3
<1>3. TypeInv /\ RevokedInv /\ [Next]_vars =>
        [\A n \in Names :
           /\ secrets[n].fin /\ ~secrets'[n].fin
           /\ ~RemoveSecret(n) /\ pc \notin {"dnext", "dstrip"}
           => secrets[n].acid \notin live']_vars
  BY <1>2
<1>4. Spec => []TypeInv
  BY TypeCorrect DEF TypeInv
<1>5. RevokedInv /\ [Next]_vars => RevokedInv'
  BY RevokedStep
<1> QED BY <1>1, <1>3, <1>4, <1>5, PTL DEF Spec, RevokedFirst
=============================================================================
