------------------------------ MODULE Catalog ------------------------------
(***************************************************************************)
(* The KeystoneService and KeystoneEndpoint controllers                    *)
(* (internal/controller/keystoneservice_controller.go and                  *)
(* keystoneendpoint_controller.go), which register a service, its user and *)
(* its endpoints in Keystone's catalog, and the deletion of the KeystoneAPI *)
(* they depend on (keystoneapi_controller.go).                             *)
(*                                                                         *)
(* The three objects hold each other with finalizers: the service and the  *)
(* endpoint put one on the KeystoneAPI, the endpoint puts one on the       *)
(* service.  A reconcile is a sequence of steps, one per call to the       *)
(* Kubernetes API or to Keystone; the two controllers interleave.  Objects *)
(* are read from the informer cache, which may lag.  Update is refused     *)
(* when the object is no longer the one that was read; the deferred patch  *)
(* of a controller's own object is not, and replaces the list of           *)
(* finalizers.  The API server takes no new finalizer for an object that   *)
(* is being deleted.                                                       *)
(*                                                                         *)
(* There is one object of each kind.  Left out: description and enabled    *)
(* flag of a service, project, roles and password of its user, messages.   *)
(***************************************************************************)
EXTENDS Naturals, FiniteSets

CONSTANTS
  IDs,         \* the IDs Keystone may give to services
  Ifaces,      \* endpoint interfaces
  URLs,        \* endpoint URLs
  None,        \* the empty string
  Adoption,    \* may Keystone know the service before the operator does?
  External,    \* spec.externalKeystoneAPI
  FirstURLs,   \* the URLs a new endpoint may have; edits choose from URLs
  Lag,         \* the informer caches that may lag behind the API server:
               \* subset of {"api", "svc", "ep"}
  MaxEdits,    \* the endpoints are edited at most MaxEdits times
  MaxCreated,  \* at most MaxCreated objects are created again after deletion
  UserOps,     \* subset of {"edit", "unready", "service", "endpoint", "api"}:
               \* edit the endpoints, disturb the KeystoneAPI, delete an object
  Faults,      \* what may go wrong: subset of {"call", "lost", "patch", "crash"}
  FaultsEnd    \* do the faults stop at some point?

ASSUME ConstantsAssumption ==
  /\ None \notin IDs /\ None \notin URLs
  /\ {Adoption, External, FaultsEnd} \subseteq BOOLEAN
  /\ FirstURLs \subseteq URLs /\ Lag \subseteq {"api", "svc", "ep"}
  /\ MaxEdits \in Nat /\ MaxCreated \in Nat
  /\ UserOps \subseteq {"edit", "unready", "service", "endpoint", "api"}
  /\ Faults \subseteq {"call", "lost", "patch", "crash"}

VARIABLES
  api, svc, ep,          \* the KeystoneAPI, KeystoneService and KeystoneEndpoint
  seen,                  \* the same in the informer caches
  services, used,        \* services in Keystone; IDs ever given out
  user,                  \* is the service user in Keystone?
  endpoints,             \* endpoints in Keystone, per service and interface
  deps,                  \* do Database, Memcached, ... carry our finalizer?
  calm, edits, created,  \* no fault happens any more; bounded counters
  apc, abase,            \* KeystoneAPI deletion: next step, object as read
  spc, sinst, sbase, sapi,        \* service controller: next step, its object in
                                  \* memory and as read, the KeystoneAPI as read
  epc, einst, ebase, eapi, esvc   \* endpoint controller, likewise

objVars == <<api, svc, ep>>
ksVars == <<services, used, user, endpoints>>
envVars == <<calm, edits, created>>
apiVars == <<apc, abase>>
svcVars == <<spc, sinst, sbase, sapi>>
epVars == <<epc, einst, ebase, eapi, esvc>>
vars == <<objVars, seen, ksVars, deps, envVars, apiVars, svcVars, epVars>>

----------------------------------------------------------------------------
(* Objects *)

Finalizers == {"api", "service", "endpoint"}
Conditions == {"api", "os"}
ID == IDs \cup {None}
Endpoints == [Ifaces -> URLs \cup {None}]
NoEndpoints == [f \in Ifaces |-> None]
FirstEndpoints == [Ifaces -> FirstURLs \cup {None}] \ {NoEndpoints}
Named(e) == {f \in Ifaces : e[f] # None}

API == [ex: BOOLEAN, deleting: BOOLEAN, fins: SUBSET Finalizers, ready: BOOLEAN]
NoAPI == [ex |-> FALSE, deleting |-> FALSE, fins |-> {}, ready |-> FALSE]

\* A KeystoneService: "api" stands for the conditions on KeystoneAPI and admin
\* client, "os" for those on service and user, which become true together.
Service == [ex: BOOLEAN, deleting: BOOLEAN, fins: SUBSET Finalizers,
            init: BOOLEAN, conds: SUBSET Conditions, id: ID]
NoService == [ex |-> FALSE, deleting |-> FALSE, fins |-> {},
              init |-> FALSE, conds |-> {}, id |-> None]
IsReady(s) == s.conds = Conditions

\* A KeystoneEndpoint: spec.endpoints, status.serviceID and status.endpointIDs.
Endpoint == [ex: BOOLEAN, deleting: BOOLEAN, fins: SUBSET Finalizers,
             init: BOOLEAN, spec: Endpoints, svcID: ID, ids: SUBSET Ifaces]
NoEndpoint == [ex |-> FALSE, deleting |-> FALSE, fins |-> {},
               init |-> FALSE, spec |-> NoEndpoints, svcID |-> None, ids |-> {}]

\* An object marked for deletion disappears with its last finalizer.
Settled(o, none) == IF o.deleting /\ o.fins = {} THEN none ELSE o

MayFail(kind) == ~calm /\ kind \in Faults
CallFails == MayFail("call")

\* Reads go to the informer cache.
apiView == IF "api" \in Lag THEN seen.api ELSE api
svcView == IF "svc" \in Lag THEN seen.svc ELSE svc
epView == IF "ep" \in Lag THEN seen.ep ELSE ep

\* The API server accepts an Update of an object's finalizers.
Accepted(o, copy, fins) == o = copy /\ o.ex /\ (o.deleting => fins \subseteq o.fins)

\* A merge patch writes the fields that differ from what was read ...
Merge(old, before, after) == IF after # before THEN after ELSE old

\* ... and is refused if it would add a finalizer to an object being deleted.
PatchRefused(o, base, inst) ==
  o.deleting /\ inst.fins # base.fins /\ ~(inst.fins \subseteq o.fins)

----------------------------------------------------------------------------
(* Initial states: a ready or not yet ready KeystoneAPI, a new service and   *)
(* endpoint; on adoption Keystone already knows the service.                 *)

Init ==
  /\ api \in {[ex |-> TRUE, deleting |-> FALSE, fins |-> {"api"}, ready |-> r] : r \in BOOLEAN}
  /\ svc = [NoService EXCEPT !.ex = TRUE]
  /\ ep \in {[NoEndpoint EXCEPT !.ex = TRUE, !.spec = e] : e \in FirstEndpoints}
  /\ seen = [api |-> api, svc |-> svc, ep |-> ep]
  /\ services \in {{}} \cup {{id} : id \in {i \in IDs : Adoption}} /\ used = services /\ user = FALSE
  /\ endpoints = [id \in IDs |-> NoEndpoints]
  /\ deps = TRUE /\ calm = (Faults = {}) /\ edits = 0 /\ created = 0
  /\ apc = "idle" /\ abase = NoAPI
  /\ spc = "idle" /\ sinst = NoService /\ sbase = NoService /\ sapi = NoAPI
  /\ epc = "idle" /\ einst = NoEndpoint /\ ebase = NoEndpoint /\ eapi = NoAPI
  /\ esvc = NoService

----------------------------------------------------------------------------
(* KeystoneService: Reconcile *)

SvcGoto(label) == spc' = label /\ UNCHANGED <<sinst, sbase, sapi>>
SvcReturn(s) == spc' = "patch" /\ sinst' = s /\ sapi' = NoAPI /\ UNCHANGED sbase
NoClient(s) == [s EXCEPT !.conds = @ \ {"api"}]
WithClient(s) == [s EXCEPT !.conds = @ \cup {"api"}]
Released(s, fin) == [s EXCEPT !.fins = @ \ {fin}]

\* Reconcile() of a service that is set up, with the KeystoneAPI as read: where
\* it goes and what it has changed in memory by then.
SvcRoute(s, a) ==
  \/ /\ CallFails \/ (~a.ex /\ ~(s.deleting /\ s.id = None))
     /\ sinst' = NoClient(s) /\ spc' = "patch"
  \/ /\ ~a.ex /\ s.deleting /\ s.id = None
     /\ sinst' = Released(s, "service") /\ spc' = "patch"
  \/ /\ a.ex /\ s.deleting /\ (a.deleting \/ s.id = None)
     /\ sinst' = s /\ spc' = "unhold"
  \/ /\ a.ex /\ (s.deleting => ~a.deleting /\ s.id # None)
     /\ IF a.ready
        THEN \/ sinst' = WithClient(s) /\ spc' = IF s.deleting THEN "deluser" ELSE "hold"
             \/ CallFails /\ sinst' = NoClient(s) /\ spc' = "patch"
        ELSE sinst' = NoClient(s) /\ spc' = "patch"

SvcReconcile ==
  /\ spc = "idle" /\ svcView.ex
  /\ sbase' = svcView
  /\ \/ /\ ~svcView.init
        /\ sinst' = [svcView EXCEPT !.init = TRUE] /\ spc' = "patch" /\ UNCHANGED sapi
     \/ /\ svcView.init /\ ~svcView.deleting /\ "service" \notin svcView.fins
        /\ sinst' = [svcView EXCEPT !.fins = @ \cup {"service"}]
        /\ spc' = "patch" /\ UNCHANGED sapi
     \/ /\ svcView.init /\ (svcView.deleting \/ "service" \in svcView.fins)
        /\ SvcRoute(svcView, apiView)
        /\ sapi' = IF spc' = "patch" THEN NoAPI ELSE apiView
  /\ UNCHANGED <<objVars, seen, ksVars, deps, envVars, apiVars, epVars>>

\* Mutant: the finalizer on the KeystoneAPI does not carry the service's name.
SvcHoldMutant ==
  /\ spc = "hold"
  /\ api' = [api EXCEPT !.fins = @ \cup {"openstack.org"}]
  /\ SvcGoto("register")
  /\ UNCHANGED <<svc, ep, seen, ksVars, deps, envVars, apiVars, epVars>>

\* Mutant: an error of the update is ignored.
SvcHoldIgnoresMutant ==
  /\ spc = "hold"
  /\ LET fins == sapi.fins \cup {"service"} IN
       api' = IF Accepted(api, sapi, fins) THEN [api EXCEPT !.fins = fins] ELSE api
  /\ SvcGoto("register")
  /\ UNCHANGED <<svc, ep, seen, ksVars, deps, envVars, apiVars, epVars>>

\* The finalizer on the KeystoneAPI, before anything is registered.
SvcHold ==
  /\ spc = "hold"
  /\ LET fins == sapi.fins \cup {"service"} IN
       \/ "service" \in sapi.fins /\ SvcGoto("register") /\ UNCHANGED api
       \/ /\ "service" \notin sapi.fins /\ Accepted(api, sapi, fins)
          /\ api' = [api EXCEPT !.fins = fins]
          /\ SvcGoto("register") \/ (MayFail("lost") /\ SvcReturn(sinst))
       \/ /\ "service" \notin sapi.fins /\ (CallFails \/ ~Accepted(api, sapi, fins))
          /\ SvcReturn(sinst) /\ UNCHANGED api
  /\ UNCHANGED <<svc, ep, seen, ksVars, deps, envVars, apiVars, epVars>>

NoOS(s) == [s EXCEPT !.conds = @ \ {"os"}]

\* reconcileService: the service is found in Keystone, or created.
SvcRegister ==
  /\ spc = "register"
  /\ \/ /\ CallFails \/ (services = {} /\ used = IDs)
        /\ SvcReturn(NoOS(sinst)) /\ UNCHANGED <<services, used>>
     \/ /\ services # {}
        /\ \E id \in services : sinst' = [sinst EXCEPT !.id = id]
        /\ spc' = "user" /\ UNCHANGED <<services, used, sbase, sapi>>
     \/ /\ services = {}
        /\ \E id \in IDs \ used :
             /\ services' = {id} /\ used' = used \cup {id}
             /\ \/ /\ sinst' = [sinst EXCEPT !.id = id]
                   /\ spc' = "user" /\ UNCHANGED <<sbase, sapi>>
                \/ MayFail("lost") /\ SvcReturn(NoOS([sinst EXCEPT !.id = None]))
  /\ UNCHANGED <<user, endpoints, objVars, seen, deps, envVars, apiVars, epVars>>

\* reconcileUser: the service user with its project and roles.
SvcUser ==
  /\ spc = "user"
  /\ \/ user' = TRUE /\ SvcReturn([sinst EXCEPT !.conds = @ \cup {"os"}])
     \/ MayFail("lost") /\ user' = TRUE /\ SvcReturn(NoOS(sinst))
     \/ CallFails /\ UNCHANGED user /\ SvcReturn(NoOS(sinst))
  /\ UNCHANGED <<services, used, endpoints, objVars, seen, deps, envVars, apiVars, epVars>>

\* reconcileDelete: the user goes first ...
SvcDelUser ==
  /\ spc = "deluser"
  /\ \/ user' = FALSE /\ (SvcGoto("delservice") \/ (MayFail("lost") /\ SvcReturn(sinst)))
     \/ CallFails /\ UNCHANGED user /\ SvcReturn(sinst)
  /\ UNCHANGED <<services, used, endpoints, objVars, seen, deps, envVars, apiVars, epVars>>

\* ... then the service, with which Keystone drops its endpoints; the ID in
\* status is cleared in memory.
SvcDelService ==
  /\ spc = "delservice"
  /\ \/ /\ services' = services \ {sinst.id}
        /\ endpoints' = [id \in IDs |-> IF id = sinst.id THEN NoEndpoints ELSE endpoints[id]]
        /\ \/ sinst' = [sinst EXCEPT !.id = None] /\ spc' = "unhold" /\ UNCHANGED <<sbase, sapi>>
           \/ MayFail("lost") /\ SvcReturn(sinst)
     \/ CallFails /\ SvcReturn(sinst) /\ UNCHANGED <<services, endpoints>>
  /\ UNCHANGED <<used, user, objVars, seen, deps, envVars, apiVars, epVars>>

\* The finalizer on the KeystoneAPI goes, then the service's own.
SvcUnhold ==
  /\ spc = "unhold"
  /\ LET fins == sapi.fins \ {"service"} IN
       \/ /\ "service" \notin sapi.fins
          /\ SvcReturn(Released(sinst, "service")) /\ UNCHANGED api
       \/ /\ "service" \in sapi.fins /\ Accepted(api, sapi, fins)
          /\ api' = Settled([api EXCEPT !.fins = fins], NoAPI)
          /\ \/ SvcReturn(Released(sinst, "service"))
             \/ MayFail("lost") /\ SvcReturn(sinst)
       \/ /\ "service" \in sapi.fins /\ (CallFails \/ ~Accepted(api, sapi, fins))
          /\ SvcReturn(sinst) /\ UNCHANGED api
  /\ UNCHANGED <<svc, ep, seen, ksVars, deps, envVars, apiVars, epVars>>

SvcMetadata(s) == [s EXCEPT !.fins = Merge(@, sbase.fins, sinst.fins)]
SvcStatus(s) ==
  [s EXCEPT !.init = Merge(@, sbase.init, sinst.init),
            !.conds = Merge(@, sbase.conds, sinst.conds),
            !.id = Merge(@, sbase.id, sinst.id)]

SvcForget == spc' = "idle" /\ sinst' = NoService /\ sbase' = NoService /\ sapi' = NoAPI

\* The deferred PatchInstance: metadata, then status; either may fail.
SvcPatch ==
  /\ spc = "patch"
  /\ \/ /\ svc.ex /\ ~PatchRefused(svc, sbase, sinst)
        /\ svc' = Settled(SvcStatus(SvcMetadata(svc)), NoService)
     \/ (~svc.ex \/ PatchRefused(svc, sbase, sinst)) /\ UNCHANGED svc
     \/ /\ MayFail("patch") /\ svc.ex /\ ~PatchRefused(svc, sbase, sinst)
        /\ svc' \in {svc, Settled(SvcMetadata(svc), NoService)}
  /\ SvcForget
  /\ UNCHANGED <<api, ep, seen, ksVars, deps, envVars, apiVars, epVars>>

----------------------------------------------------------------------------
(* KeystoneEndpoint: Reconcile *)

EpGoto(label) == epc' = label /\ UNCHANGED <<einst, ebase, eapi, esvc>>
EpReturn(e) ==
  epc' = "patch" /\ einst' = e /\ eapi' = NoAPI /\ esvc' = NoService /\ UNCHANGED ebase

\* Reconcile() of an endpoint that is set up, with the KeystoneAPI as read.
\* With both being deleted, or with nothing registered, only finalizers go.
EpRoute(e, a) ==
  \/ /\ \/ CallFails
        \/ ~a.ex /\ ~(e.deleting /\ e.ids = {})
        \/ a.ex /\ ~a.ready /\ ~(e.deleting /\ (a.deleting \/ e.ids = {}))
     /\ epc' = "patch"
  \/ /\ e.deleting /\ (e.ids = {} \/ (a.ex /\ a.deleting))
     /\ epc' = "unsvc"
  \/ /\ a.ex /\ a.ready /\ ~(e.deleting /\ (a.deleting \/ e.ids = {}))
     /\ epc' = IF e.deleting THEN "del" ELSE "service"

EpReconcile ==
  /\ epc = "idle" /\ epView.ex
  /\ ebase' = epView
  /\ \/ /\ ~epView.init
        /\ einst' = [epView EXCEPT !.init = TRUE] /\ epc' = "patch" /\ UNCHANGED eapi
     \/ /\ epView.init /\ ~epView.deleting /\ epView.fins = {}
        /\ einst' = [epView EXCEPT !.fins = {"endpoint"}]
        /\ epc' = "patch" /\ UNCHANGED eapi
     \/ /\ epView.init /\ (epView.deleting \/ epView.fins # {})
        /\ EpRoute(epView, apiView)
        /\ einst' = epView
        /\ eapi' = IF epc' = "patch" THEN NoAPI ELSE apiView
  /\ UNCHANGED <<esvc, objVars, seen, ksVars, deps, envVars, apiVars, svcVars>>

\* What Keystone holds once interfaces F of service id are set to e.
Written(id, F, e) ==
  [endpoints EXCEPT ![id] = [f \in Ifaces |-> IF f \in F THEN e[f] ELSE @[f]]]

\* DeleteEndpoint for the interfaces F; nothing happens if there is none.
Dropped(id, F) == IF id \in IDs THEN Written(id, F, NoEndpoints) ELSE endpoints

\* reconcileDelete: the endpoints of the spec, one after the other.
EpDelete ==
  /\ epc = "del"
  /\ \/ /\ endpoints' = Dropped(einst.svcID, Named(einst.spec))
        /\ einst' = [einst EXCEPT !.ids = {}] /\ epc' = "unsvc"
        /\ UNCHANGED <<ebase, eapi, esvc>>
     \/ /\ CallFails /\ EpReturn(einst)
        /\ \E F \in SUBSET Named(einst.spec) : endpoints' = Dropped(einst.svcID, F)
  /\ UNCHANGED <<services, used, user, objVars, seen, deps, envVars, apiVars, svcVars>>

\* Mutant: a KeystoneService that is gone is an error.
EpUnsvcMutant ==
  /\ epc = "unsvc"
  /\ \/ /\ svcView.ex /\ EpGoto("unapi")
        /\ svc' = Settled([svc EXCEPT !.fins = @ \ {"endpoint"}], NoService)
     \/ ~svcView.ex /\ EpReturn(einst) /\ UNCHANGED svc
  /\ UNCHANGED <<api, ep, seen, ksVars, deps, envVars, apiVars, svcVars>>

\* The finalizer on the KeystoneService goes, if there is one ...
EpUnsvc ==
  /\ epc = "unsvc"
  /\ LET fins == svcView.fins \ {"endpoint"}
         holds == svcView.ex /\ "endpoint" \in svcView.fins IN
       \/ ~holds /\ EpGoto("unapi") /\ UNCHANGED svc
       \/ /\ holds /\ Accepted(svc, svcView, fins)
          /\ svc' = Settled([svc EXCEPT !.fins = fins], NoService)
          /\ EpGoto("unapi") \/ (MayFail("lost") /\ EpReturn(einst))
       \/ /\ CallFails \/ (holds /\ ~Accepted(svc, svcView, fins))
          /\ EpReturn(einst) /\ UNCHANGED svc
  /\ UNCHANGED <<api, ep, seen, ksVars, deps, envVars, apiVars, svcVars>>

\* Mutant: an error of the update is ignored.
EpUnapiMutant ==
  /\ epc = "unapi"
  /\ api' = IF eapi.ex /\ Accepted(api, eapi, eapi.fins \ {"endpoint"})
            THEN Settled([api EXCEPT !.fins = @ \ {"endpoint"}], NoAPI) ELSE api
  /\ EpReturn(Released(einst, "endpoint"))
  /\ UNCHANGED <<svc, ep, seen, ksVars, deps, envVars, apiVars, svcVars>>

\* ... then the one on the KeystoneAPI, then the endpoint's own.
EpUnapi ==
  /\ epc = "unapi"
  /\ LET fins == eapi.fins \ {"endpoint"} IN
       \/ /\ "endpoint" \notin eapi.fins
          /\ EpReturn(Released(einst, "endpoint")) /\ UNCHANGED api
       \/ /\ "endpoint" \in eapi.fins /\ Accepted(api, eapi, fins)
          /\ api' = Settled([api EXCEPT !.fins = fins], NoAPI)
          /\ \/ EpReturn(Released(einst, "endpoint"))
             \/ MayFail("lost") /\ EpReturn(einst)
       \/ /\ "endpoint" \in eapi.fins /\ (CallFails \/ ~Accepted(api, eapi, fins))
          /\ EpReturn(einst) /\ UNCHANGED api
  /\ UNCHANGED <<svc, ep, seen, ksVars, deps, envVars, apiVars, svcVars>>

\* reconcileNormal: wait for the KeystoneService and take its ServiceID.
EpService ==
  /\ epc = "service"
  /\ \/ /\ svcView.ex /\ IsReady(svcView)
        /\ einst' = [einst EXCEPT !.svcID = svcView.id] /\ esvc' = svcView
        /\ epc' = "holdapi" /\ UNCHANGED <<ebase, eapi>>
     \/ (CallFails \/ ~svcView.ex \/ ~IsReady(svcView)) /\ EpReturn(einst)
  /\ UNCHANGED <<objVars, seen, ksVars, deps, envVars, apiVars, svcVars>>

EpHoldApi ==
  /\ epc = "holdapi"
  /\ LET fins == eapi.fins \cup {"endpoint"} IN
       \/ "endpoint" \in eapi.fins /\ EpGoto("holdsvc") /\ UNCHANGED api
       \/ /\ "endpoint" \notin eapi.fins /\ Accepted(api, eapi, fins)
          /\ api' = [api EXCEPT !.fins = fins]
          /\ EpGoto("holdsvc") \/ (MayFail("lost") /\ EpReturn(einst))
       \/ /\ "endpoint" \notin eapi.fins /\ (CallFails \/ ~Accepted(api, eapi, fins))
          /\ EpReturn(einst) /\ UNCHANGED api
  /\ UNCHANGED <<svc, ep, seen, ksVars, deps, envVars, apiVars, svcVars>>

EpHoldSvc ==
  /\ epc = "holdsvc"
  /\ LET fins == esvc.fins \cup {"endpoint"} IN
       \/ "endpoint" \in esvc.fins /\ EpGoto("prune") /\ UNCHANGED svc
       \/ /\ "endpoint" \notin esvc.fins /\ Accepted(svc, esvc, fins)
          /\ svc' = [svc EXCEPT !.fins = fins]
          /\ EpGoto("prune") \/ (MayFail("lost") /\ EpReturn(einst))
       \/ /\ "endpoint" \notin esvc.fins /\ (CallFails \/ ~Accepted(svc, esvc, fins))
          /\ EpReturn(einst) /\ UNCHANGED svc
  /\ UNCHANGED <<api, ep, seen, ksVars, deps, envVars, apiVars, svcVars>>

\* reconcileEndpoints: endpoints no longer in the spec are deleted ...
EpPrune ==
  /\ epc = "prune"
  /\ LET extra == einst.ids \ Named(einst.spec) IN
       \/ /\ endpoints' = Dropped(einst.svcID, extra)
          /\ einst' = [einst EXCEPT !.ids = @ \ extra] /\ epc' = "register"
          /\ UNCHANGED <<ebase, eapi, esvc>>
       \/ /\ CallFails /\ extra # {}
          /\ \E F \in SUBSET extra :
               /\ endpoints' = Dropped(einst.svcID, F)
               /\ EpReturn([einst EXCEPT !.ids = @ \ F])
  /\ UNCHANGED <<services, used, user, objVars, seen, deps, envVars, apiVars, svcVars>>

\* Mutant: an endpoint that is there is left as it is.
EpRegisterMutant ==
  /\ epc = "register"
  /\ LET F == {f \in Named(einst.spec) : endpoints[einst.svcID][f] = None} IN
       /\ einst.svcID \in services
       /\ endpoints' = Written(einst.svcID, F, einst.spec)
       /\ EpReturn([einst EXCEPT !.ids = Named(einst.spec)])
  /\ UNCHANGED <<services, used, user, objVars, seen, deps, envVars, apiVars, svcVars>>

\* ... and those of the spec created, or updated if the URL differs, one after
\* the other.  Keystone refuses an endpoint of a service it does not know.
EpRegister ==
  /\ epc = "register"
  /\ LET F == Named(einst.spec) IN
       \/ /\ einst.svcID \in services
          /\ endpoints' = Written(einst.svcID, F, einst.spec)
          /\ EpReturn([einst EXCEPT !.ids = @ \cup F])
       \/ /\ CallFails /\ einst.svcID \in services
          /\ \E G \in SUBSET F : G # F
               /\ endpoints' = Written(einst.svcID, G, einst.spec)
               /\ EpReturn([einst EXCEPT !.ids = @ \cup G])
       \/ /\ MayFail("lost") /\ einst.svcID \in services
          /\ \E f \in F : \E G \in SUBSET (F \ {f}) :
               /\ endpoints' = Written(einst.svcID, G \cup {f}, einst.spec)
               /\ EpReturn([einst EXCEPT !.ids = @ \cup G])
       \/ /\ einst.svcID \notin services
          /\ EpReturn(einst) /\ UNCHANGED endpoints
  /\ UNCHANGED <<services, used, user, objVars, seen, deps, envVars, apiVars, svcVars>>

EpMetadata(e) == [e EXCEPT !.fins = Merge(@, ebase.fins, einst.fins)]
EpStatus(e) ==
  [e EXCEPT !.init = Merge(@, ebase.init, einst.init),
            !.svcID = Merge(@, ebase.svcID, einst.svcID),
            !.ids = Merge(@, ebase.ids, einst.ids)]

EpForget ==
  /\ epc' = "idle" /\ einst' = NoEndpoint /\ ebase' = NoEndpoint
  /\ eapi' = NoAPI /\ esvc' = NoService

\* The deferred PatchInstance: metadata, then status; either may fail.
EpPatch ==
  /\ epc = "patch"
  /\ \/ /\ ep.ex /\ ~PatchRefused(ep, ebase, einst)
        /\ ep' = Settled(EpStatus(EpMetadata(ep)), NoEndpoint)
     \/ (~ep.ex \/ PatchRefused(ep, ebase, einst)) /\ UNCHANGED ep
     \/ /\ MayFail("patch") /\ ep.ex /\ ~PatchRefused(ep, ebase, einst)
        /\ ep' \in {ep, Settled(EpMetadata(ep), NoEndpoint)}
  /\ EpForget
  /\ UNCHANGED <<api, svc, seen, ksVars, deps, envVars, apiVars, svcVars>>

----------------------------------------------------------------------------
(* KeystoneAPI: deletion *)

Finishes(a) == External \/ a.fins \subseteq {"api"}

\* Mutant: the other finalizers are not waited for.
APIReconcileMutant ==
  /\ apc = "idle" /\ apiView.ex /\ apiView.deleting /\ "api" \in apiView.fins
  /\ abase' = apiView /\ apc' = "patch" /\ deps' = External
  /\ UNCHANGED <<objVars, seen, ksVars, envVars, svcVars, epVars>>

\* reconcileDelete: it waits until only its own finalizer is left, then lets go
\* of Database, Memcached, Topology and transport URL Secret.
APIReconcile ==
  /\ apc = "idle" /\ apiView.ex /\ apiView.deleting
  /\ "api" \in apiView.fins \/ apiView.ready
  /\ abase' = apiView
  /\ \/ /\ Finishes(apiView)
        /\ deps' = (External /\ deps) /\ apc' = "patch"
     \/ ~Finishes(apiView) /\ UNCHANGED deps /\ apc' = "keep"
     \/ CallFails /\ Finishes(apiView) /\ ~External /\ deps' \in {deps, FALSE} /\ apc' = "keep"
  /\ UNCHANGED <<objVars, seen, ksVars, envVars, svcVars, epVars>>

\* The deferred patch: no condition is met while it is being deleted.
APIPatch ==
  /\ apc \in {"patch", "keep"}
  /\ LET fins == IF apc = "patch" THEN abase.fins \ {"api"} ELSE abase.fins
         a == [api EXCEPT !.fins = Merge(@, abase.fins, fins),
                          !.ready = Merge(@, abase.ready, FALSE)] IN
       \/ /\ api.ex /\ ~PatchRefused(api, abase, [abase EXCEPT !.fins = fins])
          /\ api' = Settled(a, NoAPI)
       \/ /\ \/ ~api.ex \/ MayFail("patch")
             \/ PatchRefused(api, abase, [abase EXCEPT !.fins = fins])
          /\ UNCHANGED api
  /\ apc' = "idle" /\ abase' = NoAPI
  /\ UNCHANGED <<svc, ep, seen, ksVars, deps, envVars, svcVars, epVars>>

\* The reconcile of a KeystoneAPI that is not being deleted: it becomes ready,
\* or something it depends on fails.
APIReady ==
  /\ api.ex /\ ~api.deleting
  /\ api.ready => "unready" \in UserOps /\ ~calm
  /\ api' = [api EXCEPT !.ready = ~@]
  /\ UNCHANGED <<svc, ep, seen, ksVars, deps, envVars, apiVars, svcVars, epVars>>

----------------------------------------------------------------------------
(* The cluster and its users *)

\* The operator restarts.
Crash ==
  /\ MayFail("crash") /\ (spc # "idle" \/ epc # "idle" \/ apc # "idle")
  /\ SvcForget /\ EpForget /\ apc' = "idle" /\ abase' = NoAPI
  /\ UNCHANGED <<objVars, seen, ksVars, deps, envVars>>

\* The faults are over.
CalmDown ==
  /\ FaultsEnd /\ ~calm /\ calm' = TRUE
  /\ UNCHANGED <<edits, created, objVars, seen, ksVars, deps, apiVars, svcVars, epVars>>

SyncCache ==
  /\ \/ "api" \in Lag /\ seen.api # api /\ seen' = [seen EXCEPT !.api = api]
     \/ "svc" \in Lag /\ seen.svc # svc /\ seen' = [seen EXCEPT !.svc = svc]
     \/ "ep" \in Lag /\ seen.ep # ep /\ seen' = [seen EXCEPT !.ep = ep]
  /\ UNCHANGED <<objVars, ksVars, deps, envVars, apiVars, svcVars, epVars>>

DeleteAPI ==
  /\ "api" \in UserOps /\ api.ex /\ ~api.deleting
  /\ api' = Settled([api EXCEPT !.deleting = TRUE], NoAPI)
  /\ UNCHANGED <<svc, ep, seen, ksVars, deps, envVars, apiVars, svcVars, epVars>>

DeleteService ==
  /\ "service" \in UserOps /\ svc.ex /\ ~svc.deleting
  /\ svc' = Settled([svc EXCEPT !.deleting = TRUE], NoService)
  /\ UNCHANGED <<api, ep, seen, ksVars, deps, envVars, apiVars, svcVars, epVars>>

DeleteEndpoint ==
  /\ "endpoint" \in UserOps /\ ep.ex /\ ~ep.deleting
  /\ ep' = Settled([ep EXCEPT !.deleting = TRUE], NoEndpoint)
  /\ UNCHANGED <<api, svc, seen, ksVars, deps, envVars, apiVars, svcVars, epVars>>

\* The service operator creates what is gone anew.
CreateService ==
  /\ ~svc.ex /\ created < MaxCreated /\ created' = created + 1
  /\ svc' = [NoService EXCEPT !.ex = TRUE]
  /\ UNCHANGED <<api, ep, calm, edits, seen, ksVars, deps, apiVars, svcVars, epVars>>

CreateEndpoint ==
  /\ ~ep.ex /\ created < MaxCreated /\ created' = created + 1
  /\ \E e \in FirstEndpoints : ep' = [NoEndpoint EXCEPT !.ex = TRUE, !.spec = e]
  /\ UNCHANGED <<api, svc, calm, edits, seen, ksVars, deps, apiVars, svcVars, epVars>>

EditEndpoint ==
  /\ "edit" \in UserOps /\ ep.ex /\ ~ep.deleting
  /\ edits < MaxEdits /\ edits' = edits + 1
  /\ \E e \in Endpoints \ {NoEndpoints, ep.spec} : ep' = [ep EXCEPT !.spec = e]
  /\ UNCHANGED <<api, svc, calm, created, seen, ksVars, deps, apiVars, svcVars, epVars>>

----------------------------------------------------------------------------
ServiceController ==
  \/ SvcReconcile \/ SvcHold \/ SvcRegister \/ SvcUser \/ SvcDelUser
  \/ SvcDelService \/ SvcUnhold \/ SvcPatch

EndpointController ==
  \/ EpReconcile \/ EpDelete \/ EpUnsvc \/ EpUnapi \/ EpService \/ EpHoldApi
  \/ EpHoldSvc \/ EpPrune \/ EpRegister \/ EpPatch

APIController == APIReconcile \/ APIPatch

Users ==
  \/ DeleteAPI \/ DeleteService \/ DeleteEndpoint
  \/ CreateService \/ CreateEndpoint \/ EditEndpoint

Next ==
  \/ ServiceController \/ EndpointController \/ APIController \/ APIReady
  \/ Crash \/ CalmDown \/ SyncCache \/ Users

Spec == Init /\ [][Next]_vars

\* Objects that exist are reconciled again and again (RequeueAfter, the retry of
\* a failed reconcile, resync), faults end, and the KeystoneAPI gets ready then.
\* Every step of a controller moves its program counter.
Fairness ==
  /\ WF_spc(ServiceController) /\ WF_epc(EndpointController) /\ WF_apc(APIController)
  /\ WF_calm(CalmDown) /\ WF_seen(SyncCache) /\ WF_api(calm /\ ~api.ready /\ APIReady)

FairSpec == Spec /\ Fairness

----------------------------------------------------------------------------
(* Properties *)

Steps == {"idle", "patch", "hold", "register", "user", "deluser", "delservice", "unhold",
          "del", "unsvc", "unapi", "service", "holdapi", "holdsvc", "prune", "keep"}

\* The types of the state; endpoints belong to services that Keystone has.
TypeOK ==
  /\ {api, sapi, eapi, abase} \subseteq API
  /\ {svc, sinst, sbase, esvc} \subseteq Service
  /\ {ep, einst, ebase} \subseteq Endpoint
  /\ seen \in [api: API, svc: Service, ep: Endpoint]
  /\ services \subseteq used /\ used \subseteq IDs /\ user \in BOOLEAN
  /\ endpoints \in [IDs -> Endpoints]
  /\ \A id \in IDs \ services : endpoints[id] = NoEndpoints
  /\ deps \in BOOLEAN /\ calm \in BOOLEAN
  /\ edits \in 0..MaxEdits /\ created \in 0..MaxCreated
  /\ {apc, spc, epc} \subseteq Steps

\* A service or an endpoint that records what it has registered in Keystone
\* holds the KeystoneAPI, and the endpoint its service, for its own cleanup:
\* whatever the two controllers write to these objects at the same time.
KeystoneHeld ==
  /\ svc.ex /\ ~svc.deleting /\ svc.id # None => "service" \in api.fins
  /\ ep.ex /\ ~ep.deleting /\ ep.ids # {} =>
       "endpoint" \in api.fins /\ (svc.ex => "endpoint" \in svc.fins)

\* What is gone holds nobody: no finalizer is left that nobody takes off.
NoDanglingFinalizer ==
  /\ ~svc.ex => "service" \notin api.fins
  /\ ~ep.ex => "endpoint" \notin api.fins \cup svc.fins

\* Database, Memcached and the transport URL outlive the cleanup of everything
\* that holds the KeystoneAPI.
DependenciesHeld == api.ex /\ api.fins \ {"api"} # {} => deps

Doomed(o) == o.ex => o.deleting
Kept(o) == o.ex /\ ~o.deleting

\* Deletion comes to an end: of an endpoint, and of a service whose endpoint is
\* going too, although each may find the other's finalizer or a failed call in
\* its way.  It is never taken back, so what stops being deleted is gone.
DeletionCompletes ==
  /\ []<>~ep.deleting
  /\ []<>~(svc.deleting /\ Doomed(ep))

\* Keystone comes to hold the endpoints of the spec, whatever calls fail, unless
\* one of the objects is deleted or (bound) IDs has no ID left.
Registered ==
  []<>(\/ ~(Kept(api) /\ Kept(svc) /\ Kept(ep))
       \/ svc.id # None /\ endpoints[svc.id] = ep.spec
       \/ services = {} /\ used = IDs)
=============================================================================
