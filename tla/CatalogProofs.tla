---------------------------- MODULE CatalogProofs ----------------------------
(***************************************************************************)
(* Proofs about Catalog, for any IDs, interfaces and URLs, any number of   *)
(* edits, deletions and recreations, any faults, and every interleaving of *)
(* the three controllers with the users and the informer caches.           *)
(***************************************************************************)
EXTENDS Catalog, TLAPS

----------------------------------------------------------------------------
(* The types of the objects *)

\* An object that is gone has the type of one that is there.
LEMMA ObjectTypes == NoAPI \in API /\ NoService \in Service /\ NoEndpoint \in Endpoint
<1> USE ConstantsAssumption
<1>1. NoAPI \in API /\ NoService \in Service
  BY DEF NoAPI, API, NoService, Service, ID
<1>2. NoEndpoints \in Endpoints
  BY DEF NoEndpoints, Endpoints
<1>3. NoEndpoint \in Endpoint
  BY <1>2 DEF NoEndpoint, Endpoint, ID
<1> QED BY <1>1, <1>3

\* The parts of the type invariant, one object at a time.
LEMMA TypeParts ==
  ASSUME TypeOK
  PROVE  /\ api \in API /\ sapi \in API /\ eapi \in API /\ abase \in API
         /\ svc \in Service /\ sinst \in Service /\ sbase \in Service /\ esvc \in Service
         /\ ep \in Endpoint /\ einst \in Endpoint /\ ebase \in Endpoint
         /\ apiView \in API /\ svcView \in Service /\ epView \in Endpoint
BY DEF TypeOK, apiView, svcView, epView

\* The deferred patch of the service: it fails or is refused, it removes the last
\* finalizer of a service being deleted, or it writes what has changed in memory,
\* the finalizers first.
LEMMA SvcPatchEffect ==
  ASSUME svc \in Service, sbase \in Service, sinst \in Service, SvcPatch
  PROVE  \/ svc' = svc
         \/ /\ svc' = NoService /\ svc.deleting
            /\ ~PatchRefused(svc, sbase, sinst) /\ Merge(svc.fins, sbase.fins, sinst.fins) = {}
         \/ /\ svc' \in Service /\ svc.ex /\ svc'.ex /\ ~PatchRefused(svc, sbase, sinst)
            /\ svc'.deleting = svc.deleting
            /\ svc'.fins = Merge(svc.fins, sbase.fins, sinst.fins)
            /\ \/ /\ svc'.id = Merge(svc.id, sbase.id, sinst.id)
                  /\ svc'.conds = Merge(svc.conds, sbase.conds, sinst.conds)
               \/ MayFail("patch") /\ svc'.id = svc.id /\ svc'.conds = svc.conds
<1> DEFINE m == SvcMetadata(svc)
           s == SvcStatus(m)
<1>1. /\ m \in Service /\ m.ex = svc.ex /\ m.deleting = svc.deleting
      /\ m.fins = Merge(svc.fins, sbase.fins, sinst.fins)
      /\ m.init = svc.init /\ m.id = svc.id /\ m.conds = svc.conds
  BY DEF SvcMetadata, Merge, Service
<1>2. /\ s \in Service /\ s.ex = m.ex /\ s.deleting = m.deleting /\ s.fins = m.fins
      /\ s.id = Merge(m.id, sbase.id, sinst.id)
      /\ s.conds = Merge(m.conds, sbase.conds, sinst.conds)
  <2> HIDE DEF m
  <2>1. m \in Service
    BY <1>1
  <2> QED BY <2>1 DEF SvcStatus, Merge, Service
<1>3. \/ svc' = svc
      \/ svc.ex /\ ~PatchRefused(svc, sbase, sinst) /\ svc' = Settled(s, NoService)
      \/ MayFail("patch") /\ svc.ex /\ ~PatchRefused(svc, sbase, sinst) /\ svc' = Settled(m, NoService)
  BY DEF SvcPatch
<1> HIDE DEF m, s
<1> QED BY <1>1, <1>2, <1>3 DEF Settled

\* The deferred patch of the endpoint, likewise.
LEMMA EpPatchEffect ==
  ASSUME ep \in Endpoint, ebase \in Endpoint, einst \in Endpoint, EpPatch
  PROVE  \/ ep' = ep
         \/ /\ ep' = NoEndpoint /\ ep.deleting
            /\ ~PatchRefused(ep, ebase, einst) /\ Merge(ep.fins, ebase.fins, einst.fins) = {}
         \/ /\ ep' \in Endpoint /\ ep.ex /\ ep'.ex /\ ~PatchRefused(ep, ebase, einst)
            /\ ep'.deleting = ep.deleting
            /\ ep'.fins = Merge(ep.fins, ebase.fins, einst.fins)
            /\ ep'.ids = Merge(ep.ids, ebase.ids, einst.ids) \/ ep'.ids = ep.ids
<1> DEFINE m == EpMetadata(ep)
           s == EpStatus(m)
<1>1. /\ m \in Endpoint /\ m.ex = ep.ex /\ m.deleting = ep.deleting
      /\ m.fins = Merge(ep.fins, ebase.fins, einst.fins) /\ m.ids = ep.ids
  BY DEF EpMetadata, Merge, Endpoint
<1>2. /\ s \in Endpoint /\ s.ex = m.ex /\ s.deleting = m.deleting /\ s.fins = m.fins
      /\ s.ids = Merge(m.ids, ebase.ids, einst.ids)
  <2> HIDE DEF m
  <2>1. m \in Endpoint
    BY <1>1
  <2> QED BY <2>1 DEF EpStatus, Merge, Endpoint
<1>3. \/ ep' = ep
      \/ ep.ex /\ ~PatchRefused(ep, ebase, einst) /\ ep' = Settled(s, NoEndpoint)
      \/ ep.ex /\ ~PatchRefused(ep, ebase, einst) /\ ep' = Settled(m, NoEndpoint)
  BY DEF EpPatch
<1> HIDE DEF m, s
<1> QED BY <1>1, <1>2, <1>3 DEF Settled

\* The deferred patch of the KeystoneAPI: it only writes finalizers and readiness.
LEMMA APIPatchEffect ==
  ASSUME api \in API, abase \in API, APIPatch
  PROVE  \/ api' = api
         \/ /\ api.deleting
            /\ LET fins == IF apc = "patch" THEN abase.fins \ {"api"} ELSE abase.fins IN
                 /\ fins # abase.fins => fins \subseteq api.fins
                 /\ api' = NoAPI /\ Merge(api.fins, abase.fins, fins) = {}
         \/ /\ api' \in API /\ api.ex /\ api'.ex /\ api'.deleting = api.deleting
            /\ LET fins == IF apc = "patch" THEN abase.fins \ {"api"} ELSE abase.fins IN
                 /\ api.deleting /\ fins # abase.fins => fins \subseteq api.fins
                 /\ api'.fins = Merge(api.fins, abase.fins, fins)
<1> DEFINE fins == IF apc = "patch" THEN abase.fins \ {"api"} ELSE abase.fins
           b == [abase EXCEPT !.fins = fins]
           a == [api EXCEPT !.fins = Merge(@, abase.fins, fins),
                            !.ready = Merge(@, abase.ready, FALSE)]
<1>1. fins \in SUBSET Finalizers
  BY DEF API
<1>2. \/ api' = api
      \/ api.ex /\ ~PatchRefused(api, abase, b) /\ api' = Settled(a, NoAPI)
  BY DEF APIPatch
<1> HIDE DEF fins
<1>3. b.fins = fins
  BY DEF API
<1>4. /\ a \in API /\ a.ex = api.ex /\ a.deleting = api.deleting
      /\ a.fins = Merge(api.fins, abase.fins, fins)
  BY <1>1 DEF Merge, API
<1> HIDE DEF a, b
<1>5. \/ api' = api
      \/ /\ api.ex /\ (api.deleting /\ fins # abase.fins => fins \subseteq api.fins)
         /\ api' = IF a.deleting /\ a.fins = {} THEN NoAPI ELSE a
  BY <1>2, <1>3 DEF PatchRefused, Settled
<1>6. \/ api' = api
      \/ /\ api.deleting /\ (fins # abase.fins => fins \subseteq api.fins)
         /\ api' = NoAPI /\ Merge(api.fins, abase.fins, fins) = {}
      \/ /\ api' \in API /\ api.ex /\ api'.ex /\ api'.deleting = api.deleting
         /\ (api.deleting /\ fins # abase.fins => fins \subseteq api.fins)
         /\ api'.fins = Merge(api.fins, abase.fins, fins)
  BY <1>4, <1>5
<1> QED BY <1>6 DEF fins

----------------------------------------------------------------------------
(* Frames *)

\* What each controller, the users and the caches leave alone.
LEMMA Frames ==
  /\ ServiceController => UNCHANGED <<ep, seen, deps, envVars, apiVars, epVars>>
  /\ EndpointController => UNCHANGED <<seen, deps, envVars, apiVars, svcVars>>
  /\ APIController => UNCHANGED <<svc, ep, seen, ksVars, envVars, svcVars, epVars>>
  /\ APIReady => UNCHANGED <<svc, ep, seen, ksVars, deps, envVars, apiVars, svcVars, epVars>>
  /\ Crash => UNCHANGED <<objVars, seen, ksVars, deps, envVars>>
  /\ CalmDown => UNCHANGED <<objVars, seen, ksVars, deps, apiVars, svcVars, epVars>>
  /\ SyncCache => UNCHANGED <<objVars, ksVars, deps, envVars, apiVars, svcVars, epVars>>
  /\ Users => UNCHANGED <<seen, ksVars, deps, apiVars, svcVars, epVars>>
  /\ UNCHANGED vars => UNCHANGED <<objVars, seen, ksVars, deps, envVars, apiVars, svcVars, epVars>>
<1>1. ServiceController => UNCHANGED <<ep, seen, deps, envVars, apiVars, epVars>>
  BY DEF ServiceController, SvcReconcile, SvcHold, SvcRegister, SvcUser, SvcDelUser,
         SvcDelService, SvcUnhold, SvcPatch, objVars
<1>2. EndpointController => UNCHANGED <<seen, deps, envVars, apiVars, svcVars>>
  BY DEF EndpointController, EpReconcile, EpDelete, EpUnsvc, EpUnapi, EpService, EpHoldApi,
         EpHoldSvc, EpPrune, EpRegister, EpPatch
<1>3. APIController => UNCHANGED <<svc, ep, seen, ksVars, envVars, svcVars, epVars>>
  BY DEF APIController, APIReconcile, APIPatch, objVars
<1>4. /\ APIReady => UNCHANGED <<svc, ep, seen, ksVars, deps, envVars, apiVars, svcVars, epVars>>
      /\ Crash => UNCHANGED <<objVars, seen, ksVars, deps, envVars>>
      /\ CalmDown => UNCHANGED <<objVars, seen, ksVars, deps, apiVars, svcVars, epVars>>
      /\ SyncCache => UNCHANGED <<objVars, ksVars, deps, envVars, apiVars, svcVars, epVars>>
  BY DEF APIReady, Crash, CalmDown, SyncCache
<1>5. Users => UNCHANGED <<seen, ksVars, deps, apiVars, svcVars, epVars>>
  BY DEF Users, DeleteAPI, DeleteService, DeleteEndpoint, CreateService, CreateEndpoint, EditEndpoint
<1>6. UNCHANGED vars => UNCHANGED <<objVars, seen, ksVars, deps, envVars, apiVars, svcVars, epVars>>
  BY DEF vars
<1> QED BY <1>1, <1>2, <1>3, <1>4, <1>5, <1>6

----------------------------------------------------------------------------
(* Type correctness *)

\* Initially everything has its type.
LEMMA TypeInit == Init => TypeOK
<1> SUFFICES ASSUME Init PROVE TypeOK
  OBVIOUS
<1> USE ConstantsAssumption
<1>1. FirstEndpoints \subseteq Endpoints
  BY DEF FirstEndpoints, Endpoints
<1>2. api \in API /\ svc \in Service /\ ep \in Endpoint
  <2>1. api \in API
    <3>1. PICK r \in BOOLEAN :
            api = [ex |-> TRUE, deleting |-> FALSE, fins |-> {"api"}, ready |-> r]
      BY DEF Init
    <3> QED BY <3>1 DEF API, Finalizers
  <2>2. svc \in Service
    BY ObjectTypes DEF Init, NoService, Service
  <2>3. PICK e \in FirstEndpoints : ep = [NoEndpoint EXCEPT !.ex = TRUE, !.spec = e]
    BY DEF Init
  <2>4. ep \in Endpoint
    BY <1>1, <2>3, ObjectTypes DEF Endpoint
  <2> QED BY <2>1, <2>2, <2>4
<1>3. seen \in [api: API, svc: Service, ep: Endpoint]
  BY <1>2 DEF Init
<1>4. services \subseteq used /\ used \subseteq IDs
  BY DEF Init
<1>5. endpoints \in [IDs -> Endpoints] /\ \A id \in IDs : endpoints[id] = NoEndpoints
  BY DEF Init, NoEndpoints, Endpoints
<1>6. calm \in BOOLEAN
  <2>1. calm = (Faults = {})
    BY DEF Init
  <2> QED BY <2>1, Zenon
<1>7. user \in BOOLEAN /\ deps \in BOOLEAN
  <2>1. user = FALSE /\ deps = TRUE
    BY DEF Init
  <2> QED BY <2>1
<1>8. edits \in 0..MaxEdits /\ created \in 0..MaxCreated
  <2>1. edits = 0 /\ created = 0
    BY DEF Init
  <2> QED BY <2>1
<1>9. /\ {apc, spc, epc} \subseteq Steps
      /\ abase = NoAPI /\ sinst = NoService /\ sbase = NoService /\ sapi = NoAPI
      /\ einst = NoEndpoint /\ ebase = NoEndpoint /\ eapi = NoAPI /\ esvc = NoService
  <2>1. apc = "idle" /\ spc = "idle" /\ epc = "idle"
    BY DEF Init
  <2> QED BY <2>1 DEF Init, Steps
<1> QED BY <1>2, <1>3, <1>4, <1>5, <1>6, <1>7, <1>8, <1>9, ObjectTypes DEF TypeOK

\* The objects that a reconcile builds in memory have their types.
LEMMA MemoryTypes ==
  /\ \A s \in Service : /\ NoClient(s) \in Service /\ WithClient(s) \in Service
                        /\ NoOS(s) \in Service /\ Released(s, "service") \in Service
                        /\ [s EXCEPT !.init = TRUE] \in Service
                        /\ [s EXCEPT !.fins = @ \cup {"service"}] \in Service
                        /\ [s EXCEPT !.conds = @ \cup {"os"}] \in Service
                        /\ \A id \in ID : [s EXCEPT !.id = id] \in Service
  /\ \A e \in Endpoint : /\ Released(e, "endpoint") \in Endpoint
                         /\ [e EXCEPT !.init = TRUE] \in Endpoint
                         /\ [e EXCEPT !.fins = {"endpoint"}] \in Endpoint
                         /\ \A id \in ID : [e EXCEPT !.svcID = id] \in Endpoint
                         /\ \A F \in SUBSET Ifaces : [e EXCEPT !.ids = F] \in Endpoint
  /\ \A a \in API : \A F \in SUBSET Finalizers : [a EXCEPT !.fins = F] \in API
<1>1. \A s \in Service : /\ NoClient(s) \in Service /\ WithClient(s) \in Service
                         /\ NoOS(s) \in Service /\ Released(s, "service") \in Service
  BY DEF NoClient, WithClient, NoOS, Released, Service, Conditions
<1>2. \A s \in Service : /\ [s EXCEPT !.init = TRUE] \in Service
                         /\ [s EXCEPT !.fins = @ \cup {"service"}] \in Service
                         /\ [s EXCEPT !.conds = @ \cup {"os"}] \in Service
                         /\ \A id \in ID : [s EXCEPT !.id = id] \in Service
  BY DEF Service, Conditions, Finalizers
<1>3. \A e \in Endpoint : /\ Released(e, "endpoint") \in Endpoint
                          /\ [e EXCEPT !.init = TRUE] \in Endpoint
                          /\ [e EXCEPT !.fins = {"endpoint"}] \in Endpoint
                          /\ \A id \in ID : [e EXCEPT !.svcID = id] \in Endpoint
                          /\ \A F \in SUBSET Ifaces : [e EXCEPT !.ids = F] \in Endpoint
  BY DEF Released, Endpoint, Finalizers
<1>4. \A a \in API : \A F \in SUBSET Finalizers : [a EXCEPT !.fins = F] \in API
  BY DEF API
<1> QED BY <1>1, <1>2, <1>3, <1>4

\* Endpoints that are written belong to a service that Keystone has, and those that
\* are deleted leave the others as they are.
LEMMA KeystoneTypes ==
  ASSUME TypeOK, NEW id \in ID, NEW F \in SUBSET Ifaces
  PROVE  /\ Dropped(id, F) \in [IDs -> Endpoints]
         /\ \A j \in IDs \ services : Dropped(id, F)[j] = NoEndpoints
         /\ \A e \in Endpoints : id \in services =>
              /\ Written(id, F, e) \in [IDs -> Endpoints]
              /\ \A j \in IDs \ services : Written(id, F, e)[j] = NoEndpoints
<1>1. NoEndpoints \in Endpoints
  BY DEF NoEndpoints, Endpoints
<1>2. services \subseteq IDs /\ endpoints \in [IDs -> Endpoints]
      /\ \A j \in IDs \ services : endpoints[j] = NoEndpoints
  BY DEF TypeOK
<1>3. ASSUME NEW e \in Endpoints, id \in IDs
      PROVE  /\ Written(id, F, e) \in [IDs -> Endpoints]
             /\ \A j \in IDs \ {id} : Written(id, F, e)[j] = endpoints[j]
             /\ Written(id, F, e)[id] = [f \in Ifaces |-> IF f \in F THEN e[f] ELSE endpoints[id][f]]
  <2> DEFINE new == [f \in Ifaces |-> IF f \in F THEN e[f] ELSE endpoints[id][f]]
  <2>1. new \in Endpoints
    BY <1>2, <1>3 DEF Endpoints
  <2>2. Written(id, F, e) = [endpoints EXCEPT ![id] = new]
    BY DEF Written
  <2> HIDE DEF new
  <2>3. /\ [endpoints EXCEPT ![id] = new] \in [IDs -> Endpoints]
        /\ \A j \in IDs \ {id} : [endpoints EXCEPT ![id] = new][j] = endpoints[j]
        /\ [endpoints EXCEPT ![id] = new][id] = new
    BY <1>2, <1>3, <2>1
  <2>4. /\ Written(id, F, e) \in [IDs -> Endpoints]
        /\ \A j \in IDs \ {id} : Written(id, F, e)[j] = endpoints[j]
        /\ Written(id, F, e)[id] = new
    BY <2>2, <2>3
  <2> QED BY <2>4 DEF new
<1>4. ASSUME id \in IDs, id \notin services
      PROVE  Written(id, F, NoEndpoints)[id] = NoEndpoints
  BY <1>1, <1>2, <1>3, <1>4 DEF NoEndpoints
<1>5. \A e \in Endpoints : id \in services =>
        /\ Written(id, F, e) \in [IDs -> Endpoints]
        /\ \A j \in IDs \ services : Written(id, F, e)[j] = NoEndpoints
  BY <1>2, <1>3
<1>6. CASE id \in IDs
  <2> DEFINE dropped == Dropped(id, F)
  <2>1. dropped = Written(id, F, NoEndpoints)
    BY <1>6 DEF Dropped
  <2>2. /\ dropped \in [IDs -> Endpoints]
        /\ \A j \in IDs \ {id} : dropped[j] = endpoints[j]
    BY <1>1, <1>3, <1>6, <2>1
  <2>3. id \notin services => dropped[id] = NoEndpoints
    BY <1>4, <1>6, <2>1
  <2> HIDE DEF dropped
  <2>4. ASSUME NEW j \in IDs \ services
        PROVE  dropped[j] = NoEndpoints
    <3>1. CASE j = id
      BY <2>3, <3>1
    <3>2. CASE j # id
      BY <1>2, <2>2, <3>2
    <3> QED BY <3>1, <3>2
  <2> QED BY <1>5, <2>2, <2>4 DEF dropped
<1>7. CASE id \notin IDs
  BY <1>2, <1>5, <1>7 DEF Dropped
<1> QED BY <1>6, <1>7

\* A step of the service controller writes the KeystoneAPI's finalizers, its own
\* object or Keystone; a step of the endpoint controller likewise.
LEMMA SvcMemoryTyped ==
  ASSUME TypeOK, ServiceController
  PROVE  sinst' \in Service /\ sbase' \in Service /\ sapi' \in API /\ spc' \in Steps
<1> USE TypeParts, ObjectTypes, MemoryTypes DEF Steps
<1>1. CASE SvcReconcile
  <2>1. sbase' = svcView /\ (sapi' = sapi \/ sapi' \in {NoAPI, apiView})
    BY <1>1 DEF SvcReconcile
  <2>2. sinst' \in Service /\ spc' \in Steps
    <3>1. CASE SvcRoute(svcView, apiView)
      BY <3>1 DEF SvcRoute
    <3> QED BY <1>1, <3>1 DEF SvcReconcile
  <2> QED BY <2>1, <2>2
<1>2. CASE SvcHold \/ SvcUnhold
  BY <1>2 DEF SvcHold, SvcUnhold, SvcGoto, SvcReturn
<1>3. CASE SvcRegister
  <2>1. None \in ID /\ \A id \in services \cup (IDs \ used) : id \in ID
    BY DEF TypeOK, ID
  <2>2. sbase' = sbase /\ sapi' \in {sapi, NoAPI} /\ spc' \in {"patch", "user"}
    BY <1>3 DEF SvcRegister, SvcReturn
  <2>3. \/ sinst' = NoOS(sinst)
        \/ \E id \in ID : sinst' = [sinst EXCEPT !.id = id] \/ sinst' = NoOS([sinst EXCEPT !.id = id])
    BY <1>3, <2>1 DEF SvcRegister, SvcReturn
  <2> QED BY ZenonT(30), <2>2, <2>3
<1>4. CASE SvcUser
  BY <1>4 DEF SvcUser, SvcReturn
<1>5. CASE SvcDelUser
  BY <1>5 DEF SvcDelUser, SvcGoto, SvcReturn
<1>6. CASE SvcDelService
  <2>1. None \in ID
    BY DEF ID
  <2>2. /\ sinst' \in {sinst, [sinst EXCEPT !.id = None]} /\ spc' \in {"unhold", "patch"}
        /\ sbase' = sbase /\ sapi' \in {sapi, NoAPI}
    BY <1>6 DEF SvcDelService, SvcReturn
  <2>3. [sinst EXCEPT !.id = None] \in Service
    BY <2>1
  <2> QED BY <2>2, <2>3
<1>7. CASE SvcPatch
  BY <1>7 DEF SvcPatch, SvcForget
<1> QED BY <1>1, <1>2, <1>3, <1>4, <1>5, <1>6, <1>7 DEF ServiceController

\* The same of the endpoint controller.
LEMMA EpMemoryTyped ==
  ASSUME TypeOK, EndpointController
  PROVE  /\ einst' \in Endpoint /\ ebase' \in Endpoint /\ eapi' \in API /\ esvc' \in Service
         /\ epc' \in Steps
<1> USE TypeParts, ObjectTypes, MemoryTypes DEF Steps
<1>1. CASE EpReconcile
  <2>1. ebase' = epView /\ (eapi' = eapi \/ eapi' \in {NoAPI, apiView}) /\ esvc' = esvc
    BY <1>1 DEF EpReconcile
  <2>2. einst' \in Endpoint /\ epc' \in Steps
    BY <1>1 DEF EpReconcile, EpRoute
  <2> QED BY <2>1, <2>2
<1>2. CASE EpUnsvc \/ EpUnapi \/ EpHoldApi \/ EpHoldSvc
  BY <1>2 DEF EpUnsvc, EpUnapi, EpHoldApi, EpHoldSvc, EpGoto, EpReturn
<1>3. CASE EpDelete
  BY ZenonT(30), <1>3 DEF EpDelete, EpReturn
<1>4. CASE EpService
  <2>1. svcView.id \in ID
    BY DEF Service
  <2> QED BY ZenonT(30), <1>4, <2>1 DEF EpService, EpReturn
<1>5. CASE EpPrune \/ EpRegister
  <2>1. /\ ebase' = ebase /\ eapi' \in {eapi, NoAPI} /\ esvc' \in {esvc, NoService}
        /\ epc' \in {"register", "patch"}
    BY <1>5 DEF EpPrune, EpRegister, EpReturn
  <2>2. einst.ids \in SUBSET Ifaces /\ Named(einst.spec) \in SUBSET Ifaces
    BY DEF Endpoint, Named
  <2>3. \E F \in SUBSET Ifaces : einst' = [einst EXCEPT !.ids = F]
    <3>1. CASE EpPrune
      <4>1. \E F \in SUBSET Ifaces : einst' = [einst EXCEPT !.ids = einst.ids \ F]
        BY <3>1, <2>2 DEF EpPrune, EpReturn
      <4> QED BY <4>1, <2>2
    <3>2. CASE EpRegister
      <4>1. einst' = einst \/ \E F \in SUBSET Named(einst.spec) : einst' = [einst EXCEPT !.ids = einst.ids \cup F]
        BY <3>2 DEF EpRegister, EpReturn
      <4>2. einst = [einst EXCEPT !.ids = einst.ids]
        BY DEF Endpoint
      <4> QED BY <4>1, <4>2, <2>2
    <3> QED BY <1>5, <3>1, <3>2
  <2> QED BY ZenonT(30), <2>1, <2>3
<1>6. CASE EpPatch
  BY <1>6 DEF EpPatch, EpForget
<1> QED BY <1>1, <1>2, <1>3, <1>4, <1>5, <1>6 DEF EndpointController

\* What the cluster shows of the three objects keeps its type.
LEMMA ObjectsTyped ==
  ASSUME TypeOK, [Next]_vars
  PROVE  api' \in API /\ svc' \in Service /\ ep' \in Endpoint
<1> USE TypeParts, ObjectTypes, MemoryTypes DEF Settled
<1>1. CASE SvcHold \/ SvcUnhold \/ EpUnapi \/ EpHoldApi
  <2>1. \/ api' = api
        \/ \E F \in SUBSET Finalizers :
             api' \in {[api EXCEPT !.fins = F], Settled([api EXCEPT !.fins = F], NoAPI)}
    <3>1. \A a \in {sapi, eapi} : /\ a.fins \cup {"service"} \in SUBSET Finalizers
                                  /\ a.fins \cup {"endpoint"} \in SUBSET Finalizers
                                  /\ a.fins \ {"service"} \in SUBSET Finalizers
                                  /\ a.fins \ {"endpoint"} \in SUBSET Finalizers
      BY DEF API, Finalizers
    <3>2. CASE SvcHold \/ SvcUnhold
      BY <3>1, <3>2 DEF SvcHold, SvcUnhold
    <3>3. CASE EpUnapi \/ EpHoldApi
      BY <3>1, <3>3 DEF EpUnapi, EpHoldApi
    <3> QED BY <1>1, <3>2, <3>3
  <2>2. svc' = svc /\ ep' = ep
    BY <1>1 DEF SvcHold, SvcUnhold, EpUnapi, EpHoldApi
  <2> QED BY <2>1, <2>2
<1>2. CASE EpUnsvc \/ EpHoldSvc
  <2>1. \/ svc' = svc
        \/ \E F \in SUBSET Finalizers :
             svc' \in {[svc EXCEPT !.fins = F], Settled([svc EXCEPT !.fins = F], NoService)}
    <3>1. svcView.fins \ {"endpoint"} \in SUBSET Finalizers
          /\ esvc.fins \cup {"endpoint"} \in SUBSET Finalizers
      BY DEF Service, Finalizers
    <3> QED BY <1>2, <3>1 DEF EpUnsvc, EpHoldSvc
  <2>2. api' = api /\ ep' = ep
    BY <1>2 DEF EpUnsvc, EpHoldSvc
  <2>3. \A F \in SUBSET Finalizers : [svc EXCEPT !.fins = F] \in Service
    BY DEF Service
  <2> QED BY <2>1, <2>2, <2>3
<1>3. CASE SvcPatch
  BY <1>3, SvcPatchEffect DEF SvcPatch
<1>4. CASE EpPatch
  BY <1>4, EpPatchEffect DEF EpPatch
<1>5. CASE APIPatch
  BY <1>5, APIPatchEffect DEF APIPatch
<1>6. CASE APIReady \/ DeleteAPI
  <2>1. [api EXCEPT !.ready = ~@] \in API /\ [api EXCEPT !.deleting = TRUE] \in API
    BY DEF API
  <2>2. /\ api' \in {[api EXCEPT !.ready = ~@], Settled([api EXCEPT !.deleting = TRUE], NoAPI)}
        /\ svc' = svc /\ ep' = ep
    BY <1>6 DEF APIReady, DeleteAPI
  <2> QED BY <2>1, <2>2
<1>7. CASE DeleteService \/ CreateService
  <2>1. [svc EXCEPT !.deleting = TRUE] \in Service /\ [NoService EXCEPT !.ex = TRUE] \in Service
    BY DEF Service
  <2>2. /\ svc' \in {[NoService EXCEPT !.ex = TRUE], Settled([svc EXCEPT !.deleting = TRUE], NoService)}
        /\ api' = api /\ ep' = ep
    BY <1>7 DEF DeleteService, CreateService
  <2> QED BY <2>1, <2>2
<1>8. CASE DeleteEndpoint \/ CreateEndpoint \/ EditEndpoint
  <2>1. FirstEndpoints \subseteq Endpoints
    BY ConstantsAssumption DEF FirstEndpoints, Endpoints
  <2>2. ep' \in Endpoint
    <3>1. CASE DeleteEndpoint
      <4>1. [ep EXCEPT !.deleting = TRUE] \in Endpoint
        BY DEF Endpoint
      <4>2. ep' = Settled([ep EXCEPT !.deleting = TRUE], NoEndpoint)
        BY <3>1 DEF DeleteEndpoint
      <4> QED BY <4>1, <4>2
    <3>2. CASE CreateEndpoint
      <4>1. PICK e \in Endpoints : ep' = [NoEndpoint EXCEPT !.ex = TRUE, !.spec = e]
        BY <2>1, <3>2 DEF CreateEndpoint
      <4> QED BY <4>1 DEF Endpoint
    <3>3. CASE EditEndpoint
      <4>1. PICK e \in Endpoints : ep' = [ep EXCEPT !.spec = e]
        BY <3>3 DEF EditEndpoint
      <4> QED BY <4>1 DEF Endpoint
    <3> QED BY <1>8, <3>1, <3>2, <3>3
  <2> QED BY <1>8, <2>2 DEF DeleteEndpoint, CreateEndpoint, EditEndpoint
<1>9. CASE UNCHANGED objVars
  BY <1>9 DEF objVars
<1>10. CASE \/ SvcReconcile \/ SvcRegister \/ SvcUser \/ SvcDelUser \/ SvcDelService
            \/ EpReconcile \/ EpDelete \/ EpService \/ EpPrune \/ EpRegister
            \/ APIReconcile \/ Crash \/ CalmDown \/ SyncCache \/ UNCHANGED vars
  <2>1. UNCHANGED objVars
    BY <1>10 DEF SvcReconcile, SvcRegister, SvcUser, SvcDelUser, SvcDelService, EpReconcile,
      EpDelete, EpService, EpPrune, EpRegister, APIReconcile, Crash, CalmDown, SyncCache, vars, objVars
  <2> QED BY <1>9, <2>1
<1> QED
  BY <1>1, <1>2, <1>3, <1>4, <1>5, <1>6, <1>7, <1>8, <1>10
     DEF Next, ServiceController, EndpointController, APIController, Users

\* So does what Keystone holds.
LEMMA KeystoneTyped ==
  ASSUME TypeOK, [Next]_vars
  PROVE  /\ services' \subseteq used' /\ used' \subseteq IDs /\ user' \in BOOLEAN
         /\ endpoints' \in [IDs -> Endpoints]
         /\ \A id \in IDs \ services' : endpoints'[id] = NoEndpoints
<1>1. CASE SvcRegister
  BY <1>1 DEF SvcRegister, TypeOK
<1>2. CASE SvcUser \/ SvcDelUser
  BY <1>2 DEF SvcUser, SvcDelUser, TypeOK
<1>3. CASE SvcDelService
  <2>1. NoEndpoints \in Endpoints
    BY DEF NoEndpoints, Endpoints
  <2> QED BY <1>3, <2>1 DEF SvcDelService, TypeOK
<1>4. CASE EpDelete \/ EpPrune \/ EpRegister
  <2>1. /\ einst.svcID \in ID /\ Named(einst.spec) \in SUBSET Ifaces
        /\ einst.ids \in SUBSET Ifaces /\ einst.spec \in Endpoints
    BY TypeParts DEF Endpoint, Named
  <2>2. UNCHANGED <<services, used, user>>
    BY <1>4 DEF EpDelete, EpPrune, EpRegister
  <2>3. \/ endpoints' = endpoints
        \/ \E F \in SUBSET Ifaces : endpoints' = Dropped(einst.svcID, F)
        \/ /\ einst.svcID \in services
           /\ \E F \in SUBSET Ifaces : endpoints' = Written(einst.svcID, F, einst.spec)
    <3>1. CASE EpDelete
      BY <2>1, <3>1 DEF EpDelete
    <3>2. CASE EpPrune
      BY <2>1, <3>2 DEF EpPrune
    <3>3. CASE EpRegister
      BY <2>1, <3>3 DEF EpRegister
    <3> QED BY <1>4, <3>1, <3>2, <3>3
  <2>4. /\ endpoints' \in [IDs -> Endpoints]
        /\ \A id \in IDs \ services : endpoints'[id] = NoEndpoints
    <3>1. CASE endpoints' = endpoints
      BY <3>1 DEF TypeOK
    <3>2. ASSUME NEW F \in SUBSET Ifaces, endpoints' = Dropped(einst.svcID, F)
          PROVE  /\ endpoints' \in [IDs -> Endpoints]
                 /\ \A id \in IDs \ services : endpoints'[id] = NoEndpoints
      <4>1. /\ Dropped(einst.svcID, F) \in [IDs -> Endpoints]
            /\ \A j \in IDs \ services : Dropped(einst.svcID, F)[j] = NoEndpoints
        BY <2>1, KeystoneTypes
      <4> QED BY <3>2, <4>1
    <3>3. ASSUME NEW F \in SUBSET Ifaces, einst.svcID \in services,
                 endpoints' = Written(einst.svcID, F, einst.spec)
          PROVE  /\ endpoints' \in [IDs -> Endpoints]
                 /\ \A id \in IDs \ services : endpoints'[id] = NoEndpoints
      <4>1. /\ Written(einst.svcID, F, einst.spec) \in [IDs -> Endpoints]
            /\ \A j \in IDs \ services : Written(einst.svcID, F, einst.spec)[j] = NoEndpoints
        BY <2>1, <3>3, KeystoneTypes
      <4> QED BY <3>3, <4>1
    <3> QED BY <2>3, <3>1, <3>2, <3>3
  <2> QED BY <2>2, <2>4 DEF TypeOK
<1>5. CASE UNCHANGED ksVars
  BY <1>5 DEF ksVars, TypeOK
<1>6. CASE \/ SvcReconcile \/ SvcHold \/ SvcUnhold \/ SvcPatch
           \/ EpReconcile \/ EpUnsvc \/ EpUnapi \/ EpService \/ EpHoldApi \/ EpHoldSvc \/ EpPatch
           \/ APIReconcile \/ APIPatch \/ APIReady \/ Crash \/ CalmDown \/ SyncCache \/ Users
           \/ UNCHANGED vars
  <2>1. UNCHANGED ksVars
    BY <1>6 DEF SvcReconcile, SvcHold, SvcUnhold, SvcPatch, EpReconcile, EpUnsvc, EpUnapi, EpService,
      EpHoldApi, EpHoldSvc, EpPatch, APIReconcile, APIPatch, APIReady, Crash, CalmDown, SyncCache,
      Users, DeleteAPI, DeleteService, DeleteEndpoint, CreateService, CreateEndpoint, EditEndpoint,
      vars, ksVars
  <2> QED BY <1>5, <2>1
<1> QED BY <1>1, <1>2, <1>3, <1>4, <1>6 DEF Next, ServiceController, EndpointController, APIController

\* Every step of the controllers, the users and the caches keeps the types.
LEMMA TypeStep == TypeOK /\ [Next]_vars => TypeOK'
<1> SUFFICES ASSUME TypeOK, [Next]_vars PROVE TypeOK'
  OBVIOUS
<1> USE TypeParts, ObjectTypes, ConstantsAssumption
<1>1. /\ sinst' \in Service /\ sbase' \in Service /\ sapi' \in API /\ spc' \in Steps
  <2>1. CASE ServiceController
    BY <2>1, SvcMemoryTyped
  <2>2. CASE Crash
    BY <2>2 DEF Crash, SvcForget, Steps
  <2>3. CASE UNCHANGED svcVars
    BY <2>3 DEF svcVars, TypeOK
  <2>4. CASE EndpointController \/ APIController \/ APIReady \/ CalmDown \/ SyncCache \/ Users \/ UNCHANGED vars
    <3>1. UNCHANGED svcVars
      BY <2>4, Frames
    <3> QED BY <2>3, <3>1
  <2> QED BY <2>1, <2>2, <2>4 DEF Next
<1>2. /\ einst' \in Endpoint /\ ebase' \in Endpoint /\ eapi' \in API /\ esvc' \in Service
      /\ epc' \in Steps
  <2>1. CASE EndpointController
    BY <2>1, EpMemoryTyped
  <2>2. CASE Crash
    BY <2>2 DEF Crash, EpForget, Steps
  <2>3. CASE UNCHANGED epVars
    BY <2>3 DEF epVars, TypeOK
  <2>4. CASE ServiceController \/ APIController \/ APIReady \/ CalmDown \/ SyncCache \/ Users \/ UNCHANGED vars
    <3>1. UNCHANGED epVars
      BY <2>4, Frames
    <3> QED BY <2>3, <3>1
  <2> QED BY <2>1, <2>2, <2>4 DEF Next
<1>3. abase' \in API /\ apc' \in Steps /\ deps' \in BOOLEAN
  <2>1. CASE APIReconcile
    <3>1. abase' = apiView /\ apc' \in {"patch", "keep"}
      BY <2>1 DEF APIReconcile
    <3>2. deps' \in BOOLEAN
      <4>1. deps' = (External /\ deps) \/ deps' = deps \/ deps' = FALSE
        BY <2>1 DEF APIReconcile
      <4>2. deps \in BOOLEAN
        BY DEF TypeOK
      <4>3. CASE deps' = (External /\ deps)
        BY <4>3, Zenon
      <4> QED BY <4>1, <4>2, <4>3
    <3> QED BY <3>1, <3>2 DEF Steps
  <2>2. CASE APIPatch
    BY <2>2 DEF APIPatch, TypeOK, Steps
  <2>3. CASE Crash
    BY <2>3 DEF Crash, TypeOK, Steps
  <2>4. CASE UNCHANGED <<apiVars, deps>>
    BY <2>4 DEF apiVars, TypeOK
  <2>5. CASE \/ ServiceController \/ EndpointController \/ APIReady \/ CalmDown \/ SyncCache \/ Users
             \/ UNCHANGED vars
    <3>1. UNCHANGED <<apiVars, deps>>
      BY <2>5, Frames
    <3> QED BY <2>4, <3>1
  <2> QED BY <2>1, <2>2, <2>3, <2>5 DEF Next, APIController
<1>4. seen' \in [api: API, svc: Service, ep: Endpoint]
  <2>1. CASE SyncCache
    BY <2>1 DEF SyncCache, TypeOK
  <2>2. CASE UNCHANGED seen
    BY <2>2 DEF TypeOK
  <2>3. CASE \/ ServiceController \/ EndpointController \/ APIController \/ APIReady \/ Crash \/ CalmDown
             \/ Users \/ UNCHANGED vars
    <3>1. UNCHANGED seen
      BY <2>3, Frames
    <3> QED BY <2>2, <3>1
  <2> QED BY <2>1, <2>3 DEF Next
<1>5. calm' \in BOOLEAN /\ edits' \in 0..MaxEdits /\ created' \in 0..MaxCreated
  <2>1. CASE CalmDown
    BY <2>1 DEF CalmDown, TypeOK
  <2>2. CASE CreateService \/ CreateEndpoint
    <3>1. created < MaxCreated /\ created' = created + 1 /\ UNCHANGED <<calm, edits>>
      BY <2>2 DEF CreateService, CreateEndpoint
    <3> QED BY <3>1 DEF TypeOK
  <2>3. CASE EditEndpoint
    <3>1. edits < MaxEdits /\ edits' = edits + 1 /\ UNCHANGED <<calm, created>>
      BY <2>3 DEF EditEndpoint
    <3> QED BY <3>1 DEF TypeOK
  <2>4. CASE UNCHANGED envVars
    BY <2>4 DEF envVars, TypeOK
  <2>5. CASE \/ ServiceController \/ EndpointController \/ APIController \/ APIReady \/ Crash
             \/ SyncCache \/ DeleteAPI \/ DeleteService \/ DeleteEndpoint \/ UNCHANGED vars
    <3>1. UNCHANGED envVars
      BY <2>5, Frames DEF DeleteAPI, DeleteService, DeleteEndpoint, envVars
    <3> QED BY <2>4, <3>1
  <2> QED BY <2>1, <2>2, <2>3, <2>5 DEF Next, Users
<1> QED BY <1>1, <1>2, <1>3, <1>4, <1>5, ObjectsTyped, KeystoneTyped DEF TypeOK

\* The objects, Keystone's catalog and what the three controllers have in memory
\* have the shape the code gives them, and Keystone has no endpoint of a service
\* that it does not have.
THEOREM TypeCorrect == Spec => []TypeOK
BY TypeInit, TypeStep, PTL DEF Spec

----------------------------------------------------------------------------
(* Who writes the objects, and what *)

\* The steps that write one of the three objects.
LEMMA Writers ==
  ASSUME [Next]_vars
  PROVE  /\ \/ SvcHold \/ SvcUnhold \/ EpHoldApi \/ EpUnapi \/ APIPatch \/ APIReady \/ DeleteAPI
            \/ api' = api
         /\ \/ EpUnsvc \/ EpHoldSvc \/ SvcPatch \/ DeleteService \/ CreateService \/ svc' = svc
         /\ EpPatch \/ DeleteEndpoint \/ CreateEndpoint \/ EditEndpoint \/ ep' = ep
<1>1. CASE ServiceController
  BY <1>1 DEF ServiceController, SvcReconcile, SvcRegister, SvcUser, SvcDelUser, SvcDelService,
              SvcHold, SvcUnhold, SvcPatch, objVars
<1>2. CASE EndpointController
  BY <1>2 DEF EndpointController, EpReconcile, EpDelete, EpService, EpPrune, EpRegister,
              EpUnsvc, EpUnapi, EpHoldApi, EpHoldSvc, EpPatch, objVars
<1>3. CASE APIController \/ APIReady \/ Crash \/ CalmDown \/ SyncCache \/ UNCHANGED vars
  BY <1>3, Frames DEF APIController, APIReconcile, objVars
<1>4. CASE Users
  BY <1>4 DEF Users, DeleteAPI, DeleteService, DeleteEndpoint, CreateService, CreateEndpoint,
              EditEndpoint
<1> QED BY <1>1, <1>2, <1>3, <1>4 DEF Next

\* An object that is gone has nothing left of it.
GoneInv ==
  /\ ~api.ex => api = NoAPI
  /\ ~svc.ex => svc = NoService
  /\ ~ep.ex => ep = NoEndpoint

\* A finalizer f is put on the KeystoneAPI: not if it is being deleted or gone.
Holds(f) ==
  /\ api.ex /\ api'.ex /\ api'.deleting = api.deleting
  /\ api'.fins = api.fins \cup {f} /\ (api.deleting => api'.fins = api.fins)
\* A finalizer f is taken off it, which may be the last.
Unholds(f) ==
  /\ api.ex /\ api'.fins = api.fins \ {f}
  /\ api' = NoAPI \/ (api'.ex /\ api'.deleting = api.deleting)

\* What the controllers and the users do to the KeystoneAPI.
LEMMA APIWrites ==
  ASSUME TypeOK
  PROVE  /\ SvcHold => api' = api \/ Holds("service")
         /\ EpHoldApi => api' = api \/ Holds("endpoint")
         /\ SvcUnhold => api' = api \/ Unholds("service")
         /\ EpUnapi => api' = api \/ Unholds("endpoint")
         /\ APIReady \/ DeleteAPI => /\ api.ex /\ ~api.deleting /\ api'.fins = api.fins
                                     /\ api' = NoAPI \/ api'.ex
<1> USE TypeParts
<1>1. ASSUME NEW F, Accepted(api, sapi, F) \/ Accepted(api, eapi, F)
      PROVE  api.ex /\ (api.deleting => F \subseteq api.fins)
  BY <1>1 DEF Accepted
<1>2. \A F : /\ [api EXCEPT !.fins = F].fins = F /\ [api EXCEPT !.fins = F].ex = api.ex
             /\ [api EXCEPT !.fins = F].deleting = api.deleting
  BY DEF API
<1>3. SvcHold => api' = api \/ Holds("service")
  <2> SUFFICES ASSUME SvcHold, api' # api PROVE Holds("service")
    OBVIOUS
  <2>1. /\ Accepted(api, sapi, sapi.fins \cup {"service"})
        /\ api' = [api EXCEPT !.fins = sapi.fins \cup {"service"}]
    BY DEF SvcHold
  <2>2. sapi = api
    BY <2>1 DEF Accepted
  <2> QED BY <1>1, <1>2, <2>1, <2>2 DEF Holds
<1>4. EpHoldApi => api' = api \/ Holds("endpoint")
  <2> SUFFICES ASSUME EpHoldApi, api' # api PROVE Holds("endpoint")
    OBVIOUS
  <2>1. /\ Accepted(api, eapi, eapi.fins \cup {"endpoint"})
        /\ api' = [api EXCEPT !.fins = eapi.fins \cup {"endpoint"}]
    BY DEF EpHoldApi
  <2>2. eapi = api
    BY <2>1 DEF Accepted
  <2> QED BY <1>1, <1>2, <2>1, <2>2 DEF Holds
<1>5. SvcUnhold => api' = api \/ Unholds("service")
  <2> SUFFICES ASSUME SvcUnhold, api' # api PROVE Unholds("service")
    OBVIOUS
  <2>1. /\ Accepted(api, sapi, sapi.fins \ {"service"})
        /\ api' = Settled([api EXCEPT !.fins = sapi.fins \ {"service"}], NoAPI)
    BY DEF SvcUnhold
  <2>2. sapi = api
    BY <2>1 DEF Accepted
  <2> QED BY <1>1, <1>2, <2>1, <2>2 DEF Unholds, Settled, NoAPI
<1>6. EpUnapi => api' = api \/ Unholds("endpoint")
  <2> SUFFICES ASSUME EpUnapi, api' # api PROVE Unholds("endpoint")
    OBVIOUS
  <2>1. /\ Accepted(api, eapi, eapi.fins \ {"endpoint"})
        /\ api' = Settled([api EXCEPT !.fins = eapi.fins \ {"endpoint"}], NoAPI)
    BY DEF EpUnapi
  <2>2. eapi = api
    BY <2>1 DEF Accepted
  <2> QED BY <1>1, <1>2, <2>1, <2>2 DEF Unholds, Settled, NoAPI
<1>7. APIReady \/ DeleteAPI => /\ api.ex /\ ~api.deleting /\ api'.fins = api.fins
                               /\ api' = NoAPI \/ api'.ex
  <2> DEFINE a == [api EXCEPT !.ready = ~@]
             b == [api EXCEPT !.deleting = TRUE]
  <2>1. a.fins = api.fins /\ a.ex = api.ex /\ b.fins = api.fins /\ b.ex = api.ex
    BY DEF API
  <2>2. APIReady \/ DeleteAPI =>
          api.ex /\ ~api.deleting /\ (api' = a \/ api' = Settled(b, NoAPI))
    BY DEF APIReady, DeleteAPI
  <2> HIDE DEF a, b
  <2> QED BY <2>1, <2>2 DEF Settled, NoAPI
<1> QED BY <1>3, <1>4, <1>5, <1>6, <1>7

\* What users and the endpoint controller do to the service: they never touch its
\* own finalizer or its status, nor add a finalizer while it is being deleted.
LEMMA SvcWrites ==
  ASSUME TypeOK, EpUnsvc \/ EpHoldSvc \/ DeleteService
  PROVE  \/ svc' = svc
         \/ /\ svc' = NoService /\ (svc.fins = {} \/ (EpUnsvc /\ svc.fins \subseteq {"endpoint"}))
         \/ /\ svc.ex /\ svc'.ex /\ svc'.id = svc.id /\ svc'.conds = svc.conds
            /\ svc.deleting => svc'.deleting /\ svc'.fins \subseteq svc.fins
            /\ \/ EpUnsvc /\ svc'.fins = svc.fins \ {"endpoint"}
               \/ EpHoldSvc /\ svc'.fins = svc.fins \cup {"endpoint"} /\ svc = esvc
                            /\ svc'.deleting = svc.deleting
               \/ DeleteService /\ svc'.fins = svc.fins
<1> USE TypeParts
<1>1. \A F : /\ [svc EXCEPT !.fins = F].fins = F /\ [svc EXCEPT !.fins = F].ex = svc.ex
             /\ [svc EXCEPT !.fins = F].id = svc.id /\ [svc EXCEPT !.fins = F].conds = svc.conds
             /\ [svc EXCEPT !.fins = F].deleting = svc.deleting
  BY DEF Service
<1>2. CASE EpUnsvc
  <2> SUFFICES ASSUME svc' # svc
               PROVE  \/ svc' = NoService /\ svc.fins \subseteq {"endpoint"}
                      \/ /\ svc.ex /\ svc'.ex /\ svc'.id = svc.id /\ svc'.conds = svc.conds
                         /\ svc'.deleting = svc.deleting /\ svc'.fins = svc.fins \ {"endpoint"}
    BY <1>2
  <2>1. /\ Accepted(svc, svcView, svcView.fins \ {"endpoint"})
        /\ svc' = Settled([svc EXCEPT !.fins = svcView.fins \ {"endpoint"}], NoService)
    BY <1>2 DEF EpUnsvc
  <2>2. svcView = svc /\ svc.ex
    BY <2>1 DEF Accepted
  <2> DEFINE s == [svc EXCEPT !.fins = svc.fins \ {"endpoint"}]
  <2>3. /\ s.fins = svc.fins \ {"endpoint"} /\ s.ex = svc.ex /\ s.id = svc.id
        /\ s.conds = svc.conds /\ s.deleting = svc.deleting
    BY <1>1
  <2>4. svc' = Settled(s, NoService)
    BY <2>1, <2>2
  <2> HIDE DEF s
  <2> QED BY <2>2, <2>3, <2>4 DEF Settled
<1>3. CASE EpHoldSvc
  <2> SUFFICES ASSUME svc' # svc
               PROVE  /\ svc.ex /\ svc'.ex /\ svc'.id = svc.id /\ svc'.conds = svc.conds
                      /\ svc.deleting => svc'.fins \subseteq svc.fins
                      /\ svc'.deleting = svc.deleting /\ svc'.fins = svc.fins \cup {"endpoint"} /\ svc = esvc
    BY <1>3
  <2>1. /\ Accepted(svc, esvc, esvc.fins \cup {"endpoint"})
        /\ svc' = [svc EXCEPT !.fins = esvc.fins \cup {"endpoint"}]
    BY <1>3 DEF EpHoldSvc
  <2>2. esvc = svc /\ svc.ex /\ (svc.deleting => svc.fins \cup {"endpoint"} \subseteq svc.fins)
    BY <2>1 DEF Accepted
  <2> QED BY <1>1, <2>1, <2>2
<1>4. CASE DeleteService
  <2>1. svc.ex /\ ~svc.deleting /\ svc' = Settled([svc EXCEPT !.deleting = TRUE], NoService)
    BY <1>4 DEF DeleteService
  <2>2. LET s == [svc EXCEPT !.deleting = TRUE] IN
          s.ex = svc.ex /\ s.fins = svc.fins /\ s.id = svc.id /\ s.conds = svc.conds
    BY DEF Service
  <2> QED BY <1>4, <2>1, <2>2 DEF Settled
<1> QED BY <1>2, <1>3, <1>4

\* An object that is created anew is empty.
LEMMA Creations ==
  /\ CreateService => /\ ~svc.ex /\ svc'.ex /\ ~svc'.deleting /\ svc'.fins = {} /\ svc'.id = None
                      /\ svc'.conds = {}
  /\ CreateEndpoint => ~ep.ex /\ ep'.ex /\ ~ep'.deleting /\ ep'.fins = {} /\ ep'.ids = {}
<1>1. CreateService => /\ ~svc.ex /\ svc'.ex /\ ~svc'.deleting /\ svc'.fins = {} /\ svc'.id = None
                       /\ svc'.conds = {}
  BY DEF CreateService, NoService
<1>2. CreateEndpoint => ~ep.ex /\ ep'.ex /\ ~ep'.deleting /\ ep'.fins = {} /\ ep'.ids = {}
  <2> SUFFICES ASSUME CreateEndpoint
               PROVE  ~ep.ex /\ ep'.ex /\ ~ep'.deleting /\ ep'.fins = {} /\ ep'.ids = {}
    OBVIOUS
  <2>1. PICK e \in FirstEndpoints : ep' = [NoEndpoint EXCEPT !.ex = TRUE, !.spec = e]
    BY DEF CreateEndpoint
  <2> QED BY <2>1 DEF NoEndpoint, CreateEndpoint
<1> QED BY <1>1, <1>2

\* What users do to the endpoint.
LEMMA EpWrites ==
  ASSUME TypeOK, DeleteEndpoint \/ EditEndpoint
  PROVE  /\ ep.ex /\ ~ep.deleting
         /\ \/ ep' = NoEndpoint /\ ep.fins = {}
            \/ ep'.ex /\ ep'.fins = ep.fins /\ ep'.ids = ep.ids /\ (ep'.deleting \/ EditEndpoint)
<1> USE TypeParts
<1>1. CASE DeleteEndpoint
  <2>1. ep.ex /\ ~ep.deleting /\ ep' = Settled([ep EXCEPT !.deleting = TRUE], NoEndpoint)
    BY <1>1 DEF DeleteEndpoint
  <2>2. LET e == [ep EXCEPT !.deleting = TRUE] IN
          e.ex = ep.ex /\ e.fins = ep.fins /\ e.ids = ep.ids /\ e.deleting = TRUE
    BY DEF Endpoint
  <2> QED BY <2>1, <2>2 DEF Settled
<1>2. CASE EditEndpoint
  <2>1. PICK e \in Endpoints : ep' = [ep EXCEPT !.spec = e]
    BY <1>2 DEF EditEndpoint
  <2> QED BY <1>2, <2>1 DEF EditEndpoint, Endpoint
<1> QED BY <1>1, <1>2

\* What is gone stays empty until it is created again.
LEMMA GoneStep == TypeOK /\ GoneInv /\ [Next]_vars => GoneInv'
<1> SUFFICES ASSUME TypeOK, GoneInv, [Next]_vars PROVE GoneInv'
  OBVIOUS
<1> USE TypeParts
<1>1. ~api'.ex => api' = NoAPI
  <2>1. CASE APIPatch
    BY <2>1, APIPatchEffect DEF GoneInv
  <2>2. CASE SvcHold \/ SvcUnhold \/ EpHoldApi \/ EpUnapi \/ APIReady \/ DeleteAPI
    BY <2>2, APIWrites DEF GoneInv, Holds, Unholds
  <2>3. CASE api' = api
    BY <2>3 DEF GoneInv
  <2> QED BY <2>1, <2>2, <2>3, Writers
<1>2. ~svc'.ex => svc' = NoService
  <2>1. CASE SvcPatch
    BY <2>1, SvcPatchEffect DEF GoneInv
  <2>2. CASE EpUnsvc \/ EpHoldSvc \/ DeleteService
    BY <2>2, SvcWrites DEF GoneInv
  <2>3. CASE CreateService
    BY <2>3, Creations
  <2>4. CASE svc' = svc
    BY <2>4 DEF GoneInv
  <2> QED BY <2>1, <2>2, <2>3, <2>4, Writers
<1>3. ~ep'.ex => ep' = NoEndpoint
  <2>1. CASE EpPatch
    BY <2>1, EpPatchEffect DEF GoneInv
  <2>2. CASE DeleteEndpoint \/ EditEndpoint
    BY <2>2, EpWrites
  <2>3. CASE CreateEndpoint
    BY <2>3, Creations
  <2>4. CASE ep' = ep
    BY <2>4 DEF GoneInv
  <2> QED BY <2>1, <2>2, <2>3, <2>4, Writers
<1> QED BY <1>1, <1>2, <1>3 DEF GoneInv

\* A cache shows what it has shown, or the object as it is.
LEMMA Views ==
  ASSUME TypeOK, [Next]_vars
  PROVE  /\ apiView' = apiView \/ apiView' = api'
         /\ epView' = epView \/ epView' = ep'
<1>1. CASE SyncCache
  <2>1. api' = api /\ ep' = ep
    BY <1>1, Frames DEF objVars
  <2> QED BY <1>1, <2>1 DEF SyncCache, TypeOK, apiView, epView
<1>2. CASE seen' = seen
  BY <1>2 DEF apiView, epView
<1>3. CASE ~SyncCache
  BY <1>2, <1>3, Frames DEF Next
<1> QED BY <1>1, <1>3

----------------------------------------------------------------------------
(* The dependencies of the KeystoneAPI *)

\* A copy of the KeystoneAPI that is being deleted may be old, but nothing has been
\* added since: it has no finalizer less than the object.
Newer(a) == api.fins \subseteq a.fins /\ (api.ex => api.deleting)
APIInv ==
  /\ apiView.deleting => Newer(apiView)
  /\ apc # "idle" => abase.deleting /\ Newer(abase)
  /\ External => deps
  /\ ~deps => (api.ex => api.deleting) /\ api.fins \subseteq {"api"}

\* A KeystoneAPI that is being deleted loses finalizers and gets none, whoever
\* writes it, until it is gone.
LEMMA DeletionSticks ==
  ASSUME TypeOK, GoneInv, APIInv, [Next]_vars, api.ex => api.deleting
  PROVE  api'.fins \subseteq api.fins /\ (api'.ex => api'.deleting)
<1> USE TypeParts
<1>1. CASE APIPatch
  <2>1. apc # "idle"
    BY <1>1 DEF APIPatch
  <2>2. api.fins \subseteq abase.fins
    BY <2>1 DEF APIInv, Newer
  <2>3. NoAPI.fins = {} /\ ~NoAPI.ex
    BY DEF NoAPI
  <2> QED BY <1>1, <2>2, <2>3, APIPatchEffect DEF Merge
<1>2. CASE SvcHold \/ SvcUnhold \/ EpHoldApi \/ EpUnapi \/ APIReady \/ DeleteAPI
  BY <1>2, APIWrites DEF Holds, Unholds, NoAPI
<1>3. CASE api' = api
  BY <1>3
<1> QED BY <1>1, <1>2, <1>3, Writers

\* Initially nothing is being deleted.
LEMMA APIInit == Init => GoneInv /\ APIInv
<1> SUFFICES ASSUME Init PROVE GoneInv /\ APIInv
  OBVIOUS
<1>1. PICK r \in BOOLEAN : api = [ex |-> TRUE, deleting |-> FALSE, fins |-> {"api"}, ready |-> r]
  BY DEF Init
<1>2. PICK e \in FirstEndpoints : ep = [NoEndpoint EXCEPT !.ex = TRUE, !.spec = e]
  BY DEF Init
<1>3. svc.ex /\ api.ex /\ ep.ex /\ ~api.deleting
  BY <1>1, <1>2 DEF Init, NoService, NoEndpoint
<1>4. apiView = api
  BY DEF Init, apiView
<1> QED BY <1>3, <1>4 DEF Init, GoneInv, APIInv

\* Every step keeps APIInv.
LEMMA APIStep == TypeOK /\ GoneInv /\ APIInv /\ [Next]_vars => APIInv'
<1> SUFFICES ASSUME TypeOK, GoneInv, APIInv, [Next]_vars PROVE APIInv'
  OBVIOUS
<1>1. apiView'.deleting => Newer(apiView)'
  <2>1. CASE apiView' = api'
    BY <2>1 DEF Newer
  <2>2. CASE apiView' = apiView
    BY <2>2, DeletionSticks DEF APIInv, Newer
  <2> QED BY <2>1, <2>2, Views
<1>2. apc' # "idle" => abase'.deleting /\ Newer(abase)'
  <2>1. CASE APIReconcile
    <3>1. abase' = apiView /\ apiView.deleting /\ api' = api
      BY <2>1 DEF APIReconcile, objVars
    <3> QED BY <3>1 DEF APIInv, Newer
  <2>2. CASE APIPatch \/ Crash
    BY <2>2 DEF APIPatch, Crash
  <2>3. CASE UNCHANGED apiVars
    BY <2>3, DeletionSticks DEF apiVars, APIInv, Newer
  <2> QED BY <2>1, <2>2, <2>3, Frames DEF Next, APIController
<1>3. /\ External => deps'
      /\ ~deps' => (api'.ex => api'.deleting) /\ api'.fins \subseteq {"api"}
  <2>1. CASE deps' = deps
    BY <2>1, DeletionSticks DEF APIInv
  <2>2. CASE APIReconcile /\ deps' # deps
    <3>1. apiView.deleting /\ api' = api
      BY <2>2 DEF APIReconcile, objVars
    <3>2. deps' = (External /\ deps) \/ ~External
      BY <2>2 DEF APIReconcile
    <3>3. Finishes(apiView)
      BY <2>2 DEF APIReconcile
    <3>4. CASE External
      <4>1. deps
        BY <3>4 DEF APIInv
      <4>2. deps'
        BY <3>2, <3>4, <4>1, Zenon
      <4> QED BY <4>2
    <3>5. CASE ~External
      BY <3>1, <3>3, <3>5 DEF Finishes, APIInv, Newer
    <3> QED BY <3>4, <3>5
  <2>3. CASE ~APIReconcile
    <3>1. deps' = deps
      BY <2>3, Frames DEF Next, APIController, APIPatch
    <3> QED BY <2>1, <3>1
  <2> QED BY <2>1, <2>2, <2>3
<1> QED BY <1>1, <1>2, <1>3 DEF APIInv

\* Database, Memcached, transport URL and topology outlive what holds the
\* KeystoneAPI: they are let go only when its deletion has seen every other
\* finalizer gone, however old the copy is that it looks at, and none comes back.
THEOREM DependenciesStayHeld == Spec => []DependenciesHeld
<1> DEFINE Inv == TypeOK /\ GoneInv /\ APIInv
<1>1. Init => Inv
  BY TypeInit, APIInit
<1>2. Inv /\ [Next]_vars => Inv'
  BY TypeStep, GoneStep, APIStep
<1>3. Inv => DependenciesHeld
  BY DEF APIInv, DependenciesHeld
<1> QED BY <1>1, <1>2, <1>3, PTL DEF Spec

----------------------------------------------------------------------------
(* The service and its finalizer on the KeystoneAPI *)

\* The caches of the KeystoneAPI and of the service do not lag.
Fresh == "api" \notin Lag /\ "svc" \notin Lag

\* Only a controller puts its finalizer on the KeystoneAPI or takes it off.
LEMMA APIFins ==
  ASSUME TypeOK, GoneInv, APIInv, [Next]_vars
  PROVE  /\ ~(SvcHold \/ SvcUnhold) => ("service" \in api'.fins <=> "service" \in api.fins)
         /\ ~(EpHoldApi \/ EpUnapi) => ("endpoint" \in api'.fins <=> "endpoint" \in api.fins)
<1> USE TypeParts
<1>1. CASE APIPatch
  <2> DEFINE F == IF apc = "patch" THEN abase.fins \ {"api"} ELSE abase.fins
  <2>1. api.fins \subseteq abase.fins /\ (api.ex => api.deleting)
    BY <1>1 DEF APIPatch, APIInv, Newer
  <2>2. \/ api' = api
        \/ /\ F # abase.fins => F \subseteq api.fins
           /\ api'.fins = Merge(api.fins, abase.fins, F)
    <3>1. NoAPI.fins = {}
      BY DEF NoAPI
    <3> QED BY <1>1, <2>1, <3>1, APIPatchEffect
  <2>3. \A f \in {"service", "endpoint"} : f \in api'.fins <=> f \in api.fins
    BY <2>1, <2>2 DEF Merge
  <2> QED BY <2>3
<1>2. CASE SvcHold \/ SvcUnhold
  <2>1. "endpoint" \in api'.fins <=> "endpoint" \in api.fins
    BY <1>2, APIWrites DEF Holds, Unholds
  <2> QED BY <1>2, <2>1
<1>3. CASE EpHoldApi \/ EpUnapi
  <2>1. "service" \in api'.fins <=> "service" \in api.fins
    BY <1>3, APIWrites DEF Holds, Unholds
  <2> QED BY <1>3, <2>1
<1>4. CASE APIReady \/ DeleteAPI \/ api' = api
  BY <1>4, APIWrites
<1> QED BY <1>1, <1>2, <1>3, <1>4, Writers

\* Nobody but the service controller touches the service's own finalizer; while it
\* is there the service stays the same object, and its status is the controller's.
LEMMA OthersOnService ==
  ASSUME TypeOK, GoneInv, [Next]_vars, ~SvcPatch
  PROVE  /\ "service" \in svc'.fins <=> "service" \in svc.fins
         /\ "service" \in svc.fins =>
              svc'.id = svc.id /\ (svc.deleting => svc'.deleting /\ svc'.fins \subseteq svc.fins)
         /\ svc'.id # None => svc'.id = svc.id /\ (svc.deleting => svc'.deleting)
         /\ IsReady(svc') => IsReady(svc) /\ (svc.deleting => svc'.deleting)
         /\ svc'.fins # {} => (svc.deleting => svc'.deleting)
<1> USE TypeParts
<1>1. NoService.fins = {} /\ NoService.id = None /\ NoService.conds = {} /\ ~NoService.ex
  BY DEF NoService
<1>2. CASE EpUnsvc \/ EpHoldSvc \/ DeleteService
  BY <1>1, <1>2, SvcWrites DEF IsReady, Conditions
<1>3. CASE CreateService
  <2>1. svc = NoService
    BY <1>3, Creations DEF GoneInv
  <2> QED BY <1>1, <1>3, <2>1, Creations DEF IsReady, Conditions
<1>4. CASE svc' = svc
  BY <1>1, <1>4 DEF GoneInv
<1> QED BY <1>2, <1>3, <1>4, Writers

\* Registered or not, the service holds the KeystoneAPI while it has its own
\* finalizer and a service ID, and never without.
ServiceInv ==
  /\ svc.id # None => "service" \in svc.fins \/ svc.deleting
  /\ svc.id # None /\ ~svc.deleting => "service" \in api.fins
  /\ "service" \in api.fins => "service" \in svc.fins

\* What a reconcile of the service knows of the two objects.
ServiceKnows ==
  /\ spc \in {"hold", "deluser", "delservice", "unhold"} =>
       ("service" \in sapi.fins <=> "service" \in api.fins)
  /\ spc \in {"register", "user"} => "service" \in api.fins
  /\ spc \in {"hold", "register", "user"} => "service" \in sbase.fins
  /\ spc \in {"deluser", "delservice", "unhold"} => sbase.deleting /\ sinst.id \in {sbase.id, None}
  /\ spc = "hold" => sinst.id = sbase.id
  /\ spc \notin {"idle", "patch"} => sinst.fins = sbase.fins
\* The service is still the object that was read if that has the finalizer.
ServiceSame ==
  /\ spc # "idle" /\ sbase.deleting => (svc.id # None => svc.deleting)
  /\ spc # "idle" /\ "service" \notin sbase.fins => "service" \notin svc.fins
  /\ spc # "idle" /\ "service" \in sbase.fins =>
       /\ "service" \in svc.fins /\ svc.id = sbase.id
       /\ sbase.deleting => svc.deleting /\ svc.fins \subseteq sbase.fins
\* What a patch may change: an ID once the KeystoneAPI is held, and the finalizer,
\* which goes only after that on the KeystoneAPI.
ServicePatches ==
  /\ spc = "patch" /\ sinst.id # sbase.id /\ sinst.id # None =>
       "service" \in api.fins /\ "service" \in sbase.fins /\ sinst.fins = sbase.fins
  /\ spc = "patch" /\ sinst.fins # sbase.fins =>
       \/ /\ sinst.fins = sbase.fins \cup {"service"} /\ "service" \notin sbase.fins
          /\ ~sbase.deleting
       \/ /\ sinst.fins = sbase.fins \ {"service"} /\ "service" \in sbase.fins
          /\ sbase.deleting /\ "service" \notin api.fins
HoldInv == ServiceInv /\ ServiceKnows /\ ServiceSame /\ ServicePatches

\* Initially nothing is registered or held.
LEMMA HoldInit == Init => HoldInv
<1> SUFFICES ASSUME Init PROVE HoldInv
  OBVIOUS
<1>1. PICK r \in BOOLEAN : api = [ex |-> TRUE, deleting |-> FALSE, fins |-> {"api"}, ready |-> r]
  BY DEF Init
<1>2. api.fins = {"api"} /\ svc.id = None /\ spc = "idle"
  BY <1>1 DEF Init, NoService
<1> QED BY <1>2 DEF HoldInv, ServiceInv, ServiceKnows, ServiceSame, ServicePatches

\* What the service controller changes of the service in memory touches neither the
\* finalizers nor the ID, unless it says so.
LEMMA ServiceFields ==
  ASSUME NEW s \in Service
  PROVE  /\ NoClient(s).fins = s.fins /\ NoClient(s).id = s.id
         /\ WithClient(s).fins = s.fins /\ WithClient(s).id = s.id
         /\ NoOS(s).fins = s.fins /\ NoOS(s).id = s.id
         /\ Released(s, "service").fins = s.fins \ {"service"} /\ Released(s, "service").id = s.id
         /\ [s EXCEPT !.init = TRUE].fins = s.fins /\ [s EXCEPT !.init = TRUE].id = s.id
         /\ [s EXCEPT !.fins = @ \cup {"service"}].fins = s.fins \cup {"service"}
         /\ [s EXCEPT !.fins = @ \cup {"service"}].id = s.id
         /\ [s EXCEPT !.conds = @ \cup {"os"}].fins = s.fins
         /\ [s EXCEPT !.conds = @ \cup {"os"}].id = s.id
         /\ \A id \in ID : [s EXCEPT !.id = id].fins = s.fins /\ [s EXCEPT !.id = id].id = id
BY DEF NoClient, WithClient, NoOS, Released, Service

\* Registration leaves the finalizers of the service in memory as they are.
LEMMA ServiceInMemory ==
  ASSUME TypeOK, SvcRegister \/ SvcUser
  PROVE  sinst'.fins = sinst.fins
<1> USE TypeParts, ServiceFields
<1>1. None \in ID /\ \A id \in services \cup (IDs \ used) : id \in ID
  BY DEF TypeOK, ID
<1>2. \A id \in ID : [sinst EXCEPT !.id = id] \in Service
  BY MemoryTypes
<1>3. \/ sinst' = NoOS(sinst) \/ sinst' = [sinst EXCEPT !.conds = @ \cup {"os"}]
      \/ \E id \in ID : sinst' \in {[sinst EXCEPT !.id = id], NoOS([sinst EXCEPT !.id = id])}
  <2>1. CASE SvcUser
    BY <2>1 DEF SvcUser, SvcReturn
  <2>2. CASE SvcRegister
    <3>1. \/ sinst' = NoOS(sinst)
          \/ \E id \in services : sinst' = [sinst EXCEPT !.id = id]
          \/ \E id \in IDs \ used : sinst' = [sinst EXCEPT !.id = id]
          \/ sinst' = NoOS([sinst EXCEPT !.id = None])
      BY <2>2 DEF SvcRegister, SvcReturn
    <3> QED BY <3>1, <1>1
  <2> QED BY <2>1, <2>2
<1>4. NoOS(sinst).fins = sinst.fins /\ [sinst EXCEPT !.conds = @ \cup {"os"}].fins = sinst.fins
  OBVIOUS
<1>5. ASSUME NEW id \in ID
      PROVE  /\ [sinst EXCEPT !.id = id].fins = sinst.fins
             /\ NoOS([sinst EXCEPT !.id = id]).fins = sinst.fins
  <2> DEFINE s == [sinst EXCEPT !.id = id]
  <2>1. s \in Service /\ s.fins = sinst.fins
    BY <1>2
  <2> HIDE DEF s
  <2>2. NoOS(s).fins = s.fins
    BY <2>1
  <2> QED BY <2>1, <2>2 DEF s
<1>6. CASE \E id \in ID : sinst' \in {[sinst EXCEPT !.id = id], NoOS([sinst EXCEPT !.id = id])}
  <2>1. PICK id \in ID : sinst' \in {[sinst EXCEPT !.id = id], NoOS([sinst EXCEPT !.id = id])}
    BY <1>6
  <2>2. /\ [sinst EXCEPT !.id = id].fins = sinst.fins
        /\ NoOS([sinst EXCEPT !.id = id]).fins = sinst.fins
    BY <1>5
  <2>3. \/ sinst' = [sinst EXCEPT !.id = id]
        \/ sinst' = NoOS([sinst EXCEPT !.id = id])
    BY <2>1
  <2> QED BY <2>2, <2>3
<1> QED BY <1>3, <1>4, <1>6, Zenon

\* A step outside the service controller keeps HoldInv.
LEMMA HoldOutside ==
  TypeOK /\ GoneInv /\ APIInv /\ HoldInv /\ [Next]_vars /\ ~ServiceController => HoldInv'
<1> SUFFICES ASSUME TypeOK, GoneInv, APIInv, HoldInv, [Next]_vars, ~ServiceController
             PROVE  HoldInv'
  OBVIOUS
<1>1. ~SvcHold /\ ~SvcUnhold /\ ~SvcPatch
  BY DEF ServiceController
<1>2. UNCHANGED svcVars \/ spc' = "idle"
  BY Frames DEF Next, Crash, SvcForget
<1>3. ServiceInv'
  BY <1>1, APIFins, OthersOnService DEF HoldInv, ServiceInv
<1>4. ServiceKnows'
  BY <1>1, <1>2, APIFins DEF HoldInv, ServiceKnows, svcVars
<1>5. ServiceSame'
  BY <1>1, <1>2, OthersOnService DEF HoldInv, ServiceSame, svcVars
<1>6. ServicePatches'
  BY <1>1, <1>2, APIFins DEF HoldInv, ServicePatches, svcVars
<1> QED BY <1>3, <1>4, <1>5, <1>6 DEF HoldInv

\* A step of the service controller keeps HoldInv, if its caches do not lag.
LEMMA HoldInside ==
  Fresh /\ TypeOK /\ GoneInv /\ APIInv /\ HoldInv /\ [Next]_vars /\ ServiceController => HoldInv'
<1> SUFFICES ASSUME Fresh, TypeOK, GoneInv, APIInv, HoldInv, [Next]_vars, ServiceController
             PROVE  HoldInv'
  OBVIOUS
<1> USE TypeParts, ServiceFields
<1>0. apiView = api /\ svcView = svc
  BY DEF Fresh, apiView, svcView
<1>1. CASE SvcReconcile
  <2>1. UNCHANGED <<api, svc>> /\ sbase' = svc
    BY <1>0, <1>1 DEF SvcReconcile, objVars
  <2>2. \/ /\ spc' = "patch" /\ sinst'.id = svc.id
           /\ sinst'.fins = svc.fins \/ (sinst'.fins = svc.fins \cup {"service"} /\ ~svc.deleting)
        \/ /\ spc' = "patch" /\ sinst'.id = svc.id /\ sinst'.fins = svc.fins \ {"service"}
           /\ svc.deleting /\ ~api.ex
        \/ /\ spc' \in {"unhold", "deluser"} /\ svc.deleting
           /\ sinst'.id = svc.id /\ sinst'.fins = svc.fins /\ sapi' = api
        \/ /\ spc' = "hold" /\ "service" \in svc.fins
           /\ sinst'.id = svc.id /\ sinst'.fins = svc.fins /\ sapi' = api
    <3>1. CASE SvcRoute(svc, api) /\ (svc.deleting \/ "service" \in svc.fins)
               /\ sapi' = IF spc' = "patch" THEN NoAPI ELSE api
      <4>1. \/ sinst' = NoClient(svc) /\ spc' = "patch"
            \/ ~api.ex /\ svc.deleting /\ sinst' = Released(svc, "service") /\ spc' = "patch"
            \/ svc.deleting /\ sinst' = svc /\ spc' = "unhold"
            \/ sinst' = WithClient(svc) /\ spc' = IF svc.deleting THEN "deluser" ELSE "hold"
        BY <3>1 DEF SvcRoute
      <4>2. CASE spc' = "patch" /\ sinst' = NoClient(svc)
        BY <4>2
      <4>3. CASE spc' = "patch" /\ ~api.ex /\ svc.deleting /\ sinst' = Released(svc, "service")
        BY <4>3
      <4>4. CASE svc.deleting /\ sinst' = svc /\ spc' = "unhold"
        BY <3>1, <4>4
      <4>5. CASE sinst' = WithClient(svc) /\ spc' = IF svc.deleting THEN "deluser" ELSE "hold"
        BY <3>1, <4>5
      <4> QED BY <4>1, <4>2, <4>3, <4>4, <4>5
    <3> QED BY ZenonT(30), <1>0, <1>1, <3>1 DEF SvcReconcile
  <2>3. ~api.ex => "service" \notin api.fins
    BY DEF GoneInv, NoAPI
  <2>4. ServiceInv'
    BY <2>1 DEF HoldInv, ServiceInv
  <2>5. ServiceKnows'
    BY <2>1, <2>2 DEF ServiceKnows
  <2>6. ServiceSame'
    BY <2>1 DEF ServiceSame
  <2>7. /\ "service" \in svc.fins => svc.fins \cup {"service"} = svc.fins
        /\ "service" \notin svc.fins => svc.fins \ {"service"} = svc.fins
    OBVIOUS
  <2>8. ServicePatches'
    BY <2>1, <2>2, <2>3, <2>7 DEF ServicePatches
  <2> QED BY <2>4, <2>5, <2>6, <2>8 DEF HoldInv
<1>2. CASE SvcHold
  <2>1. svc' = svc /\ sbase' = sbase /\ spc = "hold" /\ sinst' = sinst
    BY <1>2 DEF SvcHold, SvcGoto, SvcReturn
  <2>2. "service" \in svc.fins /\ ("service" \in api.fins => "service" \in api'.fins)
    BY <1>2, <2>1, APIWrites DEF HoldInv, ServiceKnows, ServiceSame, Holds
  <2>3. spc' = "patch" \/ (spc' = "register" /\ "service" \in api'.fins)
    <3>1. CASE "service" \in sapi.fins
      BY <1>2, <2>1, <2>2, <3>1 DEF SvcHold, SvcGoto, SvcReturn, HoldInv, ServiceKnows
    <3>2. CASE "service" \notin sapi.fins /\ spc' # "patch"
      <4>1. spc' = "register" /\ api' = [api EXCEPT !.fins = sapi.fins \cup {"service"}]
        BY <1>2, <3>2 DEF SvcHold, SvcGoto, SvcReturn
      <4> QED BY <4>1 DEF API
    <3> QED BY <3>1, <3>2
  <2>4. ServiceInv'
    BY <2>1, <2>2 DEF HoldInv, ServiceInv
  <2>5. ServiceKnows'
    BY <2>1, <2>3 DEF HoldInv, ServiceKnows
  <2>6. ServiceSame'
    BY <2>1, <2>3 DEF HoldInv, ServiceSame
  <2>7. ServicePatches'
    BY <2>1, <2>3 DEF HoldInv, ServiceKnows, ServicePatches
  <2> QED BY <2>4, <2>5, <2>6, <2>7 DEF HoldInv
<1>3. CASE SvcRegister \/ SvcUser
  <2>1. UNCHANGED <<api, svc, sbase>> /\ spc \in {"register", "user"}
    BY <1>3 DEF SvcRegister, SvcUser, SvcReturn, objVars
  <2>2. sinst'.fins = sinst.fins /\ spc' \in {"patch", "user"}
    BY <1>3, ServiceInMemory DEF SvcRegister, SvcUser, SvcReturn
  <2>3. ServiceKnows'
    BY <2>1, <2>2 DEF HoldInv, ServiceKnows
  <2>4. ServicePatches'
    BY <2>1, <2>2 DEF HoldInv, ServiceKnows, ServicePatches
  <2>5. ServiceInv' /\ ServiceSame'
    BY <2>1, <2>2 DEF HoldInv, ServiceInv, ServiceSame
  <2> QED BY <2>3, <2>4, <2>5 DEF HoldInv
<1>4. CASE SvcDelUser \/ SvcDelService
  <2>1. UNCHANGED <<api, svc, sbase>> /\ spc \in {"deluser", "delservice"}
    BY <1>4 DEF SvcDelUser, SvcDelService, SvcGoto, SvcReturn, objVars
  <2>2. /\ sinst'.fins = sinst.fins /\ sinst'.id \in {sinst.id, None}
        /\ spc' = "patch" \/ (spc' \in {"delservice", "unhold"} /\ sapi' = sapi)
    <3>1. None \in ID
      BY DEF ID
    <3>2. /\ sinst' = sinst \/ sinst' = [sinst EXCEPT !.id = None]
          /\ spc' = "patch" \/ (spc' \in {"delservice", "unhold"} /\ sapi' = sapi)
      BY <1>4 DEF SvcDelUser, SvcDelService, SvcGoto, SvcReturn
    <3>3. [sinst EXCEPT !.id = None].fins = sinst.fins /\ [sinst EXCEPT !.id = None].id = None
      BY <3>1
    <3> QED BY <3>2, <3>3
  <2>3. ServiceKnows'
    BY <2>1, <2>2 DEF HoldInv, ServiceKnows
  <2>4. ServicePatches'
    BY <2>1, <2>2 DEF HoldInv, ServiceKnows, ServicePatches
  <2>5. ServiceInv' /\ ServiceSame'
    BY <2>1, <2>2 DEF HoldInv, ServiceInv, ServiceSame
  <2> QED BY <2>3, <2>4, <2>5 DEF HoldInv
<1>5. CASE SvcUnhold
  <2>1. svc' = svc /\ sbase' = sbase /\ spc = "unhold" /\ spc' = "patch"
    BY <1>5 DEF SvcUnhold, SvcReturn
  <2>2. "service" \in api'.fins => "service" \in api.fins
    BY <1>5, APIWrites DEF Unholds
  <2>3. \/ sinst' = sinst
        \/ sinst' = Released(sinst, "service") /\ "service" \notin api'.fins
    <3>1. CASE "service" \notin sapi.fins
      BY <1>5, <2>1, <3>1 DEF SvcUnhold, SvcReturn, HoldInv, ServiceKnows
    <3>2. CASE "service" \in sapi.fins /\ sinst' # sinst
      <4>1. /\ sinst' = Released(sinst, "service") /\ sapi = api
            /\ api' = Settled([api EXCEPT !.fins = sapi.fins \ {"service"}], NoAPI)
        BY <1>5, <3>2 DEF SvcUnhold, SvcReturn, Accepted
      <4> QED BY <4>1 DEF API, Settled, NoAPI
    <3> QED BY <3>1, <3>2
  <2>4. svc.id # None => svc.deleting
    BY <2>1 DEF HoldInv, ServiceKnows, ServiceSame
  <2>5. ServiceInv'
    BY <2>1, <2>2, <2>4 DEF HoldInv, ServiceInv
  <2>6. ServiceKnows'
    BY <2>1 DEF ServiceKnows
  <2>7. ServiceSame'
    BY <2>1 DEF HoldInv, ServiceSame
  <2>8. ServicePatches'
    <3>1. /\ sbase.deleting /\ sinst.id \in {sbase.id, None} /\ sinst.fins = sbase.fins
      BY <2>1 DEF HoldInv, ServiceKnows
    <3>2. sinst'.id = sinst.id
      BY <2>3
    <3>3. \/ sinst'.fins = sbase.fins
          \/ sinst'.fins = sbase.fins \ {"service"} /\ "service" \notin api'.fins
      BY <2>3, <3>1
    <3>4. "service" \notin sbase.fins => sbase.fins \ {"service"} = sbase.fins
      OBVIOUS
    <3> QED BY <2>1, <3>1, <3>2, <3>3, <3>4 DEF ServicePatches
  <2> QED BY <2>5, <2>6, <2>7, <2>8 DEF HoldInv
<1>6. CASE SvcPatch
  <2>1. spc' = "idle" /\ api' = api /\ spc = "patch"
    BY <1>6 DEF SvcPatch, SvcForget
  <2>2. ServiceInv'
    <3>1. CASE svc' = svc
      BY <2>1, <3>1 DEF HoldInv, ServiceInv
    <3>2. CASE /\ svc' = NoService /\ svc.deleting /\ ~PatchRefused(svc, sbase, sinst)
               /\ Merge(svc.fins, sbase.fins, sinst.fins) = {}
      BY <2>1, <3>2 DEF HoldInv, ServiceInv, ServiceSame, ServicePatches, Merge, NoService
    <3>3. CASE /\ svc'.deleting = svc.deleting
               /\ svc'.fins = Merge(svc.fins, sbase.fins, sinst.fins)
               /\ svc'.id = svc.id \/ svc'.id = Merge(svc.id, sbase.id, sinst.id)
      BY <2>1, <3>3 DEF HoldInv, ServiceInv, ServiceSame, ServicePatches, Merge
    <3> QED BY <1>6, <3>1, <3>2, <3>3, SvcPatchEffect
  <2> QED BY <2>1, <2>2 DEF HoldInv, ServiceKnows, ServiceSame, ServicePatches
<1> QED BY <1>1, <1>2, <1>3, <1>4, <1>5, <1>6 DEF ServiceController

----------------------------------------------------------------------------
(* The endpoint and its finalizers on the KeystoneAPI and on the service *)

\* What the endpoint controller changes of the endpoint in memory.
LEMMA EndpointFields ==
  ASSUME NEW e \in Endpoint
  PROVE  /\ Released(e, "endpoint").fins = e.fins \ {"endpoint"} /\ Released(e, "endpoint").ids = e.ids
         /\ [e EXCEPT !.init = TRUE].fins = e.fins /\ [e EXCEPT !.init = TRUE].ids = e.ids
         /\ [e EXCEPT !.init = TRUE].deleting = e.deleting
         /\ [e EXCEPT !.fins = {"endpoint"}].fins = {"endpoint"}
         /\ [e EXCEPT !.fins = {"endpoint"}].ids = e.ids
         /\ \A id : /\ [e EXCEPT !.svcID = id].fins = e.fins /\ [e EXCEPT !.svcID = id].ids = e.ids
                    /\ [e EXCEPT !.svcID = id].svcID = id
         /\ \A F : /\ [e EXCEPT !.ids = F].fins = e.fins /\ [e EXCEPT !.ids = F].ids = F
                   /\ [e EXCEPT !.ids = F].svcID = e.svcID
BY DEF Released, Endpoint

\* Nobody but the endpoint controller touches the endpoint's finalizer or what it has
\* registered; an endpoint that is being deleted stays so.
LEMMA OthersOnEndpoint ==
  ASSUME TypeOK, GoneInv, [Next]_vars, ~EpPatch
  PROVE  /\ ep'.fins = ep.fins /\ ep'.ids \in {ep.ids, {}}
         /\ ep.deleting => ep' = ep
<1> USE TypeParts
<1>1. NoEndpoint.fins = {} /\ NoEndpoint.ids = {} /\ ~NoEndpoint.deleting
  BY DEF NoEndpoint
<1>2. CASE DeleteEndpoint \/ EditEndpoint
  BY <1>1, <1>2, EpWrites
<1>3. CASE CreateEndpoint
  <2>1. ep = NoEndpoint
    BY <1>3, Creations DEF GoneInv
  <2> QED BY <1>1, <1>3, <2>1, Creations
<1>4. CASE ep' = ep
  BY <1>4
<1> QED BY <1>2, <1>3, <1>4, Writers

\* The endpoint holds the service, which keeps its own finalizer or is being deleted,
\* and the KeystoneAPI.
Attached == "endpoint" \in svc.fins /\ (svc.deleting \/ "service" \in svc.fins)
Held == "endpoint" \in api.fins /\ Attached

\* Only the endpoint controller lets them go.  In particular a patch of the service
\* that was prepared before the endpoint's finalizer came does not take it away.
LEMMA AttachedStays ==
  ASSUME TypeOK, GoneInv, HoldInv, [Next]_vars, ~EpUnsvc, Attached
  PROVE  Attached'
<1> USE TypeParts
<1>1. CASE SvcPatch
  <2>1. spc = "patch"
    BY <1>1 DEF SvcPatch
  <2>2. ~PatchRefused(svc, sbase, sinst) =>
           \/ sinst.fins = sbase.fins
           \/ "endpoint" \in sinst.fins /\ svc.deleting
    BY <2>1 DEF HoldInv, ServiceSame, ServicePatches, PatchRefused, Attached
  <2> QED BY <1>1, <2>2, SvcPatchEffect DEF Attached, Merge
<1>2. CASE EpHoldSvc \/ DeleteService
  BY <1>2, SvcWrites DEF Attached
<1>3. CASE CreateService
  BY <1>3, Creations DEF GoneInv, Attached, NoService
<1>4. CASE svc' = svc
  BY <1>4 DEF Attached
<1> QED BY <1>1, <1>2, <1>3, <1>4, Writers

\* An endpoint that is being deleted, or that has nothing to clean up.
Over(e) == e.deleting \/ (e.fins = {} /\ e.ids = {})

\* The endpoint, as it is, in the cache, as read and in memory, has one finalizer.
EndpointFins == \A e \in {ep, epView, ebase, einst} : e.fins \subseteq {"endpoint"}
\* How an old copy of the endpoint relates to the object, which may be a later one.
EndpointCopies ==
  /\ "endpoint" \in epView.fins /\ ~epView.deleting => "endpoint" \in ep.fins
  /\ epView.deleting => Over(ep)
  /\ epc # "idle" =>
       /\ "endpoint" \in ebase.fins /\ ~ebase.deleting => "endpoint" \in ep.fins
       /\ ebase.deleting => Over(epView) /\ Over(ep)
       /\ ~ebase.deleting /\ epView.deleting => ep.deleting
\* What a reconcile of the endpoint has changed in memory.
EndpointMemory ==
  /\ epc # "idle" /\ ebase.deleting => einst.ids \in {ebase.ids, {}} /\ einst.fins \in {ebase.fins, {}}
  /\ epc # "idle" /\ ~ebase.deleting => einst.fins \in {ebase.fins, {"endpoint"}}
  /\ epc \in {"service", "holdapi", "holdsvc", "prune", "register"} =>
       ~ebase.deleting /\ "endpoint" \in ebase.fins
  /\ epc \in {"del", "unsvc", "unapi"} => ebase.deleting
  /\ epc \notin {"idle", "patch"} => einst.fins = ebase.fins
\* The endpoint's finalizer goes only after that on the KeystoneAPI.
EndpointKnows ==
  /\ "endpoint" \in api.fins => "endpoint" \in ep.fins
  /\ epc \in {"service", "holdapi", "del", "unsvc", "unapi"} =>
       ("endpoint" \in eapi.fins <=> "endpoint" \in api.fins)
  /\ epc = "patch" /\ ebase.deleting /\ einst.fins # ebase.fins => "endpoint" \notin api.fins
\* Whatever copy shows that something is registered, KeystoneAPI and service are held.
EndpointHeld ==
  /\ epView.ids # {} /\ ~epView.deleting => Held
  /\ ep.ids # {} /\ ~ep.deleting => Held
  /\ epc # "idle" /\ ~ebase.deleting /\ (ebase.ids # {} \/ einst.ids # {}) => Held
  /\ epc \in {"holdapi", "holdsvc"} =>
       /\ esvc.id = einst.svcID
       /\ einst.svcID # None /\ "endpoint" \in esvc.fins => Attached
  /\ epc \in {"holdsvc", "prune", "register"} => "endpoint" \in api.fins
  /\ epc \in {"prune", "register"} /\ einst.svcID # None => Attached
EndpointInv == EndpointFins /\ EndpointCopies /\ EndpointMemory /\ EndpointKnows /\ EndpointHeld

\* Initially nothing is registered or held.
LEMMA EndpointInit == Init => EndpointInv
<1> SUFFICES ASSUME Init PROVE EndpointInv
  OBVIOUS
<1>1. PICK r \in BOOLEAN : api = [ex |-> TRUE, deleting |-> FALSE, fins |-> {"api"}, ready |-> r]
  BY DEF Init
<1>2. PICK e \in FirstEndpoints : ep = [NoEndpoint EXCEPT !.ex = TRUE, !.spec = e]
  BY DEF Init
<1>3. /\ ep.fins = {} /\ ep.ids = {} /\ ~ep.deleting /\ epView = ep /\ "endpoint" \notin api.fins
      /\ ebase.fins = {} /\ einst.fins = {} /\ epc = "idle"
  BY <1>1, <1>2 DEF Init, NoEndpoint, epView
<1> QED BY <1>3 DEF EndpointInv, EndpointFins, EndpointCopies, EndpointMemory, EndpointKnows,
                    EndpointHeld

\* A step outside the endpoint controller keeps EndpointInv.
LEMMA EndpointOutside ==
  ASSUME TypeOK, GoneInv, APIInv, HoldInv, EndpointInv, [Next]_vars, ~EndpointController
  PROVE  EndpointInv'
<1>1. ~EpPatch /\ ~EpUnsvc /\ ~EpUnapi /\ ~EpHoldApi
  BY DEF EndpointController
<1>2. \/ UNCHANGED epVars
      \/ epc' = "idle" /\ einst' = NoEndpoint /\ ebase' = NoEndpoint
  BY Frames DEF Next, Crash, EpForget
<1>3. NoEndpoint.fins = {}
  BY DEF NoEndpoint
<1>4. /\ ep'.fins = ep.fins /\ ep'.ids \in {ep.ids, {}} /\ (ep.deleting => ep'.deleting)
      /\ epView' \in {epView, ep'}
  BY <1>1, OthersOnEndpoint, Views
<1>5. Attached => Attached'
  BY <1>1, AttachedStays
<1>6. "endpoint" \in api'.fins <=> "endpoint" \in api.fins
  BY <1>1, APIFins
<1>7. EndpointFins'
  BY <1>2, <1>3, <1>4 DEF EndpointInv, EndpointFins, epVars
<1>8. EndpointCopies'
  BY <1>2, <1>4 DEF EndpointInv, EndpointCopies, Over, epVars
<1>9. EndpointMemory'
  BY <1>2 DEF EndpointInv, EndpointMemory, epVars
<1>10. EndpointKnows'
  BY <1>2, <1>4, <1>6 DEF EndpointInv, EndpointKnows, epVars
<1>11. EndpointHeld'
  BY <1>2, <1>4, <1>5, <1>6 DEF EndpointInv, EndpointHeld, Held, epVars
<1> QED BY <1>7, <1>8, <1>9, <1>10, <1>11 DEF EndpointInv

\* The steps of a reconcile of the endpoint after its first read and before its patch
\* leave the endpoint alone; in memory they keep its finalizer, but for EpUnapi.
LEMMA EndpointSteps ==
  ASSUME TypeOK, EndpointController, ~EpReconcile, ~EpPatch
  PROVE  /\ ep' = ep /\ epView' = epView /\ ebase' = ebase /\ epc \notin {"idle", "patch"}
         /\ epc' # "idle"
         /\ einst'.fins = einst.fins \/ (EpUnapi /\ einst'.fins = einst.fins \ {"endpoint"})
<1>0. einst \in Endpoint
  BY TypeParts
<1>1. /\ ep' = ep /\ epView' = epView /\ ebase' = ebase /\ epc \notin {"idle", "patch"}
      /\ epc' # "idle"
  <2>1. ep' = ep /\ seen' = seen
    BY DEF EndpointController, EpDelete, EpUnsvc, EpUnapi, EpService, EpHoldApi, EpHoldSvc,
           EpPrune, EpRegister, objVars
  <2>2. ebase' = ebase /\ epc \notin {"idle", "patch"} /\ epc' # "idle"
    BY DEF EndpointController, EpDelete, EpUnsvc, EpUnapi, EpService, EpHoldApi, EpHoldSvc,
           EpPrune, EpRegister, EpGoto, EpReturn
  <2> QED BY <2>1, <2>2 DEF epView
<1>2. CASE EpDelete \/ EpPrune \/ EpRegister
  <2>1. einst' = einst \/ \E F : einst' = [einst EXCEPT !.ids = F]
    <3>1. CASE EpDelete
      BY <3>1, Zenon DEF EpDelete, EpReturn
    <3>2. CASE EpPrune
      BY <3>2, Zenon DEF EpPrune, EpReturn
    <3>3. CASE EpRegister
      BY <3>3, Zenon DEF EpRegister, EpReturn
    <3> QED BY <1>2, <3>1, <3>2, <3>3
  <2>2. \A F : [einst EXCEPT !.ids = F].fins = einst.fins
    BY <1>0, EndpointFields
  <2>3. einst'.fins = einst.fins
    BY <2>1, <2>2, Zenon
  <2> QED BY <1>1, <2>3
<1>3. CASE EpService
  <2>1. einst' = einst \/ einst' = [einst EXCEPT !.svcID = svcView.id]
    BY <1>3 DEF EpService, EpReturn
  <2>2. [einst EXCEPT !.svcID = svcView.id].fins = einst.fins
    BY <1>0, EndpointFields
  <2> QED BY <1>1, <2>1, <2>2
<1>4. CASE EpUnsvc \/ EpHoldApi \/ EpHoldSvc
  BY <1>1, <1>4 DEF EpUnsvc, EpHoldApi, EpHoldSvc, EpGoto, EpReturn
<1>5. CASE EpUnapi
  <2>1. einst' = einst \/ einst' = Released(einst, "endpoint")
    BY <1>5 DEF EpUnapi, EpReturn
  <2>2. Released(einst, "endpoint").fins = einst.fins \ {"endpoint"}
    BY <1>0, EndpointFields
  <2> QED BY <1>1, <1>5, <2>1, <2>2
<1> QED BY <1>2, <1>3, <1>4, <1>5 DEF EndpointController

\* The first step of a reconcile of the endpoint keeps EndpointInv.
LEMMA EndpointReads ==
  ASSUME Fresh, TypeOK, EndpointInv, EpReconcile
  PROVE  EndpointInv'
<1> USE TypeParts, EndpointFields
<1>1. /\ ebase' = epView /\ ep' = ep /\ epView' = epView /\ api' = api /\ svc' = svc
      /\ apiView = api /\ esvc' = esvc
  BY DEF Fresh, apiView, EpReconcile, objVars, epView
<1>2. \/ epc' = "patch" /\ einst'.fins = epView.fins /\ einst'.ids = epView.ids
      \/ epc' = "patch" /\ einst'.fins = {"endpoint"} /\ einst'.ids = epView.ids /\ ~epView.deleting
      \/ /\ epc' \in {"unsvc", "del", "service"} /\ einst' = epView /\ eapi' = api
         /\ epc' = "service" => ~epView.deleting /\ epView.fins # {}
         /\ epc' \in {"unsvc", "del"} => epView.deleting
  <2>1. CASE /\ EpRoute(epView, apiView) /\ einst' = epView /\ (epView.deleting \/ epView.fins # {})
             /\ eapi' = IF epc' = "patch" THEN NoAPI ELSE apiView
    BY <1>1, <2>1 DEF EpRoute
  <2> QED BY ZenonT(30), <2>1 DEF EpReconcile
<1>3. epView.fins # {} => epView.fins = {"endpoint"}
  BY DEF EndpointInv, EndpointFins
<1>4. EndpointFins'
  BY <1>1, <1>2 DEF EndpointInv, EndpointFins
<1>5. EndpointCopies'
  BY <1>1 DEF EndpointInv, EndpointCopies, Over
<1>6. EndpointMemory'
  BY <1>1, <1>2, <1>3 DEF EndpointMemory
<1>7. EndpointKnows'
  BY <1>1, <1>2 DEF EndpointInv, EndpointKnows
<1>8. EndpointHeld'
  BY <1>1, <1>2 DEF EndpointInv, EndpointHeld, Held, Attached
<1> QED BY <1>4, <1>5, <1>6, <1>7, <1>8 DEF EndpointInv

\* So do the steps that take the finalizers off, last the endpoint's own.
LEMMA EndpointReleases ==
  ASSUME TypeOK, GoneInv, APIInv, HoldInv, EndpointInv, [Next]_vars,
         EpDelete \/ EpUnsvc \/ EpUnapi
  PROVE  EndpointInv'
<1> USE TypeParts, EndpointFields
<1>1. EndpointController /\ ~EpReconcile /\ ~EpPatch /\ ~EpHoldApi
  BY DEF EndpointController, EpDelete, EpUnsvc, EpUnapi, EpReconcile, EpPatch, EpHoldApi
<1>2. /\ ep' = ep /\ epView' = epView /\ ebase' = ebase
      /\ epc \in {"del", "unsvc", "unapi"} /\ epc' \in {"unsvc", "unapi", "patch"}
  <2>1. epc \in {"del", "unsvc", "unapi"} /\ epc' \in {"unsvc", "unapi", "patch"}
    BY DEF EpDelete, EpUnsvc, EpUnapi, EpGoto, EpReturn
  <2> QED BY <1>1, <2>1, EndpointSteps
<1>3. ebase.deleting /\ Over(epView) /\ Over(ep) /\ einst.fins = ebase.fins
  BY <1>2 DEF EndpointInv, EndpointMemory, EndpointCopies
<1>4. einst'.fins \in {einst.fins, {}} /\ einst'.fins \subseteq einst.fins
  <2>1. einst.fins \ {"endpoint"} = {}
    BY DEF EndpointInv, EndpointFins
  <2> QED BY <1>1, <2>1, EndpointSteps
<1>5. einst'.ids \in {einst.ids, {}}
  <2>1. einst' \in {einst, [einst EXCEPT !.ids = {}], Released(einst, "endpoint")}
    BY DEF EpDelete, EpUnsvc, EpUnapi, EpGoto, EpReturn
  <2>2. /\ Released(einst, "endpoint").ids = einst.ids
        /\ [einst EXCEPT !.ids = {}].ids = {}
    OBVIOUS
  <2> QED BY <2>1, <2>2
<1>6. EndpointFins'
  BY <1>2, <1>4 DEF EndpointInv, EndpointFins
<1>7. EndpointCopies'
  BY <1>2, <1>3 DEF EndpointInv, EndpointCopies, Over
<1>8. EndpointMemory'
  <2>1. epc' # "patch" => einst'.fins = einst.fins
    <3>1. CASE EpUnapi
      BY <3>1 DEF EpUnapi, EpReturn
    <3> QED BY <1>1, <3>1, EndpointSteps
  <2> QED BY <1>2, <1>3, <1>4, <1>5, <2>1 DEF EndpointInv, EndpointMemory
<1>9. EndpointKnows'
  <2>1. "endpoint" \in api'.fins => "endpoint" \in api.fins
    <3>1. CASE EpUnapi
      BY <3>1, APIWrites DEF Unholds
    <3> QED BY <1>1, <3>1, APIFins
  <2>2. "endpoint" \in eapi.fins <=> "endpoint" \in api.fins
    BY <1>2 DEF EndpointInv, EndpointKnows
  <2>3. epc' # "patch" => eapi' = eapi /\ ("endpoint" \in api'.fins <=> "endpoint" \in api.fins)
    <3>1. CASE EpUnapi
      BY <3>1 DEF EpUnapi, EpReturn
    <3>2. epc' # "patch" => eapi' = eapi \/ EpUnapi
      BY DEF EpDelete, EpUnsvc, EpGoto, EpReturn
    <3> QED BY <1>1, <3>1, <3>2, APIFins
  <2>4. einst'.fins # einst.fins => "endpoint" \notin api'.fins
    <3> SUFFICES ASSUME einst'.fins # einst.fins PROVE "endpoint" \notin api'.fins
      OBVIOUS
    <3>1. EpUnapi
      BY <1>1, EndpointSteps
    <3>2. \/ "endpoint" \notin eapi.fins /\ api' = api
          \/ /\ Accepted(api, eapi, eapi.fins \ {"endpoint"})
             /\ api' = Settled([api EXCEPT !.fins = eapi.fins \ {"endpoint"}], NoAPI)
      BY <3>1 DEF EpUnapi, EpReturn
    <3> QED BY <2>2, <3>2 DEF API, Settled, NoAPI
  <2> QED BY <1>2, <1>3, <2>1, <2>3, <2>4 DEF EndpointInv, EndpointKnows
<1>10. EndpointHeld'
  BY <1>2, <1>3 DEF EndpointHeld, Over
<1> QED BY <1>6, <1>7, <1>8, <1>9, <1>10 DEF EndpointInv

\* What a reconcile that registers endpoints changes in memory: the ID of the service
\* first, then what is registered; and what it remembers of the service.
LEMMA EndpointMemorySteps ==
  ASSUME TypeOK, EpService \/ EpHoldApi \/ EpHoldSvc \/ EpPrune \/ EpRegister
  PROVE  /\ epc' = "patch" /\ einst'.ids # {} =>
              einst.ids # {} \/ (EpRegister /\ einst.svcID \in services)
         /\ EpPrune /\ einst'.ids # {} => einst.ids # {}
         /\ ~EpPrune /\ epc' # "patch" => einst'.ids = einst.ids
         /\ ~EpService /\ epc' # "patch" => einst'.svcID = einst.svcID /\ esvc' = esvc
         /\ EpService /\ epc' # "patch" => einst'.svcID = svcView.id /\ esvc' = svcView
<1>0. einst \in Endpoint
  BY TypeParts
<1>1. \A F : [einst EXCEPT !.ids = F].ids = F /\ [einst EXCEPT !.ids = F].svcID = einst.svcID
  BY <1>0, EndpointFields
<1>2. CASE EpService
  <2>1. \/ epc' = "patch" /\ einst' = einst
        \/ epc' = "holdapi" /\ einst' = [einst EXCEPT !.svcID = svcView.id] /\ esvc' = svcView
    BY <1>2 DEF EpService, EpReturn
  <2>2. /\ [einst EXCEPT !.svcID = svcView.id].ids = einst.ids
        /\ [einst EXCEPT !.svcID = svcView.id].svcID = svcView.id
    BY <1>0, EndpointFields
  <2>3. ~EpPrune
    BY <1>2 DEF EpService, EpPrune
  <2> QED BY <1>2, <2>1, <2>2, <2>3
<1>3. CASE EpHoldApi \/ EpHoldSvc
  <2>1. einst' = einst /\ (epc' # "patch" => esvc' = esvc)
    BY <1>3 DEF EpHoldApi, EpHoldSvc, EpGoto, EpReturn
  <2>2. ~EpService /\ ~EpPrune
    BY <1>3 DEF EpHoldApi, EpHoldSvc, EpService, EpPrune
  <2> QED BY <2>1, <2>2
<1>4. CASE EpPrune
  <2>1. /\ \E F : einst' = [einst EXCEPT !.ids = einst.ids \ F]
        /\ epc' # "patch" => esvc' = esvc
    BY <1>4, Zenon DEF EpPrune, EpReturn
  <2>2. PICK F : einst' = [einst EXCEPT !.ids = einst.ids \ F]
    BY <2>1
  <2>3. einst'.ids = einst.ids \ F /\ einst'.svcID = einst.svcID
    BY <1>1, <2>2
  <2>4. ~EpService
    BY <1>4 DEF EpService, EpPrune
  <2> QED BY <1>4, <2>1, <2>3, <2>4
<1>5. CASE EpRegister
  <2>1. epc' = "patch" /\ (einst' = einst \/ einst.svcID \in services)
    BY <1>5 DEF EpRegister, EpReturn
  <2>2. ~EpPrune
    BY <1>5 DEF EpPrune, EpRegister
  <2> QED BY <1>5, <2>1, <2>2
<1> QED BY <1>2, <1>3, <1>4, <1>5

\* The steps that register endpoints keep EndpointInv: what they record in memory is
\* held, and by an endpoint that has its own finalizer.
LEMMA EndpointRegisters ==
  ASSUME Fresh, TypeOK, GoneInv, APIInv, HoldInv, EndpointInv, [Next]_vars,
         EpService \/ EpHoldApi \/ EpHoldSvc \/ EpPrune \/ EpRegister
  PROVE  EndpointInv'
<1> USE TypeParts
<1>0. svcView = svc
  BY DEF Fresh, svcView
<1>1. EndpointController /\ ~EpReconcile /\ ~EpPatch /\ ~EpUnapi /\ ~EpUnsvc
  BY DEF EndpointController, EpService, EpHoldApi, EpHoldSvc, EpPrune, EpRegister, EpUnapi,
         EpUnsvc, EpReconcile, EpPatch
<1>2. /\ epc \in {"service", "holdapi", "holdsvc", "prune", "register"}
      /\ epc' \in {"holdapi", "holdsvc", "prune", "register", "patch"}
  BY DEF EpService, EpHoldApi, EpHoldSvc, EpPrune, EpRegister, EpGoto, EpReturn
<1>3. ep' = ep /\ epView' = epView /\ ebase' = ebase /\ einst'.fins = einst.fins
  BY <1>1, EndpointSteps
<1>4. ~ebase.deleting /\ "endpoint" \in ep.fins /\ einst.fins = ebase.fins
  BY <1>2 DEF EndpointInv, EndpointMemory, EndpointCopies
<1>5. Attached => Attached'
  BY <1>1, AttachedStays
<1>6. "endpoint" \in api.fins => "endpoint" \in api'.fins
  <2>1. CASE EpHoldApi
    BY <2>1, APIWrites DEF Holds
  <2> QED BY <1>1, <2>1, APIFins
<1>7. EndpointFins'
  BY <1>3 DEF EndpointInv, EndpointFins
<1>8. EndpointCopies'
  BY <1>2, <1>3 DEF EndpointInv, EndpointCopies, Over
<1>9. EndpointMemory'
  BY <1>2, <1>3, <1>4 DEF EndpointInv, EndpointMemory
<1>10. EndpointKnows'
  <2>1. epc' = "holdapi" => eapi' = eapi /\ api' = api /\ epc = "service"
    BY DEF EpService, EpHoldApi, EpHoldSvc, EpPrune, EpRegister, EpGoto, EpReturn, objVars
  <2> QED BY <1>2, <1>3, <1>4, <2>1 DEF EndpointInv, EndpointKnows
<1>11. EndpointHeld'
  <2>1. /\ epView.ids # {} /\ ~epView.deleting => Held'
        /\ ep.ids # {} /\ ~ep.deleting => Held'
        /\ ebase.ids # {} \/ einst.ids # {} => Held'
    BY <1>2, <1>4, <1>5, <1>6 DEF EndpointInv, EndpointHeld, Held
  <2>2. EpRegister /\ einst.svcID \in services => Held'
    <3>1. einst.svcID \in services => einst.svcID # None
      BY ConstantsAssumption DEF TypeOK
    <3>2. EpRegister => epc = "register"
      BY DEF EpRegister
    <3> QED BY <1>5, <1>6, <3>1, <3>2 DEF EndpointInv, EndpointHeld, Held
  <2>3. ~ebase'.deleting /\ (ebase'.ids # {} \/ einst'.ids # {}) => Held'
    BY <1>3, <2>1, <2>2, EndpointMemorySteps
  <2>4. epc' \in {"holdapi", "holdsvc"} =>
          /\ esvc'.id = einst'.svcID
          /\ einst'.svcID # None /\ "endpoint" \in esvc'.fins => Attached'
    <3>1. CASE EpService
      <4>1. svc' = svc
        BY <3>1 DEF EpService, objVars
      <4> QED BY <1>0, <3>1, <4>1, EndpointMemorySteps DEF Attached, HoldInv, ServiceInv
    <3>2. CASE EpHoldApi
      <4>1. epc = "holdapi" /\ ~EpService
        BY <3>2 DEF EpHoldApi, EpService
      <4> QED BY <1>5, <3>2, <4>1, EndpointMemorySteps DEF EndpointInv, EndpointHeld
    <3>3. CASE EpHoldSvc \/ EpPrune \/ EpRegister
      BY <3>3 DEF EpHoldSvc, EpPrune, EpRegister, EpGoto, EpReturn
    <3> QED BY <3>1, <3>2, <3>3
  <2>5. epc' \in {"holdsvc", "prune", "register"} => "endpoint" \in api'.fins
    <3>1. CASE EpHoldApi
      <4>1. epc = "holdapi" /\ ("endpoint" \in eapi.fins \/ epc' = "patch" \/ api' = [api EXCEPT !.fins = eapi.fins \cup {"endpoint"}])
        BY <3>1 DEF EpHoldApi, EpGoto, EpReturn
      <4>2. "endpoint" \in eapi.fins => "endpoint" \in api'.fins
        BY <1>6, <4>1 DEF EndpointInv, EndpointKnows
      <4>3. [api EXCEPT !.fins = eapi.fins \cup {"endpoint"}].fins = eapi.fins \cup {"endpoint"}
        BY DEF API
      <4> QED BY <4>1, <4>2, <4>3
    <3>2. CASE EpHoldSvc \/ EpPrune \/ EpRegister
      BY <1>6, <3>2 DEF EpHoldSvc, EpPrune, EpRegister, EndpointInv, EndpointHeld
    <3>3. CASE EpService
      BY <3>3 DEF EpService, EpReturn
    <3> QED BY <3>1, <3>2, <3>3
  <2>6. epc' \in {"prune", "register"} /\ einst'.svcID # None => Attached'
    <3>1. CASE EpHoldSvc
      <4>1. epc = "holdsvc" /\ ~EpService
        BY <3>1 DEF EpHoldSvc, EpService
      <4>2. \/ epc' = "patch" \/ "endpoint" \in esvc.fins
            \/ /\ Accepted(svc, esvc, esvc.fins \cup {"endpoint"})
               /\ svc' = [svc EXCEPT !.fins = esvc.fins \cup {"endpoint"}]
        BY <3>1 DEF EpHoldSvc, EpGoto, EpReturn
      <4>3. CASE /\ Accepted(svc, esvc, esvc.fins \cup {"endpoint"})
                 /\ svc' = [svc EXCEPT !.fins = esvc.fins \cup {"endpoint"}]
        <5>1. svc = esvc
          BY <4>3 DEF Accepted
        <5>2. svc'.fins = svc.fins \cup {"endpoint"} /\ svc'.deleting = svc.deleting
          BY <4>3, <5>1 DEF Service
        <5>3. svc.id = einst.svcID
          BY <4>1, <5>1 DEF EndpointInv, EndpointHeld
        <5>4. svc.id # None => svc.deleting \/ "service" \in svc.fins
          BY DEF HoldInv, ServiceInv
        <5> QED BY <3>1, <4>1, <5>2, <5>3, <5>4, EndpointMemorySteps DEF Attached
      <4>4. CASE "endpoint" \in esvc.fins
        BY <1>5, <3>1, <4>1, <4>4, EndpointMemorySteps DEF EndpointInv, EndpointHeld
      <4> QED BY <4>2, <4>3, <4>4
    <3>2. CASE EpPrune
      <4>1. epc = "prune" /\ ~EpService
        BY <3>2 DEF EpPrune, EpService
      <4> QED BY <1>5, <3>2, <4>1, EndpointMemorySteps DEF EndpointInv, EndpointHeld
    <3>3. CASE EpRegister \/ EpService \/ EpHoldApi
      BY <3>3 DEF EpRegister, EpService, EpHoldApi, EpGoto, EpReturn
    <3> QED BY <3>1, <3>2, <3>3
  <2> QED BY <1>3, <2>1, <2>3, <2>4, <2>5, <2>6 DEF EndpointHeld
<1> QED BY <1>7, <1>8, <1>9, <1>10, <1>11 DEF EndpointInv

\* What the patch of the endpoint writes: it takes the finalizer off an endpoint that is
\* over, whose finalizer on the KeystoneAPI is gone, and adds registered endpoints only
\* to a status whose endpoint holds KeystoneAPI and service.
LEMMA EpPatchWrites ==
  ASSUME TypeOK, EndpointInv, EpPatch
  PROVE  /\ ep'.fins \subseteq {"endpoint"}
         /\ ep.deleting => ep'.deleting \/ ep' = NoEndpoint
         /\ "endpoint" \in ep.fins =>
              "endpoint" \in ep'.fins \/ (ebase.deleting /\ einst.fins # ebase.fins)
         /\ Over(ep) /\ (ebase.deleting \/ ep.deleting) => Over(ep') \/ ep' = NoEndpoint
         /\ ep'.ids # {} /\ ~ep'.deleting => Held
<1> USE TypeParts
<1>1. NoEndpoint.fins = {} /\ NoEndpoint.ids = {} /\ ~NoEndpoint.deleting
  BY DEF NoEndpoint
<1>2. epc = "patch"
  BY DEF EpPatch
<1>3. /\ ep.fins \subseteq {"endpoint"} /\ einst.fins \subseteq {"endpoint"}
      /\ ebase.deleting => einst.ids \in {ebase.ids, {}} /\ einst.fins \in {ebase.fins, {}}
      /\ ~ebase.deleting => einst.fins \in {ebase.fins, {"endpoint"}}
      /\ ~ebase.deleting /\ (ebase.ids # {} \/ einst.ids # {}) => Held
      /\ ep.ids # {} /\ ~ep.deleting => Held
  BY <1>2 DEF EndpointInv, EndpointFins, EndpointMemory, EndpointHeld
<1>4. CASE ep' = ep
  <2>1. Over(ep) => Over(ep')
    BY <1>4
  <2> QED BY <1>3, <1>4, <2>1
<1>5. CASE /\ ep' = NoEndpoint /\ ep.deleting /\ Merge(ep.fins, ebase.fins, einst.fins) = {}
  BY <1>1, <1>3, <1>5 DEF Merge
<1>6. CASE /\ ep'.deleting = ep.deleting
           /\ ep'.fins = Merge(ep.fins, ebase.fins, einst.fins)
           /\ ep'.ids = Merge(ep.ids, ebase.ids, einst.ids) \/ ep'.ids = ep.ids
  <2>1. ep'.ids \in {ep.ids, einst.ids} /\ (ep'.ids # ep.ids => einst.ids # ebase.ids)
    BY <1>6 DEF Merge
  <2>2. ep'.fins \in {ep.fins, einst.fins} /\ (ep'.fins # ep.fins => einst.fins # ebase.fins)
    BY <1>6 DEF Merge
  <2>3. Over(ep) /\ (ebase.deleting \/ ep.deleting) => Over(ep')
    BY <1>3, <1>6, <2>1, <2>2 DEF Over
  <2>4. ep'.fins \subseteq {"endpoint"}
    BY <1>3, <2>2
  <2>5. "endpoint" \in ep.fins =>
          "endpoint" \in ep'.fins \/ (ebase.deleting /\ einst.fins # ebase.fins)
    BY <1>3, <2>2
  <2>6. ep'.ids # {} /\ ~ep'.deleting => Held
    BY <1>3, <1>6, <2>1
  <2> QED BY <1>6, <2>3, <2>4, <2>5, <2>6
<1> QED BY <1>4, <1>5, <1>6, EpPatchEffect

\* The patch keeps EndpointInv.
LEMMA EndpointPatches ==
  ASSUME TypeOK, GoneInv, APIInv, HoldInv, EndpointInv, [Next]_vars, EpPatch
  PROVE  EndpointInv'
<1>1. /\ epc' = "idle" /\ einst' = NoEndpoint /\ ebase' = NoEndpoint /\ epc = "patch"
      /\ api' = api /\ svc' = svc /\ epView' \in {epView, ep'}
  BY Views DEF EpPatch, EpForget
<1>2. NoEndpoint.fins = {} /\ NoEndpoint.ids = {}
  BY DEF NoEndpoint
<1>3. Over(NoEndpoint)
  BY <1>2 DEF Over
<1>4. EndpointFins'
  BY <1>1, <1>2, EpPatchWrites DEF EndpointInv, EndpointFins
<1>5. EndpointCopies'
  <2>1. "endpoint" \in epView'.fins /\ ~epView'.deleting => "endpoint" \in ep'.fins
    BY <1>1, EpPatchWrites DEF EndpointInv, EndpointCopies, Over
  <2>2. epView'.deleting => Over(ep')
    <3>1. CASE epView' = ep'
      BY <3>1 DEF Over
    <3>2. CASE epView' = epView /\ epView.deleting
      BY <1>1, <1>3, <3>2, EpPatchWrites DEF EndpointInv, EndpointCopies
    <3> QED BY <1>1, <3>1, <3>2
  <2> QED BY <1>1, <2>1, <2>2 DEF EndpointCopies, Over
<1>6. EndpointMemory'
  BY <1>1 DEF EndpointMemory
<1>7. EndpointKnows'
  BY <1>1, EpPatchWrites DEF EndpointInv, EndpointKnows
<1>8. EndpointHeld'
  BY <1>1, EpPatchWrites DEF EndpointInv, EndpointHeld, Held, Attached
<1> QED BY <1>4, <1>5, <1>6, <1>7, <1>8 DEF EndpointInv

\* What is known of the service and of the endpoint, if the caches of the KeystoneAPI
\* and of the service do not lag; that of the endpoint may.
KeystoneInv == TypeOK /\ GoneInv /\ APIInv /\ HoldInv /\ EndpointInv

\* Every step keeps it.
LEMMA KeystoneStep == Fresh /\ KeystoneInv /\ [Next]_vars => KeystoneInv'
<1> SUFFICES ASSUME Fresh, KeystoneInv, [Next]_vars PROVE KeystoneInv'
  OBVIOUS
<1> USE DEF KeystoneInv
<1>1. TypeOK' /\ GoneInv' /\ APIInv'
  BY TypeStep, GoneStep, APIStep
<1>2. HoldInv'
  BY HoldInside, HoldOutside
<1>3. EndpointInv'
  <2>1. CASE ~EndpointController
    BY <2>1, EndpointOutside
  <2>2. CASE EpReconcile
    BY <2>2, EndpointReads
  <2>3. CASE EpDelete \/ EpUnsvc \/ EpUnapi
    BY <2>3, EndpointReleases
  <2>4. CASE EpService \/ EpHoldApi \/ EpHoldSvc \/ EpPrune \/ EpRegister
    BY <2>4, EndpointRegisters
  <2>5. CASE EpPatch
    BY <2>5, EndpointPatches
  <2> QED BY <2>1, <2>2, <2>3, <2>4, <2>5 DEF EndpointController
<1> QED BY <1>1, <1>2, <1>3

\* A service or an endpoint that records what it has registered holds the KeystoneAPI,
\* and the endpoint its service, whatever calls fail or are lost, however the
\* controllers' patches are interleaved, cut short or applied to a later object.
THEOREM KeystoneStaysHeld == Fresh /\ Spec => []KeystoneHeld
<1> DEFINE Inv == Fresh /\ KeystoneInv
<1>1. Fresh /\ Init => Inv
  BY TypeInit, APIInit, HoldInit, EndpointInit DEF KeystoneInv
<1>2. Inv /\ [Next]_vars => Inv'
  BY KeystoneStep DEF Fresh
<1>3. Inv => KeystoneHeld
  BY DEF KeystoneInv, HoldInv, ServiceInv, EndpointInv, EndpointHeld, Held, Attached, KeystoneHeld
<1> QED BY <1>1, <1>2, <1>3, PTL DEF Spec

----------------------------------------------------------------------------
(* Nothing is held for an object that is gone *)

\* What the service controller changes of the conditions in memory.
LEMMA ConditionFields ==
  ASSUME NEW s \in Service
  PROVE  /\ ~IsReady(NoClient(s))
         /\ Released(s, "service").conds = s.conds /\ [s EXCEPT !.init = TRUE].conds = s.conds
         /\ [s EXCEPT !.fins = @ \cup {"service"}].conds = s.conds
         /\ [s EXCEPT !.id = None].conds = s.conds
<1>1. NoClient(s).conds = s.conds \ {"api"}
  BY DEF NoClient, Service
<1>2. /\ Released(s, "service").conds = s.conds /\ [s EXCEPT !.init = TRUE].conds = s.conds
      /\ [s EXCEPT !.fins = @ \cup {"service"}].conds = s.conds
      /\ [s EXCEPT !.id = None].conds = s.conds
  BY DEF Released, Service
<1> QED BY <1>1, <1>2 DEF IsReady, Conditions

\* The service is held, and ready, only with its own finalizer on it, or when it is
\* being deleted; without that finalizer it has an ID left in its status only if the
\* KeystoneAPI is going too.
ServiceTidy ==
  /\ "endpoint" \in svc.fins /\ ~svc.deleting => "service" \in svc.fins
  /\ IsReady(svc) /\ ~svc.deleting => "service" \in svc.fins
  /\ svc.deleting /\ "service" \notin svc.fins /\ svc.id # None => (api.ex => api.deleting)
\* So it is with what a reconcile of the service is about to write.
ServicePlans ==
  /\ spc # "idle" /\ "service" \notin sbase.fins /\ IsReady(sinst) => IsReady(sbase)
  /\ spc = "unhold" \/ (spc = "patch" /\ "service" \in sbase.fins \ sinst.fins) =>
       sinst.id = None \/ (api.ex => api.deleting)
  /\ spc # "idle" /\ ~sbase.deleting /\ "service" \notin sbase.fins => "endpoint" \notin sbase.fins
\* The endpoint holds a ready service, and lets it go before its own finalizer goes.
EndpointTidy ==
  /\ epc \in {"holdapi", "holdsvc"} => IsReady(esvc)
  /\ "endpoint" \in svc.fins => "endpoint" \in ep.fins
  /\ epc = "unapi" \/ (epc = "patch" /\ ebase.deleting /\ einst.fins # ebase.fins) =>
       "endpoint" \notin svc.fins
TidyInv == ServiceTidy /\ ServicePlans /\ EndpointTidy

\* Initially no finalizer is there.
LEMMA TidyInit == Init => TidyInv
<1> SUFFICES ASSUME Init PROVE TidyInv
  OBVIOUS
<1>1. svc.fins = {} /\ svc.conds = {} /\ ~svc.deleting /\ spc = "idle" /\ epc = "idle"
  BY DEF Init, NoService
<1> QED BY <1>1 DEF TidyInv, ServiceTidy, ServicePlans, EndpointTidy, IsReady, Conditions

\* Only EpHoldSvc puts the endpoint's finalizer on the service: no patch of the service,
\* of however old a copy, brings it back.
LEMMA NoNewHold ==
  ASSUME TypeOK, GoneInv, HoldInv, TidyInv, [Next]_vars, ~EpHoldSvc, "endpoint" \in svc'.fins
  PROVE  "endpoint" \in svc.fins
<1> USE TypeParts
<1>1. NoService.fins = {}
  BY DEF NoService
<1>2. CASE SvcPatch
  <2>1. spc = "patch"
    BY <1>2 DEF SvcPatch
  <2>2. ~PatchRefused(svc, sbase, sinst) /\ sinst.fins # sbase.fins =>
          "endpoint" \notin sinst.fins \/ sinst.fins \subseteq svc.fins
    BY <2>1 DEF HoldInv, ServiceSame, ServicePatches, TidyInv, ServicePlans, PatchRefused
  <2> QED BY <1>1, <1>2, <2>2, SvcPatchEffect DEF Merge
<1>3. CASE EpUnsvc \/ DeleteService
  BY <1>1, <1>3, SvcWrites
<1>4. CASE CreateService
  BY <1>4, Creations
<1> QED BY <1>2, <1>3, <1>4, Writers

\* A step outside the service controller keeps what is said of the service.
LEMMA ServiceTidyOutside ==
  ASSUME TypeOK, GoneInv, APIInv, HoldInv, TidyInv, [Next]_vars, ~ServiceController
  PROVE  ServiceTidy' /\ ServicePlans'
<1>1. ~SvcPatch
  BY DEF ServiceController
<1>2. UNCHANGED svcVars \/ spc' = "idle"
  BY Frames DEF Next, Crash, SvcForget
<1>3. (api.ex => api.deleting) => (api'.ex => api'.deleting)
  BY DeletionSticks
<1>4. "endpoint" \in svc'.fins /\ ~svc'.deleting => "service" \in svc'.fins
  <2>1. CASE EpHoldSvc
    <3>1. epc = "holdsvc"
      BY <2>1 DEF EpHoldSvc
    <3>2. IsReady(esvc)
      BY <3>1 DEF TidyInv, EndpointTidy
    <3>3. svc' = svc \/ svc' = NoService \/ (svc = esvc /\ svc'.deleting = svc.deleting)
      <4>1. ~EpUnsvc /\ ~DeleteService
        BY <2>1 DEF EpHoldSvc, EpUnsvc, DeleteService, EpGoto, EpReturn, epVars
      <4> QED BY <2>1, <4>1, SvcWrites
    <3>4. NoService.fins = {}
      BY DEF NoService
    <3> QED BY <1>1, <3>2, <3>3, <3>4, OthersOnService DEF TidyInv, ServiceTidy
  <2>2. CASE ~EpHoldSvc
    BY <1>1, <2>2, NoNewHold, OthersOnService DEF TidyInv, ServiceTidy
  <2> QED BY <2>1, <2>2
<1>5. IsReady(svc') /\ ~svc'.deleting => "service" \in svc'.fins
  BY <1>1, OthersOnService DEF TidyInv, ServiceTidy
<1>6. svc'.deleting /\ "service" \notin svc'.fins /\ svc'.id # None => (api'.ex => api'.deleting)
  BY <1>1, <1>3, OthersOnService DEF TidyInv, ServiceTidy, HoldInv, ServiceInv
<1>7. ServicePlans'
  BY <1>2, <1>3 DEF TidyInv, ServicePlans, svcVars, IsReady
<1> QED BY <1>4, <1>5, <1>6, <1>7 DEF ServiceTidy, IsReady

\* Inside it, the steps between the first read and the patch keep it.
LEMMA ServiceTidySteps ==
  ASSUME TypeOK, GoneInv, APIInv, HoldInv, TidyInv, [Next]_vars, ServiceController,
         ~SvcReconcile, ~SvcPatch
  PROVE  ServiceTidy' /\ ServicePlans'
<1>0. sinst \in Service /\ sbase \in Service /\ sapi \in API
  BY TypeParts
<1>1. svc' = svc /\ sbase' = sbase /\ spc \notin {"idle", "patch"}
  <2>1. svc' = svc
    BY DEF ServiceController, SvcHold, SvcRegister, SvcUser, SvcDelUser, SvcDelService, SvcUnhold, objVars
  <2>2. sbase' = sbase /\ spc \notin {"idle", "patch"}
    BY DEF ServiceController, SvcHold, SvcRegister, SvcUser, SvcDelUser, SvcDelService, SvcUnhold,
           SvcGoto, SvcReturn
  <2> QED BY <2>1, <2>2
<1>2. (api.ex => api.deleting) => (api'.ex => api'.deleting)
  BY DeletionSticks
<1>3. sinst.fins = sbase.fins
  BY <1>1 DEF HoldInv, ServiceKnows
<1>4. ServiceTidy'
  BY <1>1, <1>2 DEF TidyInv, ServiceTidy, IsReady
<1>5. "service" \notin sbase.fins /\ IsReady(sinst') => IsReady(sbase)
  <2>1. CASE SvcHold \/ SvcRegister \/ SvcUser
    BY <2>1 DEF SvcHold, SvcRegister, SvcUser, HoldInv, ServiceKnows
  <2>2. CASE SvcDelUser \/ SvcDelService \/ SvcUnhold
    <3>1. sinst' \in {sinst, [sinst EXCEPT !.id = None], Released(sinst, "service")}
      BY <2>2 DEF SvcDelUser, SvcDelService, SvcUnhold, SvcGoto, SvcReturn
    <3>2. sinst'.conds = sinst.conds
      BY <1>0, <3>1, ConditionFields
    <3> QED BY <1>1, <3>2 DEF TidyInv, ServicePlans, IsReady
  <2> QED BY <2>1, <2>2 DEF ServiceController
<1>6. spc' = "unhold" \/ (spc' = "patch" /\ "service" \in sbase.fins \ sinst'.fins) =>
        sinst'.id = None \/ (api'.ex => api'.deleting)
  <2>1. CASE SvcHold \/ SvcDelUser
    BY <1>3, <2>1 DEF SvcHold, SvcDelUser, SvcGoto, SvcReturn
  <2>2. CASE SvcRegister \/ SvcUser
    <3>1. spc' # "unhold"
      BY <2>2 DEF SvcRegister, SvcUser, SvcReturn
    <3>2. sinst'.fins = sinst.fins
      BY <2>2, ServiceInMemory
    <3> QED BY <1>3, <3>1, <3>2
  <2>3. CASE SvcDelService
    <3>1. sinst' = [sinst EXCEPT !.id = None] \/ (spc' = "patch" /\ sinst' = sinst)
      BY <2>3 DEF SvcDelService, SvcReturn
    <3>2. [sinst EXCEPT !.id = None].id = None
      BY <1>0 DEF Service
    <3> QED BY <1>3, <3>1, <3>2
  <2>4. CASE SvcUnhold
    <3>1. spc = "unhold" /\ sinst' \in {sinst, Released(sinst, "service")}
      BY <2>4 DEF SvcUnhold, SvcReturn
    <3>2. sinst'.id = sinst.id
      BY <1>0, <3>1, ServiceFields
    <3> QED BY <1>2, <3>1, <3>2 DEF TidyInv, ServicePlans
  <2> QED BY <2>1, <2>2, <2>3, <2>4 DEF ServiceController
<1>7. ServicePlans'
  BY <1>1, <1>5, <1>6 DEF TidyInv, ServicePlans, IsReady
<1> QED BY <1>4, <1>7

\* The first step of a reconcile of the service keeps it: an ID is given up, or the
\* finalizer taken off a service that has one, only when the KeystoneAPI is going.
LEMMA ServiceTidyReads ==
  ASSUME Fresh, TypeOK, GoneInv, TidyInv, SvcReconcile
  PROVE  ServiceTidy' /\ ServicePlans'
<1> USE TypeParts
<1>0. svcView = svc /\ apiView = api
  BY DEF Fresh, svcView, apiView
<1>1. svc' = svc /\ api' = api /\ sbase' = svc
  BY <1>0 DEF SvcReconcile, objVars
<1>2. ServiceTidy'
  BY <1>1 DEF TidyInv, ServiceTidy, IsReady
<1>3. \/ /\ spc' = "patch" /\ sinst' \in {[svc EXCEPT !.init = TRUE], [svc EXCEPT !.fins = @ \cup {"service"}]}
      \/ /\ spc' = "patch" /\ sinst' = NoClient(svc)
      \/ /\ spc' = "patch" /\ sinst' = Released(svc, "service") /\ ~api.ex
      \/ /\ spc' = "unhold" /\ sinst' = svc /\ (api.deleting \/ svc.id = None)
      \/ /\ spc' \in {"deluser", "hold"} /\ ("service" \in svc.fins \/ svc.deleting)
         /\ svc.deleting => ~api.deleting /\ api.ex /\ svc.id # None
  <2>1. CASE SvcRoute(svc, api) /\ (svc.deleting \/ "service" \in svc.fins)
    BY <2>1 DEF SvcRoute
  <2> QED BY <1>0, <2>1 DEF SvcReconcile
<1>4. /\ ~IsReady(NoClient(svc)) /\ Released(svc, "service").conds = svc.conds
      /\ [svc EXCEPT !.init = TRUE].conds = svc.conds
      /\ [svc EXCEPT !.fins = @ \cup {"service"}].conds = svc.conds
  BY ConditionFields
<1>5. "service" \notin svc.fins /\ IsReady(sinst') => IsReady(svc)
  BY <1>3, <1>4 DEF IsReady, TidyInv, ServiceTidy
<1>6. spc' = "unhold" \/ (spc' = "patch" /\ "service" \in svc.fins \ sinst'.fins) =>
        sinst'.id = None \/ (api.ex => api.deleting)
  <2>1. /\ NoClient(svc).fins = svc.fins /\ [svc EXCEPT !.init = TRUE].fins = svc.fins
        /\ [svc EXCEPT !.fins = @ \cup {"service"}].fins = svc.fins \cup {"service"}
    BY ServiceFields
  <2> QED BY <1>3, <2>1
<1>7. ~svc.deleting /\ "service" \notin svc.fins => "endpoint" \notin svc.fins
  BY DEF TidyInv, ServiceTidy
<1>8. ServicePlans'
  BY <1>1, <1>5, <1>6, <1>7 DEF ServicePlans, IsReady
<1> QED BY <1>2, <1>8

\* The patch of the service keeps it, if it is not cut short between metadata and status.
LEMMA ServiceTidyPatches ==
  ASSUME "patch" \notin Faults, TypeOK, GoneInv, HoldInv, TidyInv, SvcPatch
  PROVE  ServiceTidy' /\ ServicePlans'
<1> USE TypeParts
<1>1. spc = "patch" /\ spc' = "idle" /\ api' = api
  BY DEF SvcPatch, SvcForget
<1>2. NoService.fins = {} /\ NoService.conds = {} /\ NoService.id = None
  BY DEF NoService
<1>3. CASE svc' = svc
  BY <1>1, <1>3 DEF TidyInv, ServiceTidy, ServicePlans, IsReady
<1>4. CASE svc' = NoService
  BY <1>1, <1>2, <1>4 DEF ServiceTidy, ServicePlans, IsReady, Conditions
<1>5. CASE /\ svc'.deleting = svc.deleting
           /\ svc'.fins = Merge(svc.fins, sbase.fins, sinst.fins)
           /\ svc'.id = Merge(svc.id, sbase.id, sinst.id)
           /\ svc'.conds = Merge(svc.conds, sbase.conds, sinst.conds)
  <2>1. /\ "service" \in sbase.fins => "service" \in svc.fins /\ svc.id = sbase.id
        /\ "service" \notin sbase.fins => "service" \notin svc.fins
        /\ "service" \in sbase.fins /\ sbase.deleting => svc.deleting
        /\ sinst.id # sbase.id /\ sinst.id # None => "service" \in sbase.fins /\ sinst.fins = sbase.fins
        /\ sinst.fins # sbase.fins =>
             \/ sinst.fins = sbase.fins \cup {"service"} /\ "service" \notin sbase.fins
             \/ sinst.fins = sbase.fins \ {"service"} /\ "service" \in sbase.fins /\ sbase.deleting
    BY <1>1 DEF HoldInv, ServiceSame, ServicePatches
  <2>2. "service" \in svc.fins => "service" \in svc'.fins \/ svc.deleting
    BY <1>5, <2>1 DEF Merge
  <2>3. "endpoint" \in svc'.fins => "endpoint" \in svc.fins \/ "service" \in svc'.fins \/ svc.deleting
    BY <1>5, <2>1 DEF Merge
  <2>4. IsReady(svc') => IsReady(svc) \/ "service" \in svc.fins
    <3>1. svc'.conds = svc.conds \/ (svc'.conds = sinst.conds /\ sinst.conds # sbase.conds)
      BY <1>5 DEF Merge
    <3> QED BY <1>1, <2>1, <3>1 DEF TidyInv, ServicePlans, IsReady
  <2>5. svc.deleting /\ "service" \notin svc'.fins /\ svc'.id # None => (api.ex => api.deleting)
    <3> SUFFICES ASSUME svc.deleting, "service" \notin svc'.fins, svc'.id # None
                 PROVE  api.ex => api.deleting
      OBVIOUS
    <3>1. CASE "service" \in svc.fins
      <4>1. "service" \in sbase.fins \ sinst.fins
        BY <1>5, <2>1, <3>1 DEF Merge
      <4>2. sinst.id # None
        BY <1>5, <2>1, <4>1 DEF Merge
      <4> QED BY <1>1, <4>1, <4>2 DEF TidyInv, ServicePlans
    <3>2. CASE "service" \notin svc.fins
      <4>1. svc.id # None
        BY <1>5, <2>1, <3>2 DEF Merge
      <4> QED BY <3>2, <4>1 DEF TidyInv, ServiceTidy
    <3> QED BY <3>1, <3>2
  <2> QED BY <1>1, <1>5, <2>2, <2>3, <2>4, <2>5 DEF TidyInv, ServiceTidy, ServicePlans, IsReady
<1> QED BY <1>3, <1>4, <1>5, SvcPatchEffect DEF MayFail

\* Every step keeps what is said of the endpoint and of its finalizer on the service.
LEMMA EndpointTidyStep ==
  ASSUME Fresh, KeystoneInv, TidyInv, [Next]_vars
  PROVE  EndpointTidy'
<1> USE DEF KeystoneInv
<1>0. svcView = svc
  BY DEF Fresh, svcView
<1>1. epc' \in {"holdapi", "holdsvc"} => IsReady(esvc')
  <2>1. CASE EpService
    BY <1>0, <2>1 DEF EpService, EpReturn
  <2>2. CASE EpHoldApi
    BY <2>2 DEF EpHoldApi, EpGoto, EpReturn, TidyInv, EndpointTidy
  <2>3. CASE EndpointController /\ ~EpService /\ ~EpHoldApi
    <3>1. epc' \notin {"holdapi", "holdsvc"}
      BY <2>3 DEF EndpointController, EpReconcile, EpRoute, EpDelete, EpUnsvc, EpUnapi, EpHoldSvc,
                  EpPrune, EpRegister, EpPatch, EpGoto, EpReturn, EpForget
    <3> QED BY <3>1
  <2>4. CASE ~EndpointController
    <3>1. UNCHANGED epVars \/ epc' = "idle"
      BY <2>4, Frames DEF Next, Crash, EpForget
    <3> QED BY <3>1 DEF epVars, TidyInv, EndpointTidy, IsReady
  <2> QED BY <2>1, <2>2, <2>3, <2>4
<1>2. "endpoint" \in svc'.fins => "endpoint" \in ep'.fins
  <2>1. CASE EpHoldSvc
    <3>1. epc = "holdsvc" /\ ep' = ep
      BY <2>1 DEF EpHoldSvc
    <3> QED BY <3>1 DEF EndpointInv, EndpointMemory, EndpointCopies
  <2>2. CASE EpPatch
    <3>1. epc = "patch" /\ svc' = svc
      BY <2>2 DEF EpPatch
    <3> QED BY <2>2, <3>1, EpPatchWrites DEF TidyInv, EndpointTidy
  <2>3. CASE ~EpHoldSvc /\ ~EpPatch
    BY <2>3, NoNewHold, OthersOnEndpoint DEF TidyInv, EndpointTidy
  <2> QED BY <2>1, <2>2, <2>3
<1>3. epc' = "unapi" \/ (epc' = "patch" /\ ebase'.deleting /\ einst'.fins # ebase'.fins) =>
        "endpoint" \notin svc'.fins
  <2>1. CASE EpUnsvc
    <3>1. \/ svc' = svc /\ (~svc.ex \/ "endpoint" \notin svc.fins)
          \/ svc' = Settled([svc EXCEPT !.fins = svc.fins \ {"endpoint"}], NoService)
          \/ epc' = "patch" /\ einst' = einst /\ ebase' = ebase
      BY <1>0, <2>1 DEF EpUnsvc, EpGoto, EpReturn
    <3>2. NoService.fins = {}
      BY DEF NoService
    <3>3. [svc EXCEPT !.fins = svc.fins \ {"endpoint"}].fins = svc.fins \ {"endpoint"}
      BY TypeParts DEF Service
    <3>4. einst.fins = ebase.fins
      <4>1. epc = "unsvc"
        BY <2>1 DEF EpUnsvc
      <4> QED BY <4>1 DEF EndpointInv, EndpointMemory
    <3> QED BY <2>1, <3>1, <3>2, <3>3, <3>4 DEF Settled, GoneInv, EpUnsvc, EpGoto, EpReturn
  <2>2. CASE EpReconcile
    <3>1. epc' # "unapi" /\ (epc' = "patch" /\ ebase'.deleting => einst'.fins = ebase'.fins)
      <4>1. epView \in Endpoint
        BY TypeParts
      <4>2. [epView EXCEPT !.init = TRUE].fins = epView.fins
        BY <4>1, EndpointFields
      <4> QED BY <2>2, <4>2 DEF EpReconcile, EpRoute
    <3> QED BY <3>1
  <2>3. CASE EndpointController /\ ~EpUnsvc /\ ~EpReconcile
    <3>1. epc' # "unapi"
      BY <2>3 DEF EndpointController, EpDelete, EpUnapi, EpService, EpHoldApi, EpHoldSvc, EpPrune,
                  EpRegister, EpPatch, EpGoto, EpReturn, EpForget
    <3>2. CASE EpUnapi
      <4>1. epc = "unapi" /\ svc' = svc
        BY <3>2 DEF EpUnapi
      <4> QED BY <4>1 DEF TidyInv, EndpointTidy
    <3>3. CASE EpPatch
      BY <3>3 DEF EpPatch, EpForget
    <3>4. CASE ~EpUnapi /\ ~EpPatch
      <4>1. ebase' = ebase /\ einst'.fins = einst.fins /\ epc \notin {"idle", "patch"}
        BY <2>3, <3>4, EndpointSteps
      <4> QED BY <3>1, <4>1 DEF EndpointInv, EndpointMemory
    <3> QED BY <3>2, <3>3, <3>4
  <2>4. CASE ~EndpointController
    <3>1. UNCHANGED epVars \/ epc' = "idle"
      BY <2>4, Frames DEF Next, Crash, EpForget
    <3>2. ~EpHoldSvc
      BY <2>4 DEF EndpointController
    <3> QED BY <3>1, <3>2, NoNewHold DEF epVars, TidyInv, EndpointTidy
  <2> QED BY <2>1, <2>2, <2>3, <2>4
<1> QED BY <1>1, <1>2, <1>3 DEF EndpointTidy, IsReady

\* No finalizer of a service or an endpoint that is gone is left on the objects it held,
\* where nobody would take it off: whatever calls fail or are lost, and when the operator
\* restarts, provided that a deferred patch is not cut short between metadata and status.
THEOREM NothingDangles ==
  Fresh /\ "patch" \notin Faults /\ Spec => []NoDanglingFinalizer
<1> DEFINE Inv == Fresh /\ "patch" \notin Faults /\ KeystoneInv /\ TidyInv
<1>1. Fresh /\ "patch" \notin Faults /\ Init => Inv
  BY TypeInit, APIInit, HoldInit, EndpointInit, TidyInit DEF KeystoneInv
<1>2. Inv /\ [Next]_vars => Inv'
  <2> SUFFICES ASSUME Inv, [Next]_vars PROVE Inv'
    OBVIOUS
  <2>1. Fresh' /\ KeystoneInv'
    BY KeystoneStep DEF Fresh
  <2>2. ServiceTidy' /\ ServicePlans'
    <3>1. TypeOK /\ GoneInv /\ APIInv /\ HoldInv
      BY DEF KeystoneInv
    <3> QED BY <3>1, ServiceTidyOutside, ServiceTidySteps, ServiceTidyReads, ServiceTidyPatches
  <2>3. EndpointTidy'
    BY EndpointTidyStep
  <2> QED BY <2>1, <2>2, <2>3 DEF TidyInv
<1>3. Inv => NoDanglingFinalizer
  <2> SUFFICES ASSUME Inv PROVE NoDanglingFinalizer
    OBVIOUS
  <2>1. NoService.fins = {} /\ NoEndpoint.fins = {}
    BY DEF NoService, NoEndpoint
  <2> QED BY <2>1 DEF KeystoneInv, GoneInv, HoldInv, ServiceInv, EndpointInv, EndpointKnows,
                      TidyInv, EndpointTidy, NoDanglingFinalizer
<1> QED BY <1>1, <1>2, <1>3, PTL DEF Spec
=============================================================================
