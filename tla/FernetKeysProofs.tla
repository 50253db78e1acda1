-------------------------- MODULE FernetKeysProofs --------------------------
(***************************************************************************)
(* Proofs about FernetKeys, for every number of pods and of keys, and      *)
(* every interleaving of ensureFernetKeys with caches, users, time, the    *)
(* rollout and kubelet.                                                    *)
(***************************************************************************)
EXTENDS FernetKeys, FiniteSetTheorems, SequenceTheorems, TLAPS

----------------------------------------------------------------------------
(* Type correctness *)

Loops == {"rotate", "trim", "shift", "grow", "insert", "save"}

\* A Secret, as it is in the API server, the cache or memory.
Secrets == [keys: Data, rotatedat: Nat \cup {BadStamp}]

\* Why no loop of ensureFernetKeys leaves its bounds: the staged key is never
\* missing, and a growth stops at the missing last key.
FlowInv ==
  /\ ~Exists(secret) => stored = 0
  /\ pc # "idle" => num \in MinKeys..MaxKeys
  /\ pc \in Loops => data[0] # 0
  /\ pc = "shift" => i \in 1..MaxKeys
  /\ pc = "insert" => i \in 1..(num - 1) /\ data[num - 1] = 0

\* The type invariant, one Secret at a time.
LEMMA TypeParts ==
  TypeOK <=>
    /\ n \in MinKeys..MaxKeys /\ dueUpTo \in Nat /\ stored \in 0..MaxKey /\ gen \in 0..MaxKey
    /\ secret \in Secrets /\ cache \in Secrets /\ read \in Secrets
    /\ data \in Data /\ num \in 0..MaxKeys /\ changed \in BOOLEAN
    /\ i \in 0..(MaxKeys + 2) /\ val \in 0..MaxKey
    /\ pc \in {"idle", "create", "rotate", "trim", "shift", "grow", "insert", "save", "deploy"}
    /\ deployed \in 0..MaxKeys
    /\ pod \in [Pods -> [items: 0..MaxKeys, keys: Data]]
BY DEF TypeOK, Secrets

\* Nothing is in memory, in a Secret that is missing and in a pod to come.
LEMMA Empty ==
  /\ NoData \in Data /\ NoSecret \in Secrets /\ ~Exists(NoSecret)
  /\ NoPod \in [items: 0..MaxKeys, keys: Data]
  /\ 0 \in Idx
<1> USE ConstantsAssumption
<1>1. 0 \in Idx /\ 0 \in 0..MaxKey
  BY DEF Idx
<1>2. NoData \in Data
  BY <1>1 DEF NoData, Data
<1>3. NoData[0] = 0
  BY <1>1 DEF NoData
<1>4. NoSecret \in Secrets /\ ~Exists(NoSecret)
  BY <1>2, <1>3 DEF NoSecret, Secrets, Exists
<1>5. NoPod \in [items: 0..MaxKeys, keys: Data]
  BY <1>2 DEF NoPod
<1> QED BY <1>1, <1>2, <1>4, <1>5

\* The keys a creation generates.
LEMMA NewKeysTyped ==
  ASSUME num \in MinKeys..MaxKeys, stored \in Nat, stored + num <= MaxKey
  PROVE  /\ NewKeys \in Data
         /\ \A j \in Idx : NewKeys[j] = IF j < num THEN stored + j + 1 ELSE 0
BY ConstantsAssumption DEF NewKeys, Data, Idx

\* What a pod gets to mount.
LEMMA MountedTyped ==
  ASSUME secret \in Secrets, NEW m \in 0..MaxKeys
  PROVE  /\ Mounted(m) \in [items: 0..MaxKeys, keys: Data]
         /\ Mounted(m).items = m
         /\ \A j \in Idx : Mounted(m).keys[j] = IF j < m THEN secret.keys[j] ELSE 0
BY ConstantsAssumption DEF Mounted, Secrets, Data, Idx

\* A reconcile starts with nothing in memory.
LEMMA TypeInit == Init => TypeOK /\ FlowInv
<1> SUFFICES ASSUME Init PROVE TypeOK /\ FlowInv
  OBVIOUS
<1> USE ConstantsAssumption
<1>1. TypeOK
  <2>1. changed \in BOOLEAN
    BY Zenon DEF Init
  <2>2. 0 \in 0..MaxKey /\ 0 \in 0..MaxKeys /\ 0 \in 0..(MaxKeys + 2)
    OBVIOUS
  <2>3. /\ n \in MinKeys..MaxKeys /\ dueUpTo \in Nat /\ stored \in 0..MaxKey /\ gen \in 0..MaxKey
        /\ secret \in Secrets /\ cache \in Secrets /\ read \in Secrets
        /\ data \in Data /\ num \in 0..MaxKeys /\ i \in 0..(MaxKeys + 2) /\ val \in 0..MaxKey
        /\ pc = "idle" /\ deployed \in 0..MaxKeys
    BY Empty, <2>2 DEF Init
  <2>4. pod \in [Pods -> [items: 0..MaxKeys, keys: Data]]
    BY Empty DEF Init
  <2> QED BY <2>1, <2>3, <2>4, TypeParts
<1>2. FlowInv
  BY DEF Init, FlowInv, Loops
<1> QED BY <1>1, <1>2

\* What the end of ensureFernetKeys leaves in memory.
LEMMA ReturnTyped ==
  ASSUME NEW then \in {"idle", "deploy"}, NEW m \in 0..MaxKeys, Return(then, m),
         then # "idle" => m \in MinKeys..MaxKeys
  PROVE  /\ gen' \in 0..MaxKey /\ read' \in Secrets /\ data' \in Data
         /\ num' \in 0..MaxKeys /\ changed' \in BOOLEAN
         /\ i' \in 0..(MaxKeys + 2) /\ val' \in 0..MaxKey
         /\ pc' \in {"idle", "create", "rotate", "trim", "shift", "grow", "insert", "save", "deploy"}
         /\ pc' \notin Loops /\ pc' # "create"
         /\ pc' # "idle" => num' \in MinKeys..MaxKeys
<1> USE ConstantsAssumption
<1>1. changed' \in BOOLEAN
  BY Zenon DEF Return
<1>2. /\ gen' = 0 /\ read' = NoSecret /\ data' = NoData /\ num' = m /\ i' = 0 /\ val' = 0
      /\ pc' = then
  BY DEF Return
<1> QED BY <1>1, <1>2, Empty DEF Loops

\* A rotation that is due stages a new key and appends the one that was staged.
LEMMA RotateEffect ==
  ASSUME TypeOK, FlowInv, RotateKeys
  PROVE  /\ UNCHANGED <<n, dueUpTo, cache, deployed, pod, secret, stored, read, num, i, val>>
         /\ pc' = "trim" /\ data' \in Data /\ gen' \in 0..MaxKey /\ changed' \in BOOLEAN
         /\ IsDue(read) =>
              /\ gen < MaxKey /\ gen' = gen + 1 /\ changed' = changed
              /\ \A j \in Idx : data'[j] = IF j = 0 THEN gen + 1 ELSE IF j = num THEN data[0] ELSE data[j]
         /\ ~IsDue(read) => data' = data /\ gen' = gen
<1> USE ConstantsAssumption
<1>1. UNCHANGED <<n, dueUpTo, cache, deployed, pod, secret, stored, read, num, i, val>> /\ pc' = "trim"
  BY DEF RotateKeys, Unchanged, envVars, podVars
<1>2. num \in Idx /\ 0 \in Idx /\ data \in Data /\ gen \in 0..MaxKey /\ data[0] \in 0..MaxKey
  BY DEF RotateKeys, FlowInv, Idx, TypeOK, Data
<1>3. changed' \in BOOLEAN /\ (IsDue(read) => changed' = changed)
  <2>1. changed' = changed \/ (~IsDue(read) /\ changed' = (read.rotatedat = BadStamp))
    BY Zenon DEF RotateKeys
  <2>2. changed \in BOOLEAN
    BY DEF TypeOK
  <2> QED BY <2>1, <2>2, Zenon
<1>4. CASE IsDue(read)
  <2> DEFINE f == [data EXCEPT ![num] = data[0]]
  <2>1. f \in Data /\ \A j \in Idx : f[j] = IF j = num THEN data[0] ELSE data[j]
    BY <1>2 DEF Data
  <2>2. gen < MaxKey /\ gen' = gen + 1 /\ data' = [f EXCEPT ![0] = gen + 1]
    BY <1>4 DEF RotateKeys
  <2>3. gen + 1 \in 0..MaxKey
    BY <1>2, <2>2
  <2> HIDE DEF f
  <2>4. data' \in Data /\ \A j \in Idx : data'[j] = IF j = 0 THEN gen + 1 ELSE f[j]
    BY <1>2, <2>1, <2>2, <2>3 DEF Data
  <2>5. \A j \in Idx : data'[j] = IF j = 0 THEN gen + 1 ELSE IF j = num THEN data[0] ELSE data[j]
    BY <2>1, <2>4
  <2> QED BY <1>1, <1>3, <1>4, <2>2, <2>3, <2>4, <2>5
<1>5. CASE ~IsDue(read)
  <2>1. data' = data /\ gen' = gen
    BY <1>5 DEF RotateKeys
  <2> QED BY <1>1, <1>2, <1>3, <1>5, <2>1
<1> QED BY <1>4, <1>5

\* A turn of the loop that removes a key moves one entry down, or ends.
LEMMA ShiftEffect ==
  ASSUME TypeOK, FlowInv, ShiftDown
  PROVE  /\ UNCHANGED <<n, dueUpTo, cache, deployed, pod, secret, stored, read, num, changed, val, gen>>
         /\ data' \in Data /\ i' = i + 1
         /\ \/ /\ i + 1 \in Idx /\ data[i + 1] # 0 /\ pc' = "shift"
               /\ \A j \in Idx :
                    data'[j] = IF j = i + 1 THEN 0 ELSE IF j = i THEN data[i + 1] ELSE data[j]
            \/ /\ i + 1 \in Idx => data[i + 1] = 0
               /\ pc' = "trim" /\ data' = data
<1> USE ConstantsAssumption
<1>1. UNCHANGED <<n, dueUpTo, cache, deployed, pod, secret, stored, read, num, changed, val, gen>>
      /\ i' = i + 1
  BY DEF ShiftDown, Unchanged, envVars, podVars
<1>2. i \in Idx /\ 0 \in 0..MaxKey /\ data \in Data
  BY DEF ShiftDown, FlowInv, Idx, TypeOK
<1>3. CASE i + 1 \in Idx /\ data[i + 1] # 0
  <2> DEFINE f == [data EXCEPT ![i] = data[i + 1]]
  <2>1. f \in Data /\ \A j \in Idx : f[j] = IF j = i THEN data[i + 1] ELSE data[j]
    BY <1>2, <1>3 DEF Data
  <2>2. data' = [f EXCEPT ![i + 1] = 0] /\ pc' = "shift"
    BY <1>3 DEF ShiftDown
  <2> HIDE DEF f
  <2>3. data' \in Data /\ \A j \in Idx : data'[j] = IF j = i + 1 THEN 0 ELSE f[j]
    BY <1>2, <1>3, <2>1, <2>2 DEF Data
  <2>4. \A j \in Idx : data'[j] = IF j = i + 1 THEN 0 ELSE IF j = i THEN data[i + 1] ELSE data[j]
    BY <2>1, <2>3
  <2> QED BY <1>1, <1>3, <2>2, <2>3, <2>4
<1>4. CASE ~(i + 1 \in Idx /\ data[i + 1] # 0)
  <2>1. data' = data /\ pc' = "trim"
    BY <1>4 DEF ShiftDown
  <2> QED BY <1>1, <1>2, <1>4, <2>1
<1> QED BY <1>3, <1>4

\* A turn of the loop that inserts a key puts the carried one down.
LEMMA InsertEffect ==
  ASSUME TypeOK, FlowInv, InsertKey
  PROVE  /\ UNCHANGED <<n, dueUpTo, cache, deployed, pod, secret, stored, read, num, changed, gen>>
         /\ data' \in Data /\ i' = i + 1 /\ i \in 1..(num - 1) /\ num \in MinKeys..MaxKeys
         /\ \A j \in Idx : data'[j] = IF j = i THEN val ELSE data[j]
         /\ val' = data[i] /\ val' \in 0..MaxKey
         /\ pc' = IF data[i] = 0 THEN "grow" ELSE "insert"
<1> USE ConstantsAssumption
<1>1. /\ UNCHANGED <<n, dueUpTo, cache, deployed, pod, secret, stored, read, num, changed, gen>>
      /\ i' = i + 1 /\ val' = data[i] /\ pc' = IF data[i] = 0 THEN "grow" ELSE "insert"
      /\ data' = [data EXCEPT ![i] = val]
  BY DEF InsertKey, Unchanged, envVars, podVars
<1>2. i \in 1..(num - 1) /\ num \in MinKeys..MaxKeys
  BY DEF InsertKey, FlowInv
<1>3. i \in Idx /\ data \in Data /\ val \in 0..MaxKey
  BY <1>2 DEF Idx, TypeOK
<1>4. data' \in Data /\ (\A j \in Idx : data'[j] = IF j = i THEN val ELSE data[j])
      /\ data[i] \in 0..MaxKey
  BY <1>1, <1>3 DEF Data
<1> QED BY <1>1, <1>2, <1>4

\* Every step keeps the types, and the loops of ensureFernetKeys their bounds.
LEMMA TypeStep == TypeOK /\ FlowInv /\ [Next]_vars => TypeOK' /\ FlowInv'
<1> SUFFICES ASSUME TypeOK, FlowInv, [Next]_vars PROVE TypeOK' /\ FlowInv'
  OBVIOUS
<1> USE ConstantsAssumption
<1> DEFINE Steps == {"idle", "create", "rotate", "trim", "shift", "grow", "insert", "save", "deploy"}
           PodType == [items: 0..MaxKeys, keys: Data]
<1>t. /\ n \in MinKeys..MaxKeys /\ dueUpTo \in Nat /\ stored \in 0..MaxKey /\ gen \in 0..MaxKey
      /\ secret \in Secrets /\ cache \in Secrets /\ read \in Secrets
      /\ data \in Data /\ num \in 0..MaxKeys /\ changed \in BOOLEAN
      /\ i \in 0..(MaxKeys + 2) /\ val \in 0..MaxKey
      /\ pc \in Steps
      /\ deployed \in 0..MaxKeys
      /\ pod \in [Pods -> PodType]
  BY TypeParts
<1>g. ASSUME /\ n' \in MinKeys..MaxKeys /\ dueUpTo' \in Nat /\ stored' \in 0..MaxKey
             /\ gen' \in 0..MaxKey
             /\ secret' \in Secrets /\ cache' \in Secrets /\ read' \in Secrets
             /\ data' \in Data /\ num' \in 0..MaxKeys /\ changed' \in BOOLEAN
             /\ i' \in 0..(MaxKeys + 2) /\ val' \in 0..MaxKey
             /\ pc' \in Steps
             /\ deployed' \in 0..MaxKeys
             /\ pod' \in [Pods -> PodType]
      PROVE  TypeOK'
  BY <1>g DEF TypeOK, Secrets
<1>d. /\ secret.keys \in Data /\ read.keys \in Data /\ cache.keys \in Data
      /\ 0 \in Idx /\ Idx \subseteq Nat
      /\ \A j \in Idx : data[j] \in 0..MaxKey
  BY SMTT(30), <1>t DEF Data, Idx, Secrets
<1> HIDE DEF Steps, PodType
<1>1. CASE EnsureFernetKeys
  <2>3. changed' \in BOOLEAN
    BY <1>1, Zenon DEF EnsureFernetKeys
  <2>4. /\ UNCHANGED <<n, dueUpTo, cache, deployed, pod, secret, stored>>
        /\ read' = cache /\ data' = cache.keys /\ num' = n /\ i' = 0 /\ val' = 0 /\ gen' = stored
        /\ pc' \in {"rotate", "create"}
    BY <1>1 DEF EnsureFernetKeys, Unchanged, envVars, podVars
  <2>1. TypeOK'
    BY <2>3, <2>4, <1>t, <1>d, <1>g DEF Steps
  <2>2. FlowInv'
    BY <1>1, <1>t, <1>d DEF EnsureFernetKeys, Unchanged, envVars, podVars, FlowInv, Exists, Loops
  <2> QED BY <2>1, <2>2
<1>2. CASE CreateKeys
  <2>n. num \in MinKeys..MaxKeys /\ num \in 0..MaxKeys
    BY <1>2, <1>t DEF CreateKeys, FlowInv
  <2>1. CASE /\ ~Exists(secret)
             /\ secret' = [keys |-> NewKeys, rotatedat |-> dueUpTo + 1]
             /\ stored' = stored + num
             /\ Return("deploy", num)
    <3>1. stored = 0 /\ stored + num <= MaxKey
      BY <2>1, <2>n DEF FlowInv
    <3>2. NewKeys \in Data /\ NewKeys[0] # 0
      BY <3>1, <2>n, NewKeysTyped, <1>d, <1>t
    <3>3. secret' \in Secrets /\ Exists(secret')
      BY <3>2, <2>1, <1>t DEF Secrets, Exists
    <3>4. UNCHANGED <<n, dueUpTo, cache, deployed, pod>>
      BY <1>2 DEF CreateKeys, Unchanged, envVars, podVars
    <3>5. TypeOK'
      BY <3>1, <3>3, <3>4, <2>1, <2>n, <1>t, <1>g, ReturnTyped DEF Steps
    <3>6. FlowInv'
      BY <3>3, <2>1, <2>n, ReturnTyped DEF FlowInv, Return, Loops
    <3> QED BY <3>5, <3>6
  <2>2. CASE Replaced /\ secret' = [secret EXCEPT !.keys = NewKeys]
             /\ stored' = stored + num /\ Return("deploy", num)
    <3>1. stored + num <= MaxKey
      BY <2>2 DEF Replaced
    <3>2. NewKeys \in Data /\ NewKeys[0] # 0
      BY <3>1, <2>n, NewKeysTyped, <1>d, <1>t
    <3>3. secret' \in Secrets /\ Exists(secret')
      BY <3>2, <2>2, <1>t DEF Secrets, Exists
    <3>4. UNCHANGED <<n, dueUpTo, cache, deployed, pod>>
      BY <1>2 DEF CreateKeys, Unchanged, envVars, podVars
    <3>5. TypeOK'
      BY <3>1, <3>3, <3>4, <2>2, <2>n, <1>t, <1>g, ReturnTyped DEF Steps
    <3>6. FlowInv'
      BY <3>3, <2>2, <2>n, ReturnTyped DEF FlowInv, Return, Loops
    <3> QED BY <3>5, <3>6
  <2>3. CASE Return("idle", 0) /\ UNCHANGED <<secret, stored>>
    <3>1. UNCHANGED <<n, dueUpTo, cache, deployed, pod>>
      BY <1>2 DEF CreateKeys, Unchanged, envVars, podVars
    <3>2. TypeOK'
      BY <3>1, <2>3, <1>t, <1>g, ReturnTyped DEF Steps
    <3>3. FlowInv'
      BY <2>3, ReturnTyped DEF FlowInv, Return, Loops
    <3> QED BY <3>2, <3>3
  <2> QED BY <1>2, <2>1, <2>2, <2>3 DEF CreateKeys
<1>3. CASE RotateKeys
  <2>1. data[0] # 0 /\ num \in MinKeys..MaxKeys
    BY <1>3 DEF RotateKeys, FlowInv, Loops
  <2>2. data'[0] # 0
    BY <1>3, <2>1, <1>d, <1>t, RotateEffect
  <2>3. TypeOK'
    BY <1>3, <1>t, <1>g, RotateEffect DEF Steps
  <2>4. FlowInv'
    BY <1>3, <2>1, <2>2, RotateEffect DEF FlowInv
  <2> QED BY <2>3, <2>4
<1>4. CASE TrimKeys
  <2>1. UNCHANGED <<n, dueUpTo, cache, deployed, pod, secret, stored, read, data, num, val, gen>>
    BY <1>4 DEF TrimKeys, Unchanged, envVars, podVars
  <2>b. changed' \in BOOLEAN
    <3>1. changed' = TRUE \/ changed' = changed
      BY <1>4, Zenon DEF TrimKeys
    <3> QED BY <3>1, <1>t, Zenon
  <2>i. (i' = 1 /\ pc' = "shift") \/ (i' = i /\ pc' = "grow")
    BY <1>4 DEF TrimKeys
  <2>2. pc' \in {"shift", "grow"} /\ changed' \in BOOLEAN /\ i' \in 0..(MaxKeys + 2)
        /\ (pc' = "shift" => i' \in 1..MaxKeys)
    BY <2>b, <2>i, <1>t
  <2>3. TypeOK'
    BY <2>1, <2>2, <1>t, <1>g DEF Steps
  <2>4. FlowInv'
    BY <1>4, <2>1, <2>2 DEF FlowInv, TrimKeys, Loops
  <2> QED BY <2>3, <2>4
<1>5. CASE ShiftDown
  <2>1. i \in 1..MaxKeys /\ data[0] # 0 /\ num \in MinKeys..MaxKeys
    BY <1>5 DEF ShiftDown, FlowInv, Loops
  <2>2. data'[0] # 0 /\ pc' \in {"shift", "trim"}
    BY <1>5, <2>1, <1>d, ShiftEffect
  <2>3. i' \in 0..(MaxKeys + 2) /\ (pc' = "shift" => i' \in 1..MaxKeys)
    BY <1>5, <2>1, ShiftEffect DEF Idx
  <2>4. TypeOK'
    BY <1>5, <2>2, <2>3, <1>t, <1>g, ShiftEffect DEF Steps
  <2>5. FlowInv'
    BY <1>5, <2>1, <2>2, <2>3, ShiftEffect DEF FlowInv
  <2> QED BY <2>4, <2>5
<1>6. CASE GrowKeys
  <2>1. UNCHANGED <<n, dueUpTo, cache, deployed, pod, secret, stored, read, data, num>>
    BY <1>6 DEF GrowKeys, Unchanged, envVars, podVars
  <2>2. num \in MinKeys..MaxKeys /\ data[0] # 0
    BY <1>6 DEF GrowKeys, FlowInv, Loops
  <2>3. /\ pc' \in {"save", "insert"} /\ changed' \in BOOLEAN /\ i' \in 0..(MaxKeys + 2)
        /\ val' \in 0..MaxKey /\ gen' \in 0..MaxKey
        /\ (pc' = "insert" => i' \in 1..(num - 1) /\ data[num - 1] = 0)
    <3>1. changed' \in BOOLEAN
      <4>1. changed' = TRUE \/ changed' = changed
        BY <1>6, Zenon DEF GrowKeys
      <4> QED BY <4>1, <1>t, Zenon
    <3>2. \/ pc' = "save" /\ i' = i /\ val' = val /\ gen' = gen
          \/ /\ data[num - 1] = 0 /\ gen < MaxKey /\ i' = 1 /\ val' = gen + 1 /\ gen' = gen + 1
             /\ pc' = "insert"
      BY <1>6 DEF GrowKeys
    <3> QED BY <3>1, <3>2, <2>2, <1>t
  <2>4. TypeOK'
    BY <2>1, <2>3, <1>t, <1>g DEF Steps
  <2>5. FlowInv'
    BY <2>1, <2>2, <2>3 DEF FlowInv
  <2> QED BY <2>4, <2>5
<1>7. CASE InsertKey
  <2>1. i \in 1..(num - 1) /\ num \in MinKeys..MaxKeys /\ data[num - 1] = 0 /\ data[0] # 0
    BY <1>7 DEF InsertKey, FlowInv, Loops
  <2>2. 0 \in Idx /\ i \in Idx /\ num - 1 \in Idx
    BY <2>1 DEF Idx
  <2>3. data'[0] # 0 /\ pc' \in {"grow", "insert"} /\ i' \in 0..(MaxKeys + 2)
    BY <1>7, <2>1, <2>2, InsertEffect
  <2>4. pc' = "insert" => i' \in 1..(num - 1) /\ data'[num - 1] = 0
    BY <1>7, <2>1, <2>2, InsertEffect
  <2>5. TypeOK'
    BY <1>7, <2>3, <1>t, <1>g, InsertEffect DEF Steps
  <2>6. FlowInv'
    BY <1>7, <2>1, <2>3, <2>4, InsertEffect DEF FlowInv
  <2> QED BY <2>5, <2>6
<1>8. CASE SaveKeys
  <2>1. UNCHANGED <<n, dueUpTo, cache, deployed, pod>>
    BY <1>8 DEF SaveKeys, Unchanged, envVars, podVars
  <2>2. num \in MinKeys..MaxKeys /\ data[0] # 0 /\ num \in 0..MaxKeys
    BY <1>8 DEF SaveKeys, FlowInv, Loops
  <2>3. /\ secret' \in Secrets /\ stored' \in 0..MaxKey
        /\ (~Exists(secret') => stored' = 0)
    BY <1>8, <2>2, <1>t DEF SaveKeys, FlowInv, Secrets, Exists
  <2>4. Return("deploy", num) \/ Return("idle", 0)
    BY <1>8 DEF SaveKeys
  <2>5. TypeOK'
    BY <2>1, <2>2, <2>3, <2>4, <1>t, <1>g, ReturnTyped DEF Steps
  <2>6. FlowInv'
    BY <2>2, <2>3, <2>4, ReturnTyped DEF FlowInv, Return, Loops
  <2> QED BY <2>5, <2>6
<1>9. CASE Deploy
  <2>1. UNCHANGED <<n, dueUpTo, secret, cache, stored, pod>> /\ Return("idle", 0) /\ deployed' = num
    BY <1>9 DEF Deploy, envVars
  <2>2. TypeOK'
    BY <2>1, <1>t, <1>g, ReturnTyped DEF Steps
  <2>3. FlowInv'
    BY <2>1, ReturnTyped DEF FlowInv, Return, Loops
  <2> QED BY <2>2, <2>3
<1>10. CASE Abort
  <2>1. UNCHANGED <<n, dueUpTo, secret, cache, stored, deployed, pod>> /\ Return("idle", 0)
    BY <1>10 DEF Abort, Unchanged, envVars, podVars
  <2>2. TypeOK'
    BY <2>1, <1>t, <1>g, ReturnTyped DEF Steps
  <2>3. FlowInv'
    BY <2>1, ReturnTyped DEF FlowInv, Return, Loops
  <2> QED BY <2>2, <2>3
<1>11. ASSUME UNCHANGED memVars, stored' = stored, deployed' = deployed,
              n' \in MinKeys..MaxKeys, dueUpTo' \in Nat, secret' \in Secrets, cache' \in Secrets,
              pod' \in [Pods -> PodType], Exists(secret') = Exists(secret)
       PROVE  TypeOK' /\ FlowInv'
  <2>1. UNCHANGED <<pc, read, data, num, changed, i, val, gen>>
    BY <1>11 DEF memVars
  <2>2. TypeOK'
    BY <1>11, <2>1, <1>t, <1>g
  <2>3. FlowInv'
    BY <1>11, <2>1 DEF FlowInv
  <2> QED BY <2>2, <2>3
<1>12. CASE SyncCache
  BY <1>12, <1>11, <1>t DEF SyncCache, envVars, podVars
<1>13. CASE TimePasses
  <2>1. dueUpTo' \in Nat
    BY <1>13, <1>t DEF TimePasses, Secrets, BadStamp
  <2> QED BY <2>1, <1>13, <1>11, <1>t DEF TimePasses, podVars
<1>14. CASE LoseAnnotation
  <2>1. secret' \in Secrets /\ Exists(secret') = Exists(secret)
    BY <1>14, <1>t DEF LoseAnnotation, Secrets, Exists
  <2> QED BY <2>1, <1>14, <1>11, <1>t DEF LoseAnnotation, envVars, podVars
<1>15. ASSUME NEW m \in MinKeys..MaxKeys, EditMaxActiveKeys(m) PROVE TypeOK' /\ FlowInv'
  BY <1>15, <1>11, <1>t DEF EditMaxActiveKeys, podVars
<1>16. ASSUME NEW p \in Pods, StartPod(p) PROVE TypeOK' /\ FlowInv'
  <2>1. pod' \in [Pods -> PodType]
    BY <1>16, <1>t, MountedTyped DEF StartPod, PodType
  <2> QED BY <2>1, <1>16, <1>11, <1>t DEF StartPod, envVars
<1>17. ASSUME NEW p \in Pods, PropagateKeys(p) PROVE TypeOK' /\ FlowInv'
  <2>1. pod[p].items \in 0..MaxKeys
    BY <1>t DEF PodType
  <2>2. pod' \in [Pods -> PodType]
    BY <1>17, <2>1, <1>t, MountedTyped DEF PropagateKeys, PodType
  <2> QED BY <2>2, <1>17, <1>11, <1>t DEF PropagateKeys, envVars
<1>18. CASE UNCHANGED vars
  BY <1>18, <1>11, <1>t DEF vars, envVars, podVars
<1> QED
  BY <1>1, <1>2, <1>3, <1>4, <1>5, <1>6, <1>7, <1>8, <1>9, <1>10, <1>12, <1>13, <1>14,
     <1>15, <1>16, <1>17, <1>18 DEF Next, Ensure

\* The state keeps its types: whatever number of keys is asked for, no loop of
\* ensureFernetKeys names a key outside the repository.
THEOREM TypeCorrect == Spec => []TypeOK
<1>1. Spec => [](TypeOK /\ FlowInv)
  BY TypeInit, TypeStep, PTL DEF Spec
<1> QED BY <1>1, PTL

----------------------------------------------------------------------------
(* The keys of the repository *)

\* The number of keys; a repository has no gap if they are the first entries.
Size(d) == Cardinality(Present(d))
Whole(d) == \A j \in Idx : d[j] # 0 <=> j < Size(d)

\* A repository whose first m entries are there has m keys.
LEMMA SizeOf ==
  ASSUME NEW d \in Data, NEW m \in 0..(MaxKeys + 1),
         \A j \in Idx : d[j] # 0 <=> j < m
  PROVE  Size(d) = m /\ Whole(d)
<1> USE ConstantsAssumption
<1>1. Present(d) = 0..(m - 1)
  BY DEF Present, Idx
<1>2. Cardinality(0..(m - 1)) = m
  BY FS_Interval
<1> QED BY <1>1, <1>2 DEF Size, Whole

\* The last key of a repository without gaps is its primary one.
LEMMA PrimaryOf ==
  ASSUME NEW d \in Data, Whole(d), NEW m \in 1..(MaxKeys + 1), Size(d) = m
  PROVE  /\ Primary(d) = d[m - 1] /\ m - 1 \in Idx
         /\ KeySet(d) = {d[j] : j \in {x \in Idx : x < m}}
         /\ \A j \in Idx : j < m => d[j] \in KeySet(d)
<1> USE ConstantsAssumption
<1>1. Present(d) = {x \in Idx : x < m}
  BY DEF Present, Whole
<1>2. m <= MaxKeys + 1 => m - 1 \in Idx
  BY <1>1 DEF Idx
<1>3. m - 1 \in Present(d) /\ \A k \in Present(d) : k <= m - 1
  BY <1>1, <1>2 DEF Idx
<1>4. \A j \in Present(d) : (\A k \in Present(d) : k <= j) => j = m - 1
  BY <1>1, <1>3 DEF Idx
<1>5. Highest(d) = m - 1
  BY <1>3, <1>4 DEF Highest
<1> QED BY <1>1, <1>2, <1>5 DEF Primary, KeySet

\* What is known of a Secret: it has no gap, a size the webhook admits, and no
\* key but the first `last' ones.
Sound(s, last) ==
  /\ Whole(s.keys)
  /\ Exists(s) => Size(s.keys) \in MinKeys..MaxKeys
  /\ \A j \in Idx : s.keys[j] <= last
CopiesInv == Sound(secret, stored) /\ Sound(cache, stored) /\ Sound(read, stored)

\* A rotation that is due meets a Secret of the size that is asked for.
RotationInv ==
  /\ Exists(secret) /\ IsDue(secret) => Size(secret.keys) = n
  /\ Exists(cache) /\ IsDue(cache) => Size(cache.keys) = n
  /\ pc \in Loops /\ IsDue(read) => Size(read.keys) = num

\* A Secret that the cache has not shown yet is still as it was created.
CreationInv ==
  /\ (pc = "create" \/ ~Exists(cache)) /\ Exists(secret) =>
       ~IsDue(secret) /\ Pristine(secret.keys)
  /\ Exists(cache) => Exists(secret)
  /\ pc \in Loops => Exists(cache)

\* The keys in memory once a rotation that is due has been made ...
Due == IsDue(read)
One == IF Due THEN 1 ELSE 0
Base == [j \in Idx |-> IF Due /\ j = 0 THEN stored + 1
                       ELSE IF Due /\ j = num THEN read.keys[0] ELSE read.keys[j]]
BaseSize == Size(read.keys) + One

\* ... and the entry j after all but k of the b keys d have been removed and g
\* have been added, where s keys are in the Secret.
Shape(d, b, s, k, g, j) ==
  IF j = 0 THEN d[0]
  ELSE IF j <= g THEN s + g + 1 - j
  ELSE IF j < k + g THEN d[j - g + b - k] ELSE 0

\* Where the loops of ensureFernetKeys are, in terms of Shape.
InRotate == pc = "rotate" => data = read.keys /\ ~changed /\ gen = stored
InTrim ==
  pc = "trim" => \E k \in 1..(MaxKeys + 1) :
    /\ k <= BaseSize /\ (k < BaseSize => num <= k) /\ gen = stored + One
    /\ ~changed => k = BaseSize
    /\ \A j \in Idx : data[j] = Shape(Base, BaseSize, stored, k, 0, j)
InShift ==
  pc = "shift" => \E k \in 1..(MaxKeys + 1) :
    /\ num < k /\ k <= BaseSize /\ gen = stored + One
    /\ i \in 1..(k - 1) /\ changed
    /\ \A j \in Idx : j < i => data[j] = Shape(Base, BaseSize, stored, k - 1, 0, j)
    /\ \A j \in Idx : j > i => data[j] = Shape(Base, BaseSize, stored, k, 0, j)
    /\ i > 1 => data[i] = 0
InGrow ==
  pc \in {"grow", "save"} => \E k \in 1..MaxKeys, g \in 0..MaxKeys :
    /\ k <= BaseSize /\ k + g <= num /\ (pc = "save" => k + g = num)
    /\ (k = num /\ g = 0) \/ (k = BaseSize /\ ~Due)
    /\ gen = stored + One + g
    /\ ~changed => k = BaseSize /\ g = 0
    /\ \A j \in Idx : data[j] = Shape(Base, BaseSize, stored, k, g, j)
InInsert ==
  pc = "insert" => \E k \in 1..MaxKeys, g \in 1..MaxKeys :
    /\ k = BaseSize /\ ~Due /\ k + g <= num /\ gen = stored + g
    /\ i \in 1..(k + g - 1) /\ changed
    /\ \A j \in Idx : j < i => data[j] = Shape(Base, BaseSize, stored, k, g, j)
    /\ \A j \in Idx : j >= i => data[j] = Shape(Base, BaseSize, stored, k, g - 1, j)
    /\ val = Shape(Base, BaseSize, stored, k, g, i)
LoopInv ==
  /\ pc \in Loops => Exists(read)
  /\ InRotate /\ InTrim /\ InShift /\ InGrow /\ InInsert

RepoInv ==
  ~Combine /\ TypeOK /\ FlowInv /\ CopiesInv /\ RotationInv /\ CreationInv /\ LoopInv

\* The repository a loop starts from: no gap, at least three keys, and one too
\* many after a rotation.
LEMMA BaseFacts ==
  ASSUME RepoInv, pc \in Loops
  PROVE  /\ BaseSize \in MinKeys..(MaxKeys + 1) /\ One \in {0, 1} /\ (Due <=> One = 1)
         /\ Due => BaseSize = num + 1
         /\ \A j \in Idx : Base[j] \in Nat /\ Base[j] <= stored + One
         /\ \A j \in Idx : Base[j] # 0 <=> j < BaseSize
         /\ num \in MinKeys..MaxKeys /\ stored \in 0..MaxKey
         /\ Size(read.keys) \in MinKeys..MaxKeys
<1> USE ConstantsAssumption
<1>1. num \in MinKeys..MaxKeys /\ stored \in 0..MaxKey
  BY DEF RepoInv, FlowInv, TypeOK, Loops
<1>2. /\ Exists(read) /\ Size(read.keys) \in MinKeys..MaxKeys
      /\ \A j \in Idx : (read.keys[j] # 0 <=> j < Size(read.keys)) /\ read.keys[j] <= stored
  BY DEF RepoInv, LoopInv, CopiesInv, Sound, Whole
<1>3. Due => Size(read.keys) = num
  BY DEF RepoInv, RotationInv, Due
<1>4. \A j \in Idx : read.keys[j] \in 0..MaxKey
  BY TypeParts DEF RepoInv, Secrets, Data
<1>5. 0 \in Idx /\ Idx \subseteq Nat
  BY DEF Idx
<1>6. \A j \in Idx : Base[j] = IF Due /\ j = 0 THEN stored + 1
                               ELSE IF Due /\ j = num THEN read.keys[0] ELSE read.keys[j]
  BY DEF Base
<1>7. One \in {0, 1} /\ (Due <=> One = 1) /\ BaseSize = Size(read.keys) + One
  BY DEF One, BaseSize
<1>8. BaseSize \in MinKeys..(MaxKeys + 1) /\ (Due => BaseSize = num + 1)
  BY <1>1, <1>2, <1>3, <1>7
<1>9. \A j \in Idx : Base[j] \in Nat /\ Base[j] <= stored + One
  BY <1>1, <1>2, <1>4, <1>5, <1>6, <1>7
<1>10. \A j \in Idx : Base[j] # 0 <=> j < BaseSize
  BY <1>1, <1>2, <1>3, <1>4, <1>5, <1>6, <1>7
<1> QED BY <1>1, <1>2, <1>7, <1>8, <1>9, <1>10

\* Removing and adding keys leaves no gap, and no key that was not generated.
LEMMA ShapeFacts ==
  ASSUME RepoInv, pc \in Loops, NEW k \in 1..(MaxKeys + 1), k <= BaseSize,
         NEW g \in 0..MaxKeys, NEW j \in Idx
  PROVE  /\ Shape(Base, BaseSize, stored, k, g, j) # 0 <=> j < k + g
         /\ g = 0 \/ ~Due => Shape(Base, BaseSize, stored, k, g, j) <= stored + One + g
<1> USE ConstantsAssumption
<1>1. j \in 0..MaxKeys /\ 0 \in Idx
  BY DEF Idx
<1>2. j > g /\ j < k + g => j - g + BaseSize - k \in Idx /\ j - g + BaseSize - k < BaseSize
  BY <1>1, BaseFacts DEF Idx
<1>3. CASE j = 0
  BY <1>1, <1>3, BaseFacts DEF Shape
<1>4. CASE j # 0 /\ j <= g
  BY <1>1, <1>4, BaseFacts DEF Shape
<1>5. CASE j # 0 /\ j > g
  BY <1>1, <1>2, <1>5, BaseFacts DEF Shape
<1> QED BY <1>1, <1>3, <1>4, <1>5

\* While a loop runs, what it started from does not change.
LEMMA Frozen ==
  ASSUME UNCHANGED <<read, num, stored, dueUpTo>>
  PROVE  Due' = Due /\ One' = One /\ Base' = Base /\ BaseSize' = BaseSize
<1>1. Due' = Due
  BY DEF Due, IsDue
<1>2. One' = One
  BY <1>1 DEF One
<1>3. Base' = Base
  BY <1>1 DEF Base
<1> QED BY <1>1, <1>2, <1>3 DEF BaseSize

\* A rotation leaves the repository in its Base form.
LEMMA RotateLoop == RepoInv /\ RotateKeys => LoopInv'
<1> SUFFICES ASSUME RepoInv, RotateKeys PROVE LoopInv'
  OBVIOUS
<1> USE ConstantsAssumption
<1>1. pc = "rotate" /\ pc \in Loops
  BY DEF RotateKeys, Loops
<1>2. TypeOK /\ FlowInv
  BY DEF RepoInv
<1>3. data = read.keys /\ gen = stored /\ Exists(read)
  BY <1>1 DEF RepoInv, LoopInv, InRotate
<1>4. UNCHANGED <<read, num, stored, dueUpTo>> /\ pc' = "trim"
  BY <1>2, RotateEffect
<1>5. gen' = stored + One
  BY <1>1, <1>2, <1>3, RotateEffect, BaseFacts DEF Due
<1>6. \A j \in Idx : data'[j] = Shape(Base, BaseSize, stored, BaseSize, 0, j)
  <2> TAKE j \in Idx
  <2>1. data'[j] = Base[j]
    BY <1>2, <1>3, RotateEffect DEF Base, Due
  <2>2. j \in Nat /\ (j >= BaseSize => Base[j] = 0)
    BY <1>1, BaseFacts DEF Idx
  <2> QED BY <1>1, <2>1, <2>2, BaseFacts DEF Shape
<1>7. InTrim'
  BY <1>1, <1>4, <1>5, <1>6, Frozen, BaseFacts DEF InTrim
<1> QED BY <1>3, <1>4, <1>7 DEF LoopInv, InRotate, InShift, InGrow, InInsert

\* The loop that removes keys goes on as long as there are too many.
LEMMA TrimLoop == RepoInv /\ TrimKeys => LoopInv'
<1> SUFFICES ASSUME RepoInv, TrimKeys PROVE LoopInv'
  OBVIOUS
<1> USE ConstantsAssumption
<1>1. pc = "trim" /\ pc \in Loops /\ Exists(read)
  BY DEF TrimKeys, Loops, RepoInv, LoopInv
<1>2. UNCHANGED <<read, num, stored, dueUpTo, data, gen>>
  BY DEF TrimKeys, Unchanged, envVars
<1>3. PICK k \in 1..(MaxKeys + 1) :
        /\ k <= BaseSize /\ (k < BaseSize => num <= k) /\ gen = stored + One
        /\ ~changed => k = BaseSize
        /\ \A j \in Idx : data[j] = Shape(Base, BaseSize, stored, k, 0, j)
  BY <1>1 DEF RepoInv, LoopInv, InTrim
<1>4. num \in Idx /\ 0 \in 0..MaxKeys /\ num \in MinKeys..MaxKeys
  BY <1>1, BaseFacts DEF Idx
<1>5. data[num] # 0 <=> num < k
  BY <1>1, <1>3, <1>4, ShapeFacts
<1>6. CASE data[num] # 0 /\ changed' = TRUE /\ i' = 1 /\ pc' = "shift"
  <2>1. num < k /\ i' \in 1..(k - 1) /\ changed'
    BY <1>4, <1>5, <1>6
  <2>2. \A j \in Idx : j < 1 => data[j] = Shape(Base, BaseSize, stored, k - 1, 0, j)
    BY <1>3 DEF Shape, Idx
  <2>3. InShift'
    BY <1>2, <1>3, <1>6, <2>1, <2>2, Frozen DEF InShift
  <2> QED BY <1>1, <1>2, <1>6, <2>3 DEF LoopInv, InRotate, InTrim, InGrow, InInsert
<1>7. CASE data[num] = 0 /\ UNCHANGED <<changed, i>> /\ pc' = "grow"
  <2>1. k <= num /\ k \in 1..MaxKeys
    BY <1>4, <1>5, <1>7
  <2>2. (k = num /\ 0 = 0) \/ (k = BaseSize /\ ~Due)
    BY <1>1, <1>3, <2>1, BaseFacts
  <2>3. /\ k <= BaseSize /\ k + 0 <= num /\ (pc' = "save" => k + 0 = num)
        /\ (k = num /\ 0 = 0) \/ (k = BaseSize /\ ~Due)
        /\ gen = stored + One + 0
        /\ ~changed => k = BaseSize /\ 0 = 0
        /\ \A j \in Idx : data[j] = Shape(Base, BaseSize, stored, k, 0, j)
    BY <1>1, <1>3, <1>7, <2>1, <2>2, BaseFacts
  <2>4. InGrow'
    BY <1>2, <1>4, <1>7, <2>1, <2>3, Frozen DEF InGrow
  <2> QED BY <1>1, <1>2, <1>7, <2>4 DEF LoopInv, InRotate, InTrim, InShift, InInsert
<1> QED BY <1>6, <1>7 DEF TrimKeys

\* Moving the entries down, one by one, removes the entry at index 1.
LEMMA ShiftLoop == RepoInv /\ ShiftDown => LoopInv'
<1> SUFFICES ASSUME RepoInv, ShiftDown PROVE LoopInv'
  OBVIOUS
<1> USE ConstantsAssumption
<1>1. pc = "shift" /\ pc \in Loops /\ Exists(read) /\ TypeOK /\ FlowInv
  BY DEF ShiftDown, Loops, RepoInv, LoopInv
<1>2. UNCHANGED <<read, num, stored, dueUpTo, gen, changed>> /\ i' = i + 1
  BY <1>1, ShiftEffect
<1>3. PICK k \in 1..(MaxKeys + 1) :
        /\ num < k /\ k <= BaseSize /\ gen = stored + One
        /\ i \in 1..(k - 1) /\ changed
        /\ \A j \in Idx : j < i => data[j] = Shape(Base, BaseSize, stored, k - 1, 0, j)
        /\ \A j \in Idx : j > i => data[j] = Shape(Base, BaseSize, stored, k, 0, j)
        /\ i > 1 => data[i] = 0
  BY <1>1 DEF RepoInv, LoopInv, InShift
<1>4. /\ num \in MinKeys..MaxKeys /\ BaseSize \in MinKeys..(MaxKeys + 1) /\ 0 \in 0..MaxKeys
      /\ k - 1 \in 1..(MaxKeys + 1) /\ i \in Idx /\ 3 < k
  BY <1>1, <1>3, BaseFacts DEF Idx
<1>5. ASSUME NEW j \in Idx, j > i PROVE data[j] # 0 <=> j < k
  <2>1. data[j] = Shape(Base, BaseSize, stored, k, 0, j)
    BY <1>3, <1>5
  <2> QED BY <1>1, <1>3, <1>4, <2>1, ShapeFacts
<1>6. CASE /\ i + 1 \in Idx /\ data[i + 1] # 0 /\ pc' = "shift"
           /\ \A j \in Idx :
                data'[j] = IF j = i + 1 THEN 0 ELSE IF j = i THEN data[i + 1] ELSE data[j]
  <2>1. i + 1 < k
    BY <1>3, <1>5, <1>6
  <2>2. data[i + 1] = Shape(Base, BaseSize, stored, k - 1, 0, i)
    <3>1. data[i + 1] = Shape(Base, BaseSize, stored, k, 0, i + 1)
      BY <1>3, <1>4, <1>6
    <3>2. (i + 1) - 0 + BaseSize - k = i - 0 + BaseSize - (k - 1)
      BY <1>3, <1>4
    <3> QED BY <1>3, <1>4, <2>1, <3>1, <3>2 DEF Shape
  <2>3. \A j \in Idx : j < i + 1 => data'[j] = Shape(Base, BaseSize, stored, k - 1, 0, j)
    BY <1>3, <1>6, <2>2 DEF Idx
  <2>4. \A j \in Idx : j > i + 1 => data'[j] = Shape(Base, BaseSize, stored, k, 0, j)
    BY <1>3, <1>6, <1>4 DEF Idx
  <2>5. i + 1 \in 1..(k - 1) /\ data'[i + 1] = 0
    BY <1>3, <1>4, <1>6, <2>1
  <2>6. InShift'
    BY <1>2, <1>3, <1>6, <2>3, <2>4, <2>5, Frozen DEF InShift
  <2> QED BY <1>1, <1>2, <1>6, <2>6 DEF LoopInv, InRotate, InTrim, InGrow, InInsert
<1>7. CASE (i + 1 \in Idx => data[i + 1] = 0) /\ pc' = "trim" /\ data' = data
  <2>1. i = k - 1
    BY <1>3, <1>4, <1>5, <1>7 DEF Idx
  <2>2. \A j \in Idx : data[j] = Shape(Base, BaseSize, stored, k - 1, 0, j)
    <3> TAKE j \in Idx
    <3>1. CASE j < i
      BY <1>3, <3>1
    <3>2. CASE j = i
      BY <1>3, <1>4, <2>1, <3>2 DEF Shape
    <3>3. CASE j > i
      BY <1>3, <1>4, <2>1, <3>3 DEF Shape, Idx
    <3> QED BY <1>4, <3>1, <3>2, <3>3 DEF Idx
  <2>3. k - 1 <= BaseSize /\ num <= k - 1
    BY <1>3, <1>4
  <2>4. InTrim'
    BY <1>2, <1>3, <1>4, <1>7, <2>2, <2>3, Frozen DEF InTrim
  <2> QED BY <1>1, <1>2, <1>7, <2>4 DEF LoopInv, InRotate, InShift, InGrow, InInsert
<1> QED BY <1>1, <1>6, <1>7, ShiftEffect

\* The loop that adds keys starts only if none has to be removed.
LEMMA GrowLoop == RepoInv /\ GrowKeys => LoopInv'
<1> SUFFICES ASSUME RepoInv, GrowKeys PROVE LoopInv'
  OBVIOUS
<1> USE ConstantsAssumption
<1>1. pc = "grow" /\ pc \in Loops /\ Exists(read)
  BY DEF GrowKeys, Loops, RepoInv, LoopInv
<1>2. UNCHANGED <<read, num, stored, dueUpTo, data>>
  BY DEF GrowKeys, Unchanged, envVars
<1>3. PICK k \in 1..MaxKeys, g \in 0..MaxKeys :
        /\ k <= BaseSize /\ k + g <= num
        /\ (k = num /\ g = 0) \/ (k = BaseSize /\ ~Due)
        /\ gen = stored + One + g
        /\ ~changed => k = BaseSize /\ g = 0
        /\ \A j \in Idx : data[j] = Shape(Base, BaseSize, stored, k, g, j)
  BY <1>1 DEF RepoInv, LoopInv, InGrow
<1>4. num \in MinKeys..MaxKeys /\ num - 1 \in Idx /\ k \in 1..(MaxKeys + 1)
  BY <1>1, <1>3, BaseFacts DEF Idx
<1>5. data[num - 1] # 0 <=> num - 1 < k + g
  BY <1>1, <1>3, <1>4, ShapeFacts
<1>6. CASE data[num - 1] # 0 /\ pc' = "save" /\ UNCHANGED <<changed, i, val, gen>>
  <2>1. k + g = num
    BY <1>3, <1>4, <1>5, <1>6
  <2>2. InGrow'
    BY <1>2, <1>3, <1>6, <2>1, Frozen DEF InGrow
  <2> QED BY <1>1, <1>2, <1>6, <2>2 DEF LoopInv, InRotate, InTrim, InShift, InInsert
<1>7. CASE /\ data[num - 1] = 0 /\ gen < MaxKey
           /\ changed' = TRUE /\ i' = 1 /\ val' = gen + 1 /\ gen' = gen + 1
           /\ pc' = "insert"
  <2>1. k + g < num /\ k = BaseSize /\ ~Due /\ One = 0
    BY <1>1, <1>3, <1>4, <1>5, <1>7, BaseFacts
  <2>2. g + 1 \in 1..MaxKeys /\ k + (g + 1) <= num /\ gen' = stored + (g + 1)
        /\ i' \in 1..(k + (g + 1) - 1) /\ (g + 1) - 1 = g /\ changed'
    <3>1. k \in MinKeys..MaxKeys /\ gen = stored + g /\ stored \in Nat /\ changed'
      BY <1>1, <1>3, <1>7, <2>1, BaseFacts
    <3>2. g + 1 \in 1..MaxKeys /\ k + (g + 1) <= num /\ (g + 1) - 1 = g
      BY <1>3, <1>4, <2>1
    <3>3. gen' = stored + (g + 1) /\ i' \in 1..(k + (g + 1) - 1)
      BY <1>3, <1>7, <3>1
    <3> QED BY <3>1, <3>2, <3>3
  <2>3. \A j \in Idx : j < 1 => data[j] = Shape(Base, BaseSize, stored, k, g + 1, j)
    BY <1>3 DEF Shape, Idx
  <2>4. gen + 1 = Shape(Base, BaseSize, stored, k, g + 1, 1)
    BY <1>1, <1>3, <2>1, <2>2, BaseFacts DEF Shape
  <2>5. InInsert'
    BY <1>2, <1>3, <1>7, <2>1, <2>2, <2>3, <2>4, Frozen DEF InInsert
  <2> QED BY <1>1, <1>2, <1>7, <2>5 DEF LoopInv, InRotate, InTrim, InShift, InGrow
<1> QED BY <1>6, <1>7 DEF GrowKeys

\* Pushing the entries up, one by one, adds the new key at index 1.
LEMMA InsertLoop == RepoInv /\ InsertKey => LoopInv'
<1> SUFFICES ASSUME RepoInv, InsertKey PROVE LoopInv'
  OBVIOUS
<1> USE ConstantsAssumption
<1>1. pc = "insert" /\ pc \in Loops /\ Exists(read) /\ TypeOK /\ FlowInv
  BY DEF InsertKey, Loops, RepoInv, LoopInv
<1>2. UNCHANGED <<read, num, stored, dueUpTo, gen, changed>> /\ i' = i + 1 /\ val' = data[i]
  BY <1>1, InsertEffect
<1>3. PICK k \in 1..MaxKeys, g \in 1..MaxKeys :
        /\ k = BaseSize /\ ~Due /\ k + g <= num /\ gen = stored + g
        /\ i \in 1..(k + g - 1) /\ changed
        /\ \A j \in Idx : j < i => data[j] = Shape(Base, BaseSize, stored, k, g, j)
        /\ \A j \in Idx : j >= i => data[j] = Shape(Base, BaseSize, stored, k, g - 1, j)
        /\ val = Shape(Base, BaseSize, stored, k, g, i)
  BY <1>1 DEF RepoInv, LoopInv, InInsert
<1>4. /\ num \in MinKeys..MaxKeys /\ stored \in Nat /\ One = 0
      /\ i \in Idx /\ k \in 1..(MaxKeys + 1) /\ g - 1 \in 0..MaxKeys
      /\ BaseSize \in MinKeys..(MaxKeys + 1)
  BY <1>1, <1>3, BaseFacts DEF Idx
<1>5. data[i] = Shape(Base, BaseSize, stored, k, g - 1, i)
  BY <1>3, <1>4
<1>6. data[i] # 0 <=> i < k + (g - 1)
  BY <1>1, <1>3, <1>4, <1>5, ShapeFacts
<1>7. \A j \in Idx : data'[j] = IF j = i THEN val ELSE data[j]
  BY <1>1, InsertEffect
<1>8. \A j \in Idx : j < i + 1 => data'[j] = Shape(Base, BaseSize, stored, k, g, j)
  BY <1>3, <1>4, <1>7 DEF Idx
<1>9. CASE data[i] = 0
  <2>1. i = k + g - 1 /\ pc' = "grow"
    BY <1>1, <1>3, <1>4, <1>6, <1>9, InsertEffect
  <2>2. \A j \in Idx : data'[j] = Shape(Base, BaseSize, stored, k, g, j)
    <3> TAKE j \in Idx
    <3>1. CASE j < i + 1
      BY <1>8, <3>1
    <3>2. CASE j >= i + 1
      <4>1. data'[j] = Shape(Base, BaseSize, stored, k, g - 1, j)
        BY <1>3, <1>4, <1>7, <3>2 DEF Idx
      <4> QED BY <1>3, <1>4, <2>1, <3>2, <4>1 DEF Shape, Idx
    <3> QED BY <1>4, <3>1, <3>2 DEF Idx
  <2>3. /\ k <= BaseSize /\ k + g <= num /\ (pc' = "save" => k + g = num)
        /\ (k = num /\ g = 0) \/ (k = BaseSize /\ ~Due)
        /\ gen = stored + One + g /\ changed
    BY <1>3, <1>4, <2>1
  <2>4. g \in 0..MaxKeys
    BY <1>3
  <2>5. InGrow'
    BY <1>2, <2>1, <2>2, <2>3, <2>4, Frozen DEF InGrow
  <2> QED BY <1>1, <1>2, <2>1, <2>5 DEF LoopInv, InRotate, InTrim, InShift, InInsert
<1>10. CASE data[i] # 0
  <2>1. i + 1 \in 1..(k + g - 1) /\ pc' = "insert"
    BY <1>1, <1>3, <1>4, <1>6, <1>10, InsertEffect
  <2>2. data[i] = Shape(Base, BaseSize, stored, k, g, i + 1)
    <3>1. CASE i <= g - 1
      <4>1. stored + (g - 1) + 1 - i = stored + g + 1 - (i + 1)
        BY <1>3, <1>4
      <4> QED BY <1>3, <1>4, <1>5, <3>1, <4>1 DEF Shape
    <3>2. CASE i > g - 1
      <4>1. i - (g - 1) + BaseSize - k = (i + 1) - g + BaseSize - k
        BY <1>3, <1>4
      <4> QED BY <1>3, <1>4, <1>5, <2>1, <3>2, <4>1 DEF Shape
    <3> QED BY <1>3, <1>4, <3>1, <3>2
  <2>3. \A j \in Idx : j >= i + 1 => data'[j] = Shape(Base, BaseSize, stored, k, g - 1, j)
    BY <1>3, <1>4, <1>7 DEF Idx
  <2>4. InInsert'
    BY <1>2, <1>3, <1>8, <2>1, <2>2, <2>3, Frozen DEF InInsert
  <2> QED BY <1>1, <1>2, <2>1, <2>4 DEF LoopInv, InRotate, InTrim, InShift, InGrow
<1> QED BY <1>9, <1>10

\* What becomes of the a keys d, e being the m keys that are saved and s the
\* number of keys generated before: a rotation, a removal, an addition.
Turned(d, e, m, s) ==
  \A j \in Idx : e[j] = IF j = 0 THEN s + 1
                        ELSE IF j < m - 1 THEN d[j + 1] ELSE IF j = m - 1 THEN d[0] ELSE 0
Cut(d, e, a, m) ==
  \A j \in Idx : e[j] = IF j = 0 THEN d[0] ELSE IF j < m THEN d[j + a - m] ELSE 0
Extended(d, e, a, m, s) ==
  \A j \in Idx : e[j] = IF j = 0 THEN d[0]
                        ELSE IF j <= m - a THEN s + (m - a) + 1 - j
                        ELSE IF j < m THEN d[j - (m - a)] ELSE 0

\* What the loops have made of the Secret that was read, once they are over.
LEMMA SavedKeys ==
  ASSUME RepoInv, pc = "save"
  PROVE  /\ num \in MinKeys..MaxKeys /\ Size(read.keys) \in MinKeys..MaxKeys /\ Exists(read)
         /\ Size(data) = num /\ Whole(data) /\ \A j \in Idx : data[j] <= gen
         /\ gen >= stored
         /\ \/ Due /\ Size(read.keys) = num /\ gen = stored + 1 /\ changed
               /\ Turned(read.keys, data, num, stored)
            \/ /\ ~Due /\ num <= Size(read.keys) /\ gen = stored
               /\ Cut(read.keys, data, Size(read.keys), num)
               /\ ~changed => Size(read.keys) = num
            \/ /\ ~Due /\ Size(read.keys) < num /\ gen = stored + (num - Size(read.keys)) /\ changed
               /\ Extended(read.keys, data, Size(read.keys), num, stored)
<1> USE ConstantsAssumption
<1>1. pc \in Loops /\ Exists(read)
  BY DEF Loops, RepoInv, LoopInv
<1>2. PICK k \in 1..MaxKeys, g \in 0..MaxKeys :
        /\ k <= BaseSize /\ k + g = num
        /\ (k = num /\ g = 0) \/ (k = BaseSize /\ ~Due)
        /\ gen = stored + One + g
        /\ ~changed => k = BaseSize /\ g = 0
        /\ \A j \in Idx : data[j] = Shape(Base, BaseSize, stored, k, g, j)
  BY DEF RepoInv, LoopInv, InGrow
<1> DEFINE R == read.keys
           a == Size(R)
<1>3. /\ num \in MinKeys..MaxKeys /\ a \in MinKeys..MaxKeys /\ stored \in Nat
      /\ One \in {0, 1} /\ (Due <=> One = 1) /\ BaseSize = a + One
      /\ (Due => a = num) /\ k \in 1..(MaxKeys + 1)
  BY <1>1, <1>2, BaseFacts DEF BaseSize
<1>4. \A j \in Idx : Base[j] = IF Due /\ j = 0 THEN stored + 1
                               ELSE IF Due /\ j = num THEN R[0] ELSE R[j]
  BY DEF Base
<1>5. g = 0 \/ ~Due
  BY <1>2
<1>6. \A j \in Idx : (data[j] # 0 <=> j < num) /\ data[j] <= gen
  BY <1>1, <1>2, <1>3, <1>5, ShapeFacts
<1>7. Size(data) = num /\ Whole(data)
  <2>1. data \in Data /\ num \in 0..(MaxKeys + 1)
    BY <1>3 DEF RepoInv, TypeOK
  <2> QED BY <1>6, <2>1, SizeOf
<1>8. gen >= stored
  BY <1>2, <1>3
<1>9. \A j \in Idx : j \in 0..MaxKeys
  BY DEF Idx
<1>10. 0 \in Idx
  BY DEF Idx
<1> HIDE DEF R, a
<1>11. CASE Due
  <2>1. k = num /\ g = 0 /\ a = num /\ BaseSize = num + 1 /\ gen = stored + 1 /\ changed
    BY <1>2, <1>3, <1>11
  <2>2. Turned(R, data, num, stored)
    <3> SUFFICES ASSUME NEW j \in Idx
        PROVE data[j] = IF j = 0 THEN stored + 1
                        ELSE IF j < num - 1 THEN R[j + 1] ELSE IF j = num - 1 THEN R[0] ELSE 0
      BY DEF Turned
    <3>1. data[j] = IF j = 0 THEN Base[0] ELSE IF j < num THEN Base[j + 1] ELSE 0
      <4>1. j - 0 + BaseSize - k = j + 1
        BY <1>9, <1>3, <2>1
      <4> QED BY <1>2, <1>9, <2>1, <4>1 DEF Shape
    <3>2. j < num => j + 1 \in Idx
      BY <1>3, <1>9 DEF Idx
    <3> QED BY <1>3, <1>4, <1>9, <1>10, <1>11, <3>1, <3>2
  <2> QED BY <1>1, <1>3, <1>6, <1>7, <1>8, <1>11, <2>1, <2>2 DEF R, a
<1>12. CASE ~Due /\ k = num /\ g = 0
  <2>1. BaseSize = a /\ num <= a /\ gen = stored /\ (~changed => a = num)
    BY <1>2, <1>3, <1>12
  <2>2. Cut(R, data, a, num)
    <3> SUFFICES ASSUME NEW j \in Idx
        PROVE data[j] = IF j = 0 THEN R[0] ELSE IF j < num THEN R[j + a - num] ELSE 0
      BY DEF Cut
    <3>1. j - 0 + BaseSize - k = j + a - num /\ (j < num => j + a - num \in Idx)
      BY <1>3, <1>9, <1>12, <2>1 DEF Idx
    <3>2. data[j] = IF j = 0 THEN Base[0] ELSE IF j < num THEN Base[j + a - num] ELSE 0
      BY <1>2, <1>9, <1>12, <3>1 DEF Shape
    <3> QED BY <1>4, <1>10, <1>12, <3>1, <3>2
  <2> QED BY <1>1, <1>3, <1>6, <1>7, <1>8, <1>12, <2>1, <2>2 DEF R, a
<1>13. CASE ~Due /\ k = BaseSize /\ g # 0
  <2>1. k = a /\ g = num - a /\ a < num /\ gen = stored + (num - a) /\ changed
    BY <1>2, <1>3, <1>13
  <2>2. Extended(R, data, a, num, stored)
    <3> SUFFICES ASSUME NEW j \in Idx
        PROVE data[j] = IF j = 0 THEN R[0]
                        ELSE IF j <= num - a THEN stored + (num - a) + 1 - j
                        ELSE IF j < num THEN R[j - (num - a)] ELSE 0
      BY DEF Extended
    <3>1. j - g + BaseSize - k = j - g /\ (g < j => j - g \in Idx)
      BY <1>2, <1>3, <1>9, <1>13 DEF Idx
    <3>2. data[j] = IF j = 0 THEN Base[0] ELSE IF j <= g THEN stored + g + 1 - j
                    ELSE IF j < num THEN Base[j - g] ELSE 0
      BY <1>2, <3>1 DEF Shape
    <3> QED BY <1>3, <1>4, <1>9, <1>10, <1>13, <2>1, <3>1, <3>2
  <2> QED BY <1>1, <1>3, <1>6, <1>7, <1>8, <1>13, <2>1, <2>2 DEF R, a
<1>14. CASE ~Due /\ k = BaseSize /\ g = 0
  BY <1>2, <1>12, <1>14
<1> QED BY <1>2, <1>11, <1>12, <1>13, <1>14

\* A Secret that is missing has nothing that could be wrong.
LEMMA NothingSound == ASSUME NEW b \in Nat PROVE Sound(NoSecret, b)
<1> USE ConstantsAssumption
<1>1. \A j \in Idx : NoData[j] = 0 /\ j >= 0
  BY DEF NoData, Idx
<1>2. Whole(NoData)
  <2>1. 0 \in 0..(MaxKeys + 1) /\ NoData \in Data
    BY Empty
  <2>2. \A j \in Idx : NoData[j] # 0 <=> j < 0
    BY <1>1 DEF Idx
  <2> QED BY <2>1, <2>2, SizeOf
<1>3. NoSecret.keys = NoData
  BY DEF NoSecret
<1> QED BY <1>1, <1>2, <1>3, Empty DEF Sound

\* A created Secret has the keys that are asked for, in the order of their generation.
LEMMA NewSound ==
  ASSUME TypeOK, num \in MinKeys..MaxKeys, stored + num <= MaxKey,
         NEW s, s.keys = NewKeys
  PROVE  Sound(s, stored + num) /\ Exists(s) /\ Size(s.keys) = num /\ Pristine(s.keys)
<1> USE ConstantsAssumption
<1>1. stored \in Nat /\ 0 \in Idx
  BY DEF TypeOK, Idx
<1>2. NewKeys \in Data /\ \A j \in Idx : NewKeys[j] = IF j < num THEN stored + j + 1 ELSE 0
  BY <1>1, NewKeysTyped
<1>3. \A j \in Idx : (NewKeys[j] # 0 <=> j < num) /\ NewKeys[j] <= stored + num
  BY <1>1, <1>2 DEF Idx
<1>4. Size(NewKeys) = num /\ Whole(NewKeys)
  BY <1>2, <1>3, SizeOf
<1>5. \A j \in Present(NewKeys) : NewKeys[j] = NewKeys[0] + j
  BY <1>1, <1>2, <1>3 DEF Present, Idx
<1> QED BY <1>1, <1>3, <1>4, <1>5 DEF Sound, Exists, Pristine

\* What holds of a Secret goes on to hold when more keys have been generated.
LEMMA SoundLater ==
  ASSUME NEW s \in Secrets, NEW b \in Nat, NEW c \in Nat, b <= c, Sound(s, b)
  PROVE  Sound(s, c)
<1>1. \A j \in Idx : s.keys[j] \in Nat /\ s.keys[j] <= b
  BY ConstantsAssumption DEF Sound, Secrets, Data
<1> QED BY <1>1 DEF Sound

\* The operator starts with no Secret.
LEMMA RepoInit == ~Combine /\ Init => RepoInv
<1> SUFFICES ASSUME ~Combine, Init PROVE RepoInv
  OBVIOUS
<1>1. /\ secret = NoSecret /\ cache = NoSecret /\ read = NoSecret /\ stored = 0 /\ pc = "idle"
  BY DEF Init
<1>2. CopiesInv
  BY <1>1, NothingSound DEF CopiesInv
<1>3. RotationInv /\ CreationInv
  BY <1>1, Empty DEF RotationInv, CreationInv, Loops
<1>4. LoopInv
  BY <1>1 DEF LoopInv, InRotate, InTrim, InShift, InGrow, InInsert, Loops
<1> QED BY <1>2, <1>3, <1>4, TypeInit DEF RepoInv

\* The steps that leave Secret and cache alone keep what is known of them.
LEMMA QuietStep ==
  ASSUME RepoInv, UNCHANGED <<n, dueUpTo, secret, cache, stored>>,
         pc' # "create", Sound(read', stored),
         pc' \in Loops => Exists(cache) /\ (IsDue(read') => Size(read'.keys) = num')
  PROVE  CopiesInv' /\ RotationInv' /\ CreationInv'
<1>1. CopiesInv'
  BY DEF RepoInv, CopiesInv
<1>2. RotationInv'
  BY DEF RepoInv, RotationInv, IsDue
<1>3. CreationInv'
  BY DEF RepoInv, CreationInv, IsDue
<1> QED BY <1>1, <1>2, <1>3

\* When ensureFernetKeys returns, nothing is in memory.
LEMMA ReturnRepo ==
  ASSUME NEW then \in {"idle", "deploy"}, NEW m, Return(then, m)
  PROVE  /\ pc' = then /\ pc' \notin Loops /\ pc' # "create" /\ num' = m /\ read' = NoSecret
         /\ LoopInv'
<1>1. pc' = then /\ num' = m /\ read' = NoSecret /\ pc' \notin Loops /\ pc' # "create"
  BY DEF Return, Loops
<1> QED BY <1>1 DEF LoopInv, InRotate, InTrim, InShift, InGrow, InInsert, Loops

\* Every step of ensureFernetKeys, and of all around it, keeps the invariant.
LEMMA RepoStep == RepoInv /\ [Next]_vars => RepoInv'
<1> SUFFICES ASSUME RepoInv, [Next]_vars PROVE RepoInv'
  OBVIOUS
<1> USE ConstantsAssumption
<1>1. TypeOK' /\ FlowInv' /\ ~Combine /\ TypeOK /\ FlowInv
  BY TypeStep DEF RepoInv
<1> SUFFICES CopiesInv' /\ RotationInv' /\ CreationInv' /\ LoopInv'
  BY <1>1 DEF RepoInv
<1>t. /\ stored \in Nat /\ stored' \in Nat /\ dueUpTo \in Nat
      /\ secret \in Secrets /\ cache \in Secrets /\ read \in Secrets
  <2>1. stored \in Nat /\ dueUpTo \in Nat /\ secret \in Secrets /\ cache \in Secrets /\ read \in Secrets
    BY <1>1, TypeParts
  <2>2. stored' \in Nat
    BY <1>1 DEF TypeOK
  <2> QED BY <2>1, <2>2
<1>2. ASSUME pc \in Loops, pc' \in Loops, LoopInv',
             UNCHANGED <<n, dueUpTo, secret, cache, stored, read, num>>
      PROVE  CopiesInv' /\ RotationInv' /\ CreationInv' /\ LoopInv'
  <2>1. Sound(read', stored) /\ Exists(cache) /\ (IsDue(read') => Size(read'.keys) = num')
    BY <1>2 DEF RepoInv, CopiesInv, CreationInv, RotationInv
  <2>2. pc' # "create"
    BY <1>2 DEF Loops
  <2> QED BY <1>2, <2>1, <2>2, QuietStep
<1>3. ASSUME UNCHANGED <<n, dueUpTo, secret, cache, stored>>,
             NEW then \in {"idle", "deploy"}, NEW m, Return(then, m)
      PROVE  CopiesInv' /\ RotationInv' /\ CreationInv' /\ LoopInv'
  BY <1>3, <1>t, ReturnRepo, NothingSound, QuietStep
<1>4. CASE EnsureFernetKeys
  <2>1. /\ UNCHANGED <<n, dueUpTo, secret, cache, stored>>
        /\ read' = cache /\ data' = cache.keys /\ num' = n /\ ~changed' /\ gen' = stored
        /\ pc' = IF Exists(cache) THEN "rotate" ELSE "create"
    BY <1>4 DEF EnsureFernetKeys, Unchanged, envVars
  <2>2. CopiesInv'
    BY <2>1 DEF RepoInv, CopiesInv
  <2>3. RotationInv'
    BY <2>1 DEF RepoInv, RotationInv, IsDue, Loops
  <2>4. CreationInv'
    BY <2>1 DEF RepoInv, CreationInv, IsDue, Loops
  <2>5. LoopInv'
    BY <2>1 DEF LoopInv, InRotate, InTrim, InShift, InGrow, InInsert, Loops
  <2> QED BY <2>2, <2>3, <2>4, <2>5
<1>5. CASE CreateKeys
  <2>1. UNCHANGED <<n, dueUpTo, cache>> /\ pc = "create" /\ num \in MinKeys..MaxKeys
    BY <1>1, <1>5 DEF CreateKeys, Unchanged, envVars, FlowInv
  <2>2. ASSUME stored' = stored + num, stored + num <= MaxKey, secret'.keys = NewKeys,
               ~IsDue(secret)', Return("deploy", num)
        PROVE  CopiesInv' /\ RotationInv' /\ CreationInv' /\ LoopInv'
    <3>1. Sound(secret', stored') /\ Exists(secret') /\ Pristine(secret'.keys)
      BY <1>1, <2>1, <2>2, NewSound
    <3>2. /\ pc' = "deploy" /\ pc' \notin Loops /\ pc' # "create" /\ read' = NoSecret
          /\ LoopInv'
      BY <2>2, ReturnRepo
    <3>3. Sound(cache', stored')
      <4>1. stored <= stored' /\ Sound(cache, stored)
        BY <1>t, <2>1, <2>2 DEF RepoInv, CopiesInv
      <4> QED BY <1>t, <2>1, <4>1, SoundLater
    <3>4. CopiesInv'
      BY <1>t, <3>1, <3>2, <3>3, NothingSound DEF CopiesInv
    <3>5. RotationInv'
      BY <2>1, <2>2, <3>2 DEF RepoInv, RotationInv, IsDue
    <3>6. CreationInv'
      BY <2>2, <3>1, <3>2 DEF CreationInv
    <3> QED BY <3>2, <3>4, <3>5, <3>6
  <2>3. CASE /\ ~Exists(secret)
             /\ secret' = [keys |-> NewKeys, rotatedat |-> dueUpTo + 1]
             /\ stored' = stored + num /\ Return("deploy", num)
    <3>1. stored + num <= MaxKey /\ secret'.keys = NewKeys
      BY <1>1, <2>1, <2>3 DEF FlowInv
    <3>2. ~IsDue(secret)'
      BY <1>t, <2>1, <2>3 DEF IsDue
    <3> QED BY <2>2, <2>3, <3>1, <3>2
  <2>4. CASE Replaced /\ secret' = [secret EXCEPT !.keys = NewKeys]
             /\ stored' = stored + num /\ Return("deploy", num)
    <3>1. stored + num <= MaxKey /\ Exists(secret)
      BY <2>4 DEF Replaced
    <3>2. secret'.keys = NewKeys /\ secret'.rotatedat = secret.rotatedat
      BY <1>t, <2>4 DEF Secrets
    <3>3. ~IsDue(secret)
      BY <2>1, <3>1 DEF RepoInv, CreationInv
    <3>4. ~IsDue(secret)'
      BY <2>1, <3>2, <3>3 DEF IsDue
    <3> QED BY <2>2, <2>4, <3>1, <3>2, <3>4
  <2>5. CASE Return("idle", 0) /\ UNCHANGED <<secret, stored>>
    BY <2>1, <2>5, <1>3
  <2> QED BY <1>5, <2>3, <2>4, <2>5 DEF CreateKeys
<1>6. CASE RotateKeys
  <2>1. pc \in Loops /\ pc' \in Loops /\ UNCHANGED <<n, dueUpTo, secret, cache, stored, read, num>>
    BY <1>1, <1>6, RotateEffect DEF RotateKeys, Loops
  <2> QED BY <1>2, <1>6, <2>1, RotateLoop
<1>7. CASE TrimKeys
  <2>1. pc \in Loops /\ pc' \in Loops /\ UNCHANGED <<n, dueUpTo, secret, cache, stored, read, num>>
    BY <1>7 DEF TrimKeys, Loops, Unchanged, envVars
  <2> QED BY <1>2, <1>7, <2>1, TrimLoop
<1>8. CASE ShiftDown
  <2>1. pc \in Loops /\ pc' \in Loops /\ UNCHANGED <<n, dueUpTo, secret, cache, stored, read, num>>
    BY <1>1, <1>8, ShiftEffect DEF ShiftDown, Loops
  <2> QED BY <1>2, <1>8, <2>1, ShiftLoop
<1>9. CASE GrowKeys
  <2>1. pc \in Loops /\ pc' \in Loops /\ UNCHANGED <<n, dueUpTo, secret, cache, stored, read, num>>
    BY <1>9 DEF GrowKeys, Loops, Unchanged, envVars
  <2> QED BY <1>2, <1>9, <2>1, GrowLoop
<1>10. CASE InsertKey
  <2>1. pc \in Loops /\ pc' \in Loops /\ UNCHANGED <<n, dueUpTo, secret, cache, stored, read, num>>
    BY <1>1, <1>10, InsertEffect DEF InsertKey, Loops
  <2> QED BY <1>2, <1>10, <2>1, InsertLoop
<1>11. CASE SaveKeys
  <2>1. UNCHANGED <<n, dueUpTo, cache>> /\ pc = "save" /\ pc \in Loops
    BY <1>11 DEF SaveKeys, Unchanged, envVars, Loops
  <2>2. CASE /\ changed /\ secret = read
             /\ secret' = [keys |-> data, rotatedat |-> dueUpTo + 1]
             /\ stored' = gen /\ Return("deploy", num)
    <3>1. /\ num \in MinKeys..MaxKeys /\ Size(data) = num /\ Whole(data)
          /\ (\A j \in Idx : data[j] <= gen) /\ gen >= stored
      BY <2>1, SavedKeys
    <3>2. secret'.keys = data /\ ~IsDue(secret)'
      BY <1>t, <2>1, <2>2 DEF IsDue
    <3>3. Sound(secret', stored') /\ Exists(secret')
      <4>1. data[0] # 0
        BY <1>1, <2>1 DEF FlowInv
      <4> QED BY <2>2, <3>1, <3>2, <4>1 DEF Sound, Exists
    <3>4. /\ pc' = "deploy" /\ pc' \notin Loops /\ pc' # "create" /\ read' = NoSecret
          /\ LoopInv'
      BY <2>2, ReturnRepo
    <3>5. Sound(cache', stored')
      <4>1. stored <= stored' /\ Sound(cache, stored)
        BY <1>t, <2>1, <2>2, <3>1 DEF RepoInv, CopiesInv
      <4> QED BY <1>t, <2>1, <4>1, SoundLater
    <3>6. CopiesInv'
      BY <1>t, <3>3, <3>4, <3>5, NothingSound DEF CopiesInv
    <3>7. RotationInv'
      BY <2>1, <3>2, <3>4 DEF RepoInv, RotationInv, IsDue
    <3>8. CreationInv'
      BY <2>1, <3>3, <3>4 DEF RepoInv, CreationInv
    <3> QED BY <3>4, <3>6, <3>7, <3>8
  <2>3. CASE UNCHANGED <<secret, stored>> /\ (Return("deploy", num) \/ Return("idle", 0))
    BY <2>1, <2>3, <1>3
  <2> QED BY <1>11, <2>2, <2>3 DEF SaveKeys
<1>12. CASE Deploy
  BY <1>12, <1>3 DEF Deploy, envVars
<1>13. CASE Abort
  BY <1>13, <1>3 DEF Abort, Unchanged, envVars
<1>14. ASSUME UNCHANGED memVars, stored' = stored, dueUpTo' = dueUpTo PROVE LoopInv'
  <2>1. UNCHANGED <<pc, read, data, num, changed, i, val, gen>>
    BY <1>14 DEF memVars
  <2>2. Due' = Due /\ One' = One /\ Base' = Base /\ BaseSize' = BaseSize
    BY <1>14, <2>1, Frozen
  <2>3. LoopInv
    BY DEF RepoInv
  <2> QED BY <1>14, <2>1, <2>2, <2>3 DEF LoopInv, InRotate, InTrim, InShift, InGrow, InInsert
<1>15. CASE SyncCache
  <2>1. /\ UNCHANGED <<n, dueUpTo, secret, stored, pc, read, num>> /\ cache' = secret
        /\ UNCHANGED memVars
    BY <1>15 DEF SyncCache, envVars, memVars
  <2>2. CopiesInv' /\ RotationInv' /\ CreationInv'
    BY <2>1 DEF RepoInv, CopiesInv, RotationInv, CreationInv, IsDue
  <2> QED BY <1>14, <2>1, <2>2
<1>16. CASE TimePasses
  <2>1. /\ UNCHANGED <<n, secret, cache, stored, pc, read, num>> /\ cache = secret /\ pc = "idle"
        /\ Exists(secret) /\ Size(secret.keys) = n
    BY <1>1, <1>16 DEF TimePasses, memVars, Size
  <2>2. CopiesInv' /\ CreationInv' /\ RotationInv'
    BY <2>1 DEF RepoInv, CopiesInv, CreationInv, RotationInv, Loops
  <2>3. LoopInv'
    BY <2>1 DEF LoopInv, InRotate, InTrim, InShift, InGrow, InInsert, Loops
  <2> QED BY <2>2, <2>3
<1>17. CASE LoseAnnotation
  <2>1. /\ UNCHANGED <<n, dueUpTo, cache, stored, pc, read, num>> /\ UNCHANGED memVars
        /\ secret'.keys = secret.keys /\ secret'.rotatedat = BadStamp
    BY <1>t, <1>17 DEF LoseAnnotation, envVars, memVars, Secrets
  <2>2. CopiesInv' /\ RotationInv' /\ CreationInv'
    BY <2>1 DEF RepoInv, CopiesInv, Sound, RotationInv, CreationInv, IsDue, Exists
  <2> QED BY <1>14, <2>1, <2>2
<1>18. ASSUME NEW m \in MinKeys..MaxKeys, EditMaxActiveKeys(m)
       PROVE  CopiesInv' /\ RotationInv' /\ CreationInv' /\ LoopInv'
  <2>1. /\ UNCHANGED <<dueUpTo, secret, cache, stored, pc, read, num>> /\ UNCHANGED memVars
        /\ ~IsDue(secret) /\ ~IsDue(cache)
    BY <1>1, <1>18 DEF EditMaxActiveKeys, memVars
  <2>2. CopiesInv' /\ RotationInv' /\ CreationInv'
    BY <2>1 DEF RepoInv, CopiesInv, RotationInv, CreationInv, IsDue
  <2> QED BY <1>14, <2>1, <2>2
<1>19. ASSUME UNCHANGED <<envVars, secret, cache, stored, memVars>>
       PROVE  CopiesInv' /\ RotationInv' /\ CreationInv' /\ LoopInv'
  <2>1. UNCHANGED <<n, dueUpTo, secret, cache, stored, pc, read, num>>
    BY <1>19 DEF envVars, memVars
  <2>2. CopiesInv' /\ RotationInv' /\ CreationInv'
    BY <2>1 DEF RepoInv, CopiesInv, RotationInv, CreationInv, IsDue
  <2> QED BY <1>14, <1>19, <2>1, <2>2
<1>20. ASSUME NEW p \in Pods, StartPod(p) \/ PropagateKeys(p)
       PROVE  CopiesInv' /\ RotationInv' /\ CreationInv' /\ LoopInv'
  BY <1>19, <1>20 DEF StartPod, PropagateKeys
<1>21. CASE UNCHANGED vars
  BY <1>19, <1>21 DEF vars
<1> QED
  BY <1>4, <1>5, <1>6, <1>7, <1>8, <1>9, <1>10, <1>11, <1>12, <1>13, <1>15, <1>16, <1>17,
     <1>18, <1>20, <1>21 DEF Next, Ensure

----------------------------------------------------------------------------
(* What happens to the keys of the Secret *)

\* The keys are written by the creation and by the update only.
LEMMA WhoWrites ==
  ASSUME RepoInv, [Next]_vars
  PROVE  \/ secret'.keys = secret.keys
         \/ /\ pc = "create" /\ num \in MinKeys..MaxKeys /\ stored + num <= MaxKey
            /\ secret'.keys = NewKeys /\ stored' = stored + num
            /\ ~Exists(secret) \/ (Reread /\ Exists(secret) /\ Pristine(secret.keys))
            /\ UNCHANGED <<n, dueUpTo, cache, deployed, pod>> /\ num' = num /\ pc' = "deploy"
         \/ /\ pc = "save" /\ changed /\ secret = read /\ secret'.keys = data /\ stored' = gen
            /\ secret'.rotatedat = dueUpTo + 1 /\ UNCHANGED <<n, dueUpTo, cache, deployed, pod>>
            /\ num' = num /\ pc' = "deploy"
<1> USE ConstantsAssumption
<1>1. TypeOK /\ FlowInv /\ secret \in Secrets /\ stored \in Nat
  <2>1. TypeOK /\ FlowInv
    BY DEF RepoInv
  <2> QED BY <2>1, TypeParts
<1>2. CASE CreateKeys
  <2>1. pc = "create" /\ num \in MinKeys..MaxKeys
    BY <1>1, <1>2 DEF CreateKeys, FlowInv
  <2>4. UNCHANGED <<n, dueUpTo, cache, deployed, pod>>
    BY <1>2 DEF CreateKeys, Unchanged, envVars, podVars
  <2>2. CASE /\ ~Exists(secret)
             /\ secret' = [keys |-> NewKeys, rotatedat |-> dueUpTo + 1]
             /\ stored' = stored + num /\ Return("deploy", num)
    <3>1. stored = 0
      BY <1>1, <2>2 DEF FlowInv
    <3> QED BY <2>1, <2>2, <2>4, <3>1 DEF Return
  <2>3. CASE Replaced /\ secret' = [secret EXCEPT !.keys = NewKeys] /\ stored' = stored + num
             /\ Return("deploy", num)
    <3>1. secret'.keys = NewKeys
      BY <1>1, <2>3 DEF Secrets
    <3>2. stored + num <= MaxKey /\ Reread /\ Exists(secret)
      BY <2>3 DEF Replaced
    <3>3. Pristine(secret.keys)
      BY <2>1, <3>2 DEF RepoInv, CreationInv
    <3> QED BY <2>1, <2>3, <2>4, <3>1, <3>2, <3>3 DEF Return
  <2> QED BY <1>2, <2>2, <2>3 DEF CreateKeys
<1>3. CASE SaveKeys
  <2>1. UNCHANGED <<n, dueUpTo, cache, deployed, pod>>
    BY <1>3 DEF SaveKeys, Unchanged, envVars, podVars
  <2> QED BY <1>3, <2>1 DEF SaveKeys, Return
<1>4. CASE LoseAnnotation
  BY <1>1, <1>4 DEF LoseAnnotation, Secrets
<1>5. CASE \/ EnsureFernetKeys \/ RotateKeys \/ TrimKeys \/ ShiftDown \/ GrowKeys \/ InsertKey
           \/ Deploy \/ Abort \/ SyncCache \/ TimePasses
           \/ \E m \in MinKeys..MaxKeys : EditMaxActiveKeys(m)
           \/ \E p \in Pods : StartPod(p) \/ PropagateKeys(p)
  <2>1. secret' = secret
    BY <1>5 DEF EnsureFernetKeys, RotateKeys, TrimKeys, ShiftDown, GrowKeys, InsertKey, Deploy, Abort,
         SyncCache, TimePasses, EditMaxActiveKeys, StartPod, PropagateKeys
  <2> QED BY <2>1
<1>6. CASE UNCHANGED vars
  BY <1>6 DEF vars
<1> QED BY <1>2, <1>3, <1>4, <1>5, <1>6 DEF Next, Ensure

\* The update keeps the primary key, at its place or next to it.
LEMMA SaveKeepsPrimary ==
  ASSUME RepoInv, pc = "save"
  PROVE  Primary(read.keys) \in KeySet(data)
<1> USE ConstantsAssumption
<1> DEFINE R == read.keys
           a == Size(R)
<1>1. /\ num \in MinKeys..MaxKeys /\ a \in MinKeys..MaxKeys
      /\ Size(data) = num /\ Whole(data) /\ Whole(R) /\ data \in Data /\ R \in Data
  BY SavedKeys, TypeParts DEF RepoInv, CopiesInv, Sound, Secrets
<1>2. Primary(R) = R[a - 1] /\ a - 1 \in Idx
  BY <1>1, PrimaryOf
<1>3. \A j \in Idx : j < num => data[j] \in KeySet(data)
  BY <1>1, PrimaryOf
<1>4. num - 1 \in Idx /\ num - 2 \in Idx
  BY <1>1 DEF Idx
<1>5. CASE a = num /\ Turned(R, data, num, stored)
  <2>1. num - 2 # 0 /\ num - 2 < num - 1 /\ (num - 2) + 1 = num - 1
    BY <1>1
  <2>2. data[num - 2] = R[(num - 2) + 1]
    BY <1>4, <1>5, <2>1 DEF Turned
  <2> QED BY <1>1, <1>2, <1>3, <1>4, <1>5, <2>1, <2>2
<1>6. CASE num <= a /\ Cut(R, data, a, num)
  <2>1. num - 1 # 0 /\ num - 1 < num /\ (num - 1) + a - num = a - 1
    BY <1>1
  <2>2. data[num - 1] = R[a - 1]
    BY <1>4, <1>6, <2>1 DEF Cut
  <2> QED BY <1>1, <1>2, <1>3, <1>4, <2>1, <2>2
<1>7. CASE a < num /\ Extended(R, data, a, num, stored)
  <2>1. /\ num - 1 # 0 /\ num - 1 < num /\ (num - 1) - (num - a) = a - 1
        /\ ~(num - 1 <= num - a)
    BY <1>1
  <2>2. data[num - 1] = R[a - 1]
    BY <1>4, <1>7, <2>1 DEF Extended
  <2> QED BY <1>1, <1>2, <1>3, <1>4, <2>1, <2>2
<1> QED BY <1>5, <1>6, <1>7, SavedKeys

\* The key that encrypts tokens survives the update that follows: whatever
\* ensureFernetKeys rotates, adds or removes, as long as a rotation does not fall
\* due while the number of keys changes.
THEOREM PrimaryStaysKept == ~Combine /\ Spec => PrimaryKept
<1>1. ASSUME RepoInv, [Next]_vars, Exists(secret), pc # "create"
      PROVE  Primary(secret.keys) \in KeySet(secret'.keys)
  <2>1. CASE secret'.keys = secret.keys
    <3>1. Size(secret.keys) \in MinKeys..MaxKeys /\ Whole(secret.keys) /\ secret.keys \in Data
      BY <1>1, TypeParts DEF RepoInv, CopiesInv, Sound, Secrets
    <3>2. Size(secret.keys) - 1 < Size(secret.keys) /\ Size(secret.keys) \in 1..(MaxKeys + 1)
      BY <3>1, ConstantsAssumption
    <3> QED BY <2>1, <3>1, <3>2, PrimaryOf
  <2> QED BY <1>1, <2>1, WhoWrites, SaveKeepsPrimary
<1>2. [Next]_vars /\ RepoInv =>
        [Exists(secret) /\ pc # "create" => Primary(secret.keys) \in KeySet(secret'.keys)]_vars
  BY <1>1
<1>3. ~Combine /\ Init => RepoInv
  BY RepoInit
<1>4. RepoInv /\ [Next]_vars => RepoInv'
  BY RepoStep
<1> QED BY <1>2, <1>3, <1>4, PTL DEF Spec, PrimaryKept

----------------------------------------------------------------------------
(* The loops end *)

\* The number of entries of a map whose first m ones are there, and without one of them.
LEMMA EntriesOf ==
  ASSUME NEW d \in Data, NEW m \in 0..(MaxKeys + 1)
  PROVE  /\ (\A j \in Idx : d[j] # 0 <=> j < m) => Cardinality(Present(d)) = m
         /\ \A x \in 0..(m - 1) :
              (\A j \in Idx : j # x => (d[j] # 0 <=> j < m)) => Cardinality(Present(d) \ {x}) = m - 1
<1> USE ConstantsAssumption
<1>1. (\A j \in Idx : d[j] # 0 <=> j < m) => Cardinality(Present(d)) = m
  BY SizeOf DEF Size
<1>2. ASSUME NEW x \in 0..(m - 1), \A j \in Idx : j # x => (d[j] # 0 <=> j < m)
      PROVE  Cardinality(Present(d) \ {x}) = m - 1
  <2>1. Present(d) \ {x} = (0..(m - 1)) \ {x}
    BY <1>2 DEF Present, Idx
  <2> DEFINE S == 0..(m - 1)
  <2>2. IsFiniteSet(S) /\ Cardinality(S) = m /\ x \in S
    BY <1>2, FS_Interval
  <2> HIDE DEF S
  <2>3. Cardinality(S \ {x}) = m - 1
    BY <2>2, FS_RemoveElement
  <2> USE DEF S
  <2> QED BY <2>1, <2>3
<1> QED BY <1>1, <1>2

\* An outer turn counts more than all the inner ones.
LEMMA FewerTurns ==
  ASSUME NEW d \in Nat, NEW e \in Nat, NEW x \in 0..(Span - 1), NEW y \in 0..(Span - 1),
         e < d \/ (e = d /\ y < x)
  PROVE  Span * e + y \in 0..(Span * d + x - 1)
<1> USE ConstantsAssumption
<1>1. Span \in Nat
  BY DEF Span
<1>2. Span * e \in Nat /\ Span * d \in Nat
  BY <1>1
<1>3. CASE e = d /\ y < x
  BY <1>1, <1>2, <1>3
<1>4. CASE e < d
  <2> DEFINE c == d - e - 1
  <2>1. c \in Nat /\ d = e + 1 + c
    BY <1>4
  <2> HIDE DEF c
  <2>2. Span * d = Span * e + Span + Span * c /\ Span * c \in Nat
    BY <1>1, <2>1
  <2> QED BY <1>1, <1>2, <2>2
<1> QED BY <1>3, <1>4

\* The loop that removes keys is entered only if that brings it nearer.
LEMMA TrimAdvances == RepoInv /\ TrimKeys => TurnsLeft' \in 0..(TurnsLeft - 1)
<1> SUFFICES ASSUME RepoInv, TrimKeys PROVE TurnsLeft' \in 0..(TurnsLeft - 1)
  OBVIOUS
<1> USE ConstantsAssumption
<1>1. pc = "trim" /\ pc \in Loops /\ data \in Data
  BY DEF TrimKeys, Loops, RepoInv, TypeOK
<1>2. UNCHANGED <<num, data>>
  BY DEF TrimKeys
<1>3. PICK k \in 1..(MaxKeys + 1) :
        /\ k <= BaseSize
        /\ \A j \in Idx : data[j] = Shape(Base, BaseSize, stored, k, 0, j)
  BY <1>1 DEF RepoInv, LoopInv, InTrim
<1>4. num \in Idx /\ num \in MinKeys..MaxKeys
  BY <1>1, BaseFacts DEF Idx
<1>5. \A j \in Idx : data[j] # 0 <=> j < k
  BY <1>1, <1>3, ShapeFacts
<1>6. Entries = k /\ InnerTurns = 2 /\ Span \in Nat /\ 3 < Span
  BY <1>1, <1>3, <1>5, EntriesOf DEF Entries, InnerTurns, Span
<1>7. CASE data[num] # 0 /\ i' = 1 /\ pc' = "shift"
  <2>1. num < k
    BY <1>4, <1>5, <1>7
  <2>2. Entries' = k - 1 /\ InnerTurns' = Span - 1
    BY <1>1, <1>2, <1>3, <1>4, <1>5, <1>7, <2>1, EntriesOf DEF Entries, InnerTurns, Span
  <2>3. Distance = k - num /\ Distance' = k - 1 - num
    BY <1>2, <1>3, <1>4, <1>6, <2>1, <2>2 DEF Distance
  <2> QED BY <1>3, <1>4, <1>6, <2>1, <2>2, <2>3, FewerTurns DEF TurnsLeft, Span
<1>8. CASE data[num] = 0 /\ pc' = "grow"
  <2>1. Entries' = k /\ InnerTurns' = 1
    BY <1>1, <1>2, <1>3, <1>5, <1>8, EntriesOf DEF Entries, InnerTurns
  <2>2. Distance' = Distance /\ Distance \in Nat
    BY <1>2, <1>3, <1>4, <1>6, <2>1 DEF Distance
  <2> QED BY <1>6, <2>1, <2>2, FewerTurns DEF TurnsLeft, Span
<1> QED BY <1>7, <1>8 DEF TrimKeys

\* Moving an entry down leaves one less to move, and none behind.
LEMMA ShiftAdvances == RepoInv /\ ShiftDown => TurnsLeft' \in 0..(TurnsLeft - 1)
<1> SUFFICES ASSUME RepoInv, ShiftDown PROVE TurnsLeft' \in 0..(TurnsLeft - 1)
  OBVIOUS
<1> USE ConstantsAssumption
<1>1. pc = "shift" /\ pc \in Loops /\ TypeOK /\ FlowInv /\ data \in Data
  BY DEF ShiftDown, Loops, RepoInv, TypeOK
<1>2. num' = num /\ i' = i + 1 /\ data' \in Data
  BY <1>1, ShiftEffect
<1>3. PICK k \in 1..(MaxKeys + 1) :
        /\ num < k /\ k <= BaseSize /\ i \in 1..(k - 1)
        /\ \A j \in Idx : j < i => data[j] = Shape(Base, BaseSize, stored, k - 1, 0, j)
        /\ \A j \in Idx : j > i => data[j] = Shape(Base, BaseSize, stored, k, 0, j)
        /\ i > 1 => data[i] = 0
  BY <1>1 DEF RepoInv, LoopInv, InShift
<1>4. num \in MinKeys..MaxKeys /\ k - 1 \in 1..(MaxKeys + 1) /\ i \in Idx /\ 3 < k
  BY <1>1, <1>3, BaseFacts DEF Idx
<1>5. \A j \in Idx : j # i => (data[j] # 0 <=> j < k)
  <2> TAKE j \in Idx
  <2>0. 0 \in 0..MaxKeys /\ k - 1 <= BaseSize
    BY <1>1, <1>3, BaseFacts
  <2>1. CASE j < i
    <3>1. data[j] = Shape(Base, BaseSize, stored, k - 1, 0, j) /\ j < (k - 1) + 0 /\ j < k
      BY <1>3, <1>4, <2>1 DEF Idx
    <3> QED BY <1>1, <1>4, <2>0, <3>1, ShapeFacts
  <2>2. CASE j > i
    <3>1. data[j] = Shape(Base, BaseSize, stored, k, 0, j)
      BY <1>3, <2>2
    <3> QED BY <1>1, <1>3, <2>0, <3>1, ShapeFacts
  <2> QED BY <1>4, <2>1, <2>2 DEF Idx
<1>6. Entries = k - 1 /\ InnerTurns = Span - i /\ Span \in Nat /\ i + 1 < Span
  BY <1>1, <1>3, <1>4, <1>5, EntriesOf DEF Entries, InnerTurns, Span
<1>7. CASE /\ i + 1 \in Idx /\ data[i + 1] # 0 /\ pc' = "shift"
           /\ \A j \in Idx :
                data'[j] = IF j = i + 1 THEN 0 ELSE IF j = i THEN data[i + 1] ELSE data[j]
  <2>1. i + 1 < k
    BY <1>3, <1>4, <1>5, <1>7
  <2>2. \A j \in Idx : j # i + 1 => (data'[j] # 0 <=> j < k)
    BY <1>3, <1>4, <1>5, <1>7
  <2>3. Entries' = k - 1 /\ InnerTurns' = Span - (i + 1)
    BY <1>2, <1>3, <1>4, <1>7, <2>1, <2>2, EntriesOf DEF Entries, InnerTurns, Span
  <2> QED BY <1>2, <1>3, <1>4, <1>6, <2>3, FewerTurns DEF TurnsLeft, Distance, Span
<1>8. CASE (i + 1 \in Idx => data[i + 1] = 0) /\ pc' = "trim" /\ data' = data
  <2>1. i = k - 1 /\ i > 1
    BY <1>3, <1>4, <1>5, <1>8 DEF Idx
  <2>2. \A j \in Idx : data[j] # 0 <=> j < k - 1
    BY <1>3, <1>4, <1>5, <2>1 DEF Idx
  <2>3. Entries' = k - 1 /\ InnerTurns' = 2
    BY <1>1, <1>4, <1>8, <2>2, EntriesOf DEF Entries, InnerTurns
  <2>4. 2 < Span - i
    BY <1>3, <1>4 DEF Span
  <2> QED BY <1>2, <1>3, <1>4, <1>6, <2>3, <2>4, FewerTurns DEF TurnsLeft, Distance, Span
<1> QED BY <1>1, <1>7, <1>8, ShiftEffect

\* A key is added only if one is missing.
LEMMA GrowAdvances == RepoInv /\ GrowKeys => TurnsLeft' \in 0..(TurnsLeft - 1)
<1> SUFFICES ASSUME RepoInv, GrowKeys PROVE TurnsLeft' \in 0..(TurnsLeft - 1)
  OBVIOUS
<1> USE ConstantsAssumption
<1>1. pc = "grow" /\ pc \in Loops /\ data \in Data
  BY DEF GrowKeys, Loops, RepoInv, TypeOK
<1>2. UNCHANGED <<num, data>>
  BY DEF GrowKeys
<1>3. PICK k \in 1..MaxKeys, g \in 0..MaxKeys :
        /\ k <= BaseSize /\ k + g <= num
        /\ \A j \in Idx : data[j] = Shape(Base, BaseSize, stored, k, g, j)
  BY <1>1 DEF RepoInv, LoopInv, InGrow
<1>4. num \in MinKeys..MaxKeys /\ num - 1 \in Idx /\ k \in 1..(MaxKeys + 1)
      /\ k + g \in 0..(MaxKeys + 1)
  BY <1>1, <1>3, BaseFacts DEF Idx
<1>5. \A j \in Idx : data[j] # 0 <=> j < k + g
  BY <1>1, <1>3, <1>4, ShapeFacts
<1>6. Entries = k + g /\ InnerTurns = 1 /\ Span \in Nat /\ 3 < Span
  BY <1>1, <1>4, <1>5, EntriesOf DEF Entries, InnerTurns, Span
<1>7. CASE data[num - 1] # 0 /\ pc' = "save"
  <2>1. Entries' = k + g /\ InnerTurns' = 0
    BY <1>1, <1>2, <1>4, <1>5, <1>7, EntriesOf DEF Entries, InnerTurns
  <2> QED BY <1>2, <1>3, <1>4, <1>6, <2>1, FewerTurns DEF TurnsLeft, Distance, Span
<1>8. CASE data[num - 1] = 0 /\ i' = 1 /\ pc' = "insert"
  <2>1. k + g < num
    BY <1>3, <1>4, <1>5, <1>8
  <2>2. Entries' = k + g + 1 /\ InnerTurns' = Span - 1
    BY <1>1, <1>2, <1>4, <1>5, <1>8, EntriesOf DEF Entries, InnerTurns
  <2>3. Distance = num - (k + g) /\ Distance' = num - (k + g + 1)
    BY <1>2, <1>3, <1>4, <1>6, <2>1, <2>2 DEF Distance
  <2> QED BY <1>3, <1>4, <1>6, <2>1, <2>2, <2>3, FewerTurns DEF TurnsLeft, Span
<1> QED BY <1>7, <1>8 DEF GrowKeys

\* Putting the carried key down carries the next one, up to the first index
\* that is free.
LEMMA InsertAdvances == RepoInv /\ InsertKey => TurnsLeft' \in 0..(TurnsLeft - 1)
<1> SUFFICES ASSUME RepoInv, InsertKey PROVE TurnsLeft' \in 0..(TurnsLeft - 1)
  OBVIOUS
<1> USE ConstantsAssumption
<1>1. pc = "insert" /\ pc \in Loops /\ TypeOK /\ FlowInv /\ data \in Data
  BY DEF InsertKey, Loops, RepoInv, TypeOK
<1>2. num' = num /\ i' = i + 1 /\ data' \in Data
  BY <1>1, InsertEffect
<1>3. PICK k \in 1..MaxKeys, g \in 1..MaxKeys :
        /\ k = BaseSize /\ ~Due /\ k + g <= num /\ i \in 1..(k + g - 1)
        /\ \A j \in Idx : j < i => data[j] = Shape(Base, BaseSize, stored, k, g, j)
        /\ \A j \in Idx : j >= i => data[j] = Shape(Base, BaseSize, stored, k, g - 1, j)
        /\ val = Shape(Base, BaseSize, stored, k, g, i)
  BY <1>1 DEF RepoInv, LoopInv, InInsert
<1>4. /\ num \in MinKeys..MaxKeys /\ i \in Idx /\ k \in 1..(MaxKeys + 1) /\ g - 1 \in 0..MaxKeys
      /\ k + g - 1 \in 0..(MaxKeys + 1) /\ k + g \in 0..(MaxKeys + 1)
  BY <1>1, <1>3, BaseFacts DEF Idx
<1>5. \A j \in Idx : data[j] # 0 <=> j < k + g - 1
  <2> TAKE j \in Idx
  <2>1. CASE j < i
    BY <1>1, <1>3, <1>4, <2>1, ShapeFacts
  <2>2. CASE j >= i
    <3>1. data[j] # 0 <=> j < k + (g - 1)
      BY <1>1, <1>3, <1>4, <2>2, ShapeFacts
    <3> QED BY <1>3, <3>1
  <2> QED BY <1>4, <2>1, <2>2 DEF Idx
<1>6. val # 0
  <2>1. i < k + g /\ k <= BaseSize /\ g \in 0..MaxKeys
    BY <1>3, <1>4
  <2>2. Shape(Base, BaseSize, stored, k, g, i) # 0
    BY <1>1, <1>4, <2>1, ShapeFacts
  <2> QED BY <1>3, <2>2
<1>7. Entries = k + g /\ InnerTurns = Span - i /\ Span \in Nat /\ i + 2 < Span
  <2>1. Cardinality(Present(data)) = k + g - 1
    BY <1>1, <1>4, <1>5, EntriesOf
  <2>2. Span \in Nat /\ i + 2 < Span
    BY <1>3, <1>4 DEF Span
  <2> QED BY <1>1, <1>3, <2>1, <2>2 DEF Entries, InnerTurns
<1>8. \A j \in Idx : data'[j] = IF j = i THEN val ELSE data[j]
  BY <1>1, InsertEffect
<1>9. CASE data[i] = 0
  <2>1. i = k + g - 1 /\ pc' = "grow"
    BY <1>1, <1>3, <1>4, <1>5, <1>9, InsertEffect
  <2>2. \A j \in Idx : data'[j] # 0 <=> j < k + g
    BY <1>3, <1>4, <1>5, <1>6, <1>8, <2>1 DEF Idx
  <2>3. Entries' = k + g /\ InnerTurns' = 1
    BY <1>2, <1>4, <2>1, <2>2, EntriesOf DEF Entries, InnerTurns
  <2> QED BY <1>2, <1>3, <1>4, <1>7, <2>3, FewerTurns DEF TurnsLeft, Distance, Span
<1>10. CASE data[i] # 0
  <2>1. pc' = "insert"
    BY <1>1, <1>10, InsertEffect
  <2>2. \A j \in Idx : data'[j] # 0 <=> j < k + g - 1
    BY <1>4, <1>5, <1>6, <1>8, <1>10
  <2>3. Entries' = k + g /\ InnerTurns' = Span - (i + 1)
    BY <1>2, <1>3, <1>4, <2>1, <2>2, EntriesOf DEF Entries, InnerTurns
  <2> QED BY <1>2, <1>3, <1>4, <1>7, <2>3, FewerTurns DEF TurnsLeft, Distance, Span
<1> QED BY <1>9, <1>10

\* No loop of ensureFernetKeys turns for ever: each turn leaves fewer to come, for
\* any number of keys asked for and any Secret it may have read, as long as a
\* rotation does not fall due while the number of keys changes.
THEOREM LoopsEnd == ~Combine /\ Spec => LoopsAdvance
<1>1. ASSUME RepoInv, [Next]_vars, InLoops
      PROVE  \/ pc' = "idle" \/ TurnsLeft' \in 0..(TurnsLeft - 1)
             \/ UNCHANGED memVars
  <2>1. CASE TrimKeys \/ ShiftDown \/ GrowKeys \/ InsertKey
    BY <1>1, <2>1, TrimAdvances, ShiftAdvances, GrowAdvances, InsertAdvances
  <2>2. CASE Abort
    BY <2>2 DEF Abort, Return
  <2>3. CASE SyncCache \/ TimePasses \/ LoseAnnotation \/ UNCHANGED vars
    BY <2>3 DEF SyncCache, TimePasses, LoseAnnotation, vars
  <2>4. CASE \E m \in MinKeys..MaxKeys : EditMaxActiveKeys(m)
    BY <2>4 DEF EditMaxActiveKeys
  <2>5. CASE \E p \in Pods : StartPod(p) \/ PropagateKeys(p)
    BY <2>5 DEF StartPod, PropagateKeys
  <2>6. CASE EnsureFernetKeys \/ CreateKeys \/ RotateKeys \/ SaveKeys \/ Deploy
    BY <1>1, <2>6 DEF InLoops, EnsureFernetKeys, CreateKeys, RotateKeys, SaveKeys, Deploy
  <2> QED BY <1>1, <2>1, <2>2, <2>3, <2>4, <2>5, <2>6 DEF Next, Ensure
<1>2. [Next]_vars /\ RepoInv =>
        [InLoops => pc' = "idle" \/ TurnsLeft' \in 0..(TurnsLeft - 1)]_memVars
  BY <1>1
<1>3. ~Combine /\ Init => RepoInv
  BY RepoInit
<1>4. RepoInv /\ [Next]_vars => RepoInv'
  BY RepoStep
<1> QED BY <1>2, <1>3, <1>4, PTL DEF Spec, LoopsAdvance

----------------------------------------------------------------------------
(* Refinement of FernetRepo *)

\* A repository without gaps, read as a sequence.
LEMMA SequenceOf ==
  ASSUME NEW d \in Data, Whole(d), NEW m \in 0..(MaxKeys + 1), Size(d) = m
  PROVE  /\ Sequence(d) \in Seq(1..MaxKey) /\ Len(Sequence(d)) = m
         /\ Sequence(d) \in [1..m -> 1..MaxKey]
         /\ \A x \in 1..m : Sequence(d)[x] = d[x - 1] /\ x - 1 \in Idx
<1> USE ConstantsAssumption
<1>1. \A x \in 1..m : x - 1 \in Idx /\ d[x - 1] \in 1..MaxKey
  <2> TAKE x \in 1..m
  <2>1. m \in Nat /\ x \in Nat /\ x - 1 < m /\ (x - 1 \in Idx => d[x - 1] # 0)
    BY DEF Whole
  <2>2. \A j \in Idx : d[j] \in 0..MaxKey
    BY DEF Data
  <2>3. x - 1 \in Idx
    BY <2>1 DEF Idx
  <2> QED BY <2>1, <2>2, <2>3
<1>2. Sequence(d) = [x \in 1..m |-> d[x - 1]]
  BY DEF Sequence, Size
<1>3. Sequence(d) \in [1..m -> 1..MaxKey]
  BY <1>1, <1>2
<1>4. Sequence(d) \in Seq(1..MaxKey) /\ Len(Sequence(d)) = m
  BY <1>3
<1> QED BY <1>1, <1>2, <1>3, <1>4

\* A rotation moves the staged key to the end and stages a new one.
LEMMA TurnedSequence ==
  ASSUME NEW d \in Data, NEW e \in Data, Whole(d), Whole(e), NEW m \in MinKeys..MaxKeys,
         Size(d) = m, Size(e) = m, NEW s \in Nat, s + 1 \in 1..MaxKey, Turned(d, e, m, s)
  PROVE  Sequence(e) = <<s + 1>> \o SubSeq(Sequence(d), 3, Len(Sequence(d))) \o <<Head(Sequence(d))>>
<1> USE ConstantsAssumption
<1> DEFINE q == Sequence(d)
           r == Sequence(e)
           S == 1..MaxKey
           mid == SubSeq(q, 3, m)
<1>1. m \in Nat /\ 2 < m /\ m \in 0..(MaxKeys + 1)
  OBVIOUS
<1>2. /\ q \in Seq(S) /\ Len(q) = m /\ \A x \in 1..m : q[x] = d[x - 1] /\ q[x] \in S /\ x - 1 \in Idx
  BY <1>1, SequenceOf
<1>3. /\ r \in Seq(S) /\ Len(r) = m /\ \A x \in 1..m : r[x] = e[x - 1]
  BY <1>1, SequenceOf
<1>4. Head(q) = q[1] /\ Head(q) \in S /\ q[1] = d[0]
  BY <1>1, <1>2
<1> HIDE DEF q, r, S
<1>5. mid \in Seq(S) /\ Len(mid) = m - 2 /\ \A x \in 1..(m - 2) : mid[x] = q[x + 2]
  <2>1. \A x \in 3..m : q[x] \in S
    BY <1>1, <1>2
  <2>2. mid \in Seq(S) /\ Len(mid) = m - 3 + 1 /\ \A x \in 1..(m - 3 + 1) : mid[x] = q[3 + x - 1]
    BY <1>1, <2>1, SubSeqProperties
  <2> QED BY <1>1, <2>2
<1> HIDE DEF mid
<1>6. <<s + 1>> \in Seq(S) /\ <<Head(q)>> \in Seq(S) /\ Len(<<s + 1>>) = 1 /\ Len(<<Head(q)>>) = 1
      /\ <<s + 1>>[1] = s + 1 /\ <<Head(q)>>[1] = d[0]
  BY <1>4 DEF S
<1> DEFINE u == <<s + 1>> \o mid
           v == u \o <<Head(q)>>
<1>7. u \in Seq(S) /\ Len(u) = m - 1
      /\ \A x \in 1..(m - 1) : u[x] = IF x = 1 THEN s + 1 ELSE q[x + 1]
  <2>1. u \in Seq(S) /\ Len(u) = 1 + (m - 2)
        /\ \A x \in 1..(1 + (m - 2)) : u[x] = IF x <= 1 THEN <<s + 1>>[x] ELSE mid[x - 1]
    BY <1>5, <1>6, ConcatProperties
  <2> HIDE DEF u
  <2>2. ASSUME NEW x \in 1..(m - 1) PROVE u[x] = IF x = 1 THEN s + 1 ELSE q[x + 1]
    <3>1. x \in 1..(1 + (m - 2)) /\ (x # 1 => x - 1 \in 1..(m - 2) /\ (x - 1) + 2 = x + 1)
      BY <1>1
    <3> QED BY <1>1, <1>5, <1>6, <2>1, <3>1
  <2> QED BY <1>1, <2>1, <2>2
<1> HIDE DEF u
<1>8. v \in Seq(S) /\ Len(v) = m
      /\ \A x \in 1..m : v[x] = IF x = 1 THEN s + 1 ELSE IF x < m THEN q[x + 1] ELSE d[0]
  <2>1. v \in Seq(S) /\ Len(v) = (m - 1) + 1
        /\ \A x \in 1..((m - 1) + 1) : v[x] = IF x <= m - 1 THEN u[x] ELSE <<Head(q)>>[x - (m - 1)]
    BY <1>6, <1>7, ConcatProperties
  <2> HIDE DEF v
  <2>2. ASSUME NEW x \in 1..m
        PROVE  v[x] = IF x = 1 THEN s + 1 ELSE IF x < m THEN q[x + 1] ELSE d[0]
    <3>1. x \in 1..((m - 1) + 1) /\ (x < m => x \in 1..(m - 1)) /\ (~(x < m) => x - (m - 1) = 1)
          /\ 1 < m /\ (x <= m - 1 <=> x < m)
      BY <1>1
    <3> QED BY <1>6, <1>7, <2>1, <3>1
  <2> QED BY <1>1, <2>1, <2>2
<1> HIDE DEF v
<1>9. \A x \in 1..m : r[x] = v[x]
  <2> TAKE x \in 1..m
  <2>1. x - 1 \in Idx /\ (x < m => q[x + 1] = d[x])
    BY <1>1, <1>2
  <2>2. e[x - 1] = IF x - 1 = 0 THEN s + 1
                   ELSE IF x - 1 < m - 1 THEN d[(x - 1) + 1] ELSE IF x - 1 = m - 1 THEN d[0] ELSE 0
    BY <2>1 DEF Turned
  <2>3. (x - 1) + 1 = x /\ (x - 1 = 0 <=> x = 1) /\ (x - 1 < m - 1 <=> x < m)
        /\ (~(x < m) => x - 1 = m - 1)
    BY <1>1
  <2> QED BY <1>3, <1>8, <2>1, <2>2, <2>3
<1>10. r = v
  BY <1>3, <1>8, <1>9, SeqEqual
<1> QED BY <1>2, <1>10 DEF r, v, u, mid, q

\* A removal keeps the staged key and the last ones.
LEMMA CutSequence ==
  ASSUME NEW d \in Data, NEW e \in Data, Whole(d), Whole(e),
         NEW a \in MinKeys..MaxKeys, NEW m \in MinKeys..MaxKeys, m <= a,
         Size(d) = a, Size(e) = m, Cut(d, e, a, m)
  PROVE  /\ m < a => Sequence(e) = <<Head(Sequence(d))>> \o
              SubSeq(Sequence(d), Len(Sequence(d)) - m + 2, Len(Sequence(d)))
         /\ m = a => e = d
<1> USE ConstantsAssumption
<1> DEFINE q == Sequence(d)
           r == Sequence(e)
           S == 1..MaxKey
           rest == SubSeq(q, a - m + 2, a)
<1>1. a \in Nat /\ m \in Nat /\ 2 < m /\ m \in 0..(MaxKeys + 1) /\ a \in 0..(MaxKeys + 1)
  OBVIOUS
<1>2. /\ q \in Seq(S) /\ Len(q) = a /\ \A x \in 1..a : q[x] = d[x - 1] /\ q[x] \in S /\ x - 1 \in Idx
  BY <1>1, SequenceOf
<1>3. /\ r \in Seq(S) /\ Len(r) = m /\ \A x \in 1..m : r[x] = e[x - 1] /\ x - 1 \in Idx
  BY <1>1, SequenceOf
<1>4. Head(q) = q[1] /\ Head(q) \in S /\ q[1] = d[0]
  BY SMTT(30), <1>1, <1>2
<1> HIDE DEF q, r, S
<1>5. rest \in Seq(S) /\ Len(rest) = m - 1 /\ \A x \in 1..(m - 1) : rest[x] = q[x + 1 + a - m]
  <2>1. \A x \in (a - m + 2)..a : q[x] \in S
    BY <1>1, <1>2
  <2>2. /\ rest \in Seq(S) /\ Len(rest) = a - (a - m + 2) + 1
        /\ \A x \in 1..(a - (a - m + 2) + 1) : rest[x] = q[(a - m + 2) + x - 1]
    BY <1>1, <2>1, SubSeqProperties
  <2> HIDE DEF rest
  <2>3. ASSUME NEW x \in 1..(m - 1) PROVE rest[x] = q[x + 1 + a - m]
    <3>1. x \in 1..(a - (a - m + 2) + 1) /\ (a - m + 2) + x - 1 = x + 1 + a - m
      BY <1>1
    <3> QED BY <2>2, <3>1
  <2> QED BY <1>1, <2>2, <2>3
<1> HIDE DEF rest
<1>6. <<Head(q)>> \in Seq(S) /\ Len(<<Head(q)>>) = 1 /\ <<Head(q)>>[1] = d[0]
  BY <1>4
<1> DEFINE v == <<Head(q)>> \o rest
<1>7. v \in Seq(S) /\ Len(v) = m /\ \A x \in 1..m : v[x] = IF x = 1 THEN d[0] ELSE q[x + a - m]
  <2>1. v \in Seq(S) /\ Len(v) = 1 + (m - 1)
        /\ \A x \in 1..(1 + (m - 1)) : v[x] = IF x <= 1 THEN <<Head(q)>>[x] ELSE rest[x - 1]
    BY <1>5, <1>6, ConcatProperties
  <2> HIDE DEF v
  <2>2. ASSUME NEW x \in 1..m PROVE v[x] = IF x = 1 THEN d[0] ELSE q[x + a - m]
    <3>1. x \in 1..(1 + (m - 1)) /\ (x # 1 => x - 1 \in 1..(m - 1)) /\ (x <= 1 <=> x = 1)
          /\ (x - 1) + 1 + a - m = x + a - m
      BY <1>1
    <3> QED BY <1>5, <1>6, <2>1, <3>1
  <2> QED BY <1>1, <2>1, <2>2
<1> HIDE DEF v
<1>8. \A x \in 1..m : r[x] = v[x]
  <2> TAKE x \in 1..m
  <2>1. x + a - m \in 1..a /\ (x + a - m) - 1 = (x - 1) + a - m /\ x - 1 < m /\ (x - 1 = 0 <=> x = 1)
    BY <1>1
  <2>2. e[x - 1] = IF x - 1 = 0 THEN d[0] ELSE IF x - 1 < m THEN d[(x - 1) + a - m] ELSE 0
    BY <1>3 DEF Cut
  <2> QED BY <1>2, <1>3, <1>7, <2>1, <2>2
<1>9. r = v
  BY <1>3, <1>7, <1>8, SeqEqual
<1>10. ASSUME m = a PROVE e = d
  <2>1. ASSUME NEW j \in Idx PROVE e[j] = d[j]
    <3>1. e[j] = IF j = 0 THEN d[0] ELSE IF j < a THEN d[j + a - a] ELSE 0
      BY <1>10, <2>1 DEF Cut
    <3>2. j \in Nat /\ j + a - a = j /\ (~(j < a) => d[j] = 0)
      BY <1>1 DEF Whole, Idx
    <3> QED BY <3>1, <3>2
  <2> QED BY <2>1 DEF Data
<1> QED BY <1>2, <1>9, <1>10 DEF r, v, rest, q

\* The keys of an addition of g keys, the last one first.
Block(g, s) == [x \in 1..g |-> s + g + 1 - x]

\* An addition puts new keys behind the staged one, the last one first.
LEMMA ExtendedSequence ==
  ASSUME NEW d \in Data, NEW e \in Data, Whole(d), Whole(e),
         Size(d) \in MinKeys..MaxKeys, Size(e) \in MinKeys..MaxKeys, Size(d) < Size(e),
         NEW s \in Nat, s + (Size(e) - Size(d)) <= MaxKey,
         Extended(d, e, Size(d), Size(e), s)
  PROVE  Sequence(e) = <<Head(Sequence(d))>> \o Block(Size(e) - Size(d), s) \o Tail(Sequence(d))
<1> USE ConstantsAssumption
<1> DEFINE a == Size(d)
           m == Size(e)
           new == Block(m - a, s)
           q == Sequence(d)
           r == Sequence(e)
           S == 1..MaxKey
           g == m - a
           tl == Tail(q)
<1>1. /\ a \in Nat /\ m \in Nat /\ 2 < a /\ m \in 0..(MaxKeys + 1) /\ a \in 0..(MaxKeys + 1)
      /\ g \in Nat /\ 0 < g /\ g + a = m
  OBVIOUS
<1>2. /\ q \in Seq(S) /\ Len(q) = a /\ \A x \in 1..a : q[x] = d[x - 1] /\ q[x] \in S /\ x - 1 \in Idx
  BY <1>1, SequenceOf
<1>3. /\ r \in Seq(S) /\ Len(r) = m /\ \A x \in 1..m : r[x] = e[x - 1] /\ x - 1 \in Idx
  BY <1>1, SequenceOf
<1>4. Head(q) = q[1] /\ Head(q) \in S /\ q[1] = d[0] /\ q # << >>
  <2>1. 1 \in 1..a /\ 1 - 1 = 0
    BY <1>1
  <2>2. q[1] = d[0] /\ q[1] \in S
    BY <1>2, <2>1
  <2> HIDE DEF q, S, a
  <2>3. q # << >> /\ q \in Seq(S)
    BY <1>1, <1>2
  <2>4. Head(q) = q[1]
    BY <2>3
  <2> QED BY <2>2, <2>3, <2>4
<1>5. new \in Seq(S) /\ Len(new) = g /\ \A x \in 1..g : new[x] = s + g + 1 - x
  <2>1. \A x \in 1..g : s + g + 1 - x \in S
    BY <1>1
  <2>2. new = [x \in 1..g |-> s + g + 1 - x]
    BY DEF Block
  <2> HIDE DEF g, S, new
  <2>3. new \in [1..g -> S]
    BY <2>1, <2>2
  <2>4. \A x \in 1..g : new[x] = s + g + 1 - x
    BY <2>2
  <2>5. new \in Seq(S) /\ Len(new) = g
    BY <1>1, <2>3
  <2> QED BY <2>4, <2>5
<1> HIDE DEF q, r, S, g, tl, new
<1>6. /\ tl \in Seq(S) /\ Len(tl) = a - 1 /\ \A x \in 1..(a - 1) : tl[x] = q[x + 1]
  BY <1>2, <1>4, HeadTailProperties DEF tl
<1>7. <<Head(q)>> \in Seq(S) /\ Len(<<Head(q)>>) = 1 /\ <<Head(q)>>[1] = d[0]
  BY <1>4
<1> DEFINE u == <<Head(q)>> \o new
           v == u \o tl
<1>8. u \in Seq(S) /\ Len(u) = g + 1
      /\ \A x \in 1..(g + 1) : u[x] = IF x = 1 THEN d[0] ELSE s + g + 2 - x
  <2>1. u \in Seq(S) /\ Len(u) = 1 + g
        /\ \A x \in 1..(1 + g) : u[x] = IF x <= 1 THEN <<Head(q)>>[x] ELSE new[x - 1]
    BY <1>5, <1>7, ConcatProperties
  <2> HIDE DEF u
  <2>2. ASSUME NEW x \in 1..(g + 1) PROVE u[x] = IF x = 1 THEN d[0] ELSE s + g + 2 - x
    <3>1. x \in 1..(1 + g) /\ (x # 1 => x - 1 \in 1..g) /\ (x <= 1 <=> x = 1)
          /\ s + g + 1 - (x - 1) = s + g + 2 - x
      BY <1>1
    <3>2. x # 1 => new[x - 1] = s + g + 1 - (x - 1)
      BY <1>5, <3>1
    <3>3. u[x] = IF x <= 1 THEN <<Head(q)>>[x] ELSE new[x - 1]
      BY <2>1, <3>1
    <3>4. CASE x = 1
      BY <1>7, <3>1, <3>3, <3>4
    <3>5. CASE x # 1
      BY <3>1, <3>2, <3>3, <3>5
    <3> QED BY <3>4, <3>5
  <2> QED BY <1>1, <2>1, <2>2
<1> HIDE DEF u
<1>9. v \in Seq(S) /\ Len(v) = m
      /\ \A x \in 1..m : v[x] = IF x = 1 THEN d[0] ELSE IF x <= g + 1 THEN s + g + 2 - x ELSE q[x - g]
  <2>1. v \in Seq(S) /\ Len(v) = (g + 1) + (a - 1)
        /\ \A x \in 1..((g + 1) + (a - 1)) :
             v[x] = IF x <= g + 1 THEN u[x] ELSE tl[x - (g + 1)]
    <3>1. u \in Seq(S) /\ Len(u) = g + 1
      BY <1>8
    <3>2. tl \in Seq(S) /\ Len(tl) = a - 1
      BY <1>6
    <3>3. v \in Seq(S) /\ Len(v) = Len(u) + Len(tl)
          /\ \A x \in 1..(Len(u) + Len(tl)) :
               v[x] = IF x <= Len(u) THEN u[x] ELSE tl[x - Len(u)]
      BY <3>1, <3>2, ConcatProperties
    <3> QED BY <1>1, <3>1, <3>2, <3>3
  <2> HIDE DEF v
  <2>2. ASSUME NEW x \in 1..m
        PROVE  v[x] = IF x = 1 THEN d[0] ELSE IF x <= g + 1 THEN s + g + 2 - x ELSE q[x - g]
    <3>1. /\ x \in 1..((g + 1) + (a - 1)) /\ (x <= g + 1 => x \in 1..(g + 1))
          /\ (~(x <= g + 1) => x - (g + 1) \in 1..(a - 1)) /\ 1 <= g + 1
          /\ (x - (g + 1)) + 1 = x - g
      BY <1>1
    <3>2. v[x] = IF x <= g + 1 THEN u[x] ELSE tl[x - (g + 1)]
      BY <2>1, <3>1
    <3>3. CASE x <= g + 1
      <4>1. u[x] = IF x = 1 THEN d[0] ELSE s + g + 2 - x
        BY <1>8, <3>1, <3>3
      <4> QED BY <3>2, <3>3, <4>1
    <3>4. CASE ~(x <= g + 1)
      <4>1. tl[x - (g + 1)] = q[(x - (g + 1)) + 1]
        BY <1>6, <3>1, <3>4
      <4>2. x # 1
        BY <3>1, <3>4
      <4> QED BY <3>1, <3>2, <3>4, <4>1, <4>2
    <3> QED BY <3>3, <3>4
  <2> QED BY <1>1, <2>1, <2>2
<1> HIDE DEF v
<1>10. \A x \in 1..m : r[x] = v[x]
  <2> TAKE x \in 1..m
  <2>1. /\ x - 1 < m /\ (x - 1 = 0 <=> x = 1) /\ (x - 1 <= g <=> x <= g + 1)
        /\ (x > g => x - g \in 1..a) /\ (x - 1) - g = (x - g) - 1
        /\ s + g + 1 - (x - 1) = s + g + 2 - x
    BY <1>1
  <2>2. e[x - 1] = IF x - 1 = 0 THEN d[0]
                   ELSE IF x - 1 <= g THEN s + g + 1 - (x - 1)
                   ELSE IF x - 1 < m THEN d[(x - 1) - g] ELSE 0
    BY <1>3 DEF Extended, g
  <2>3. ~(x <= g + 1) => x > g /\ q[x - g] = d[(x - g) - 1]
    BY SMTT(30), <1>1, <1>2, <2>1
  <2> QED BY <1>3, <1>9, <2>1, <2>2, <2>3
<1>11. r = v
  BY SMTT(30), <1>3, <1>9, <1>10, SeqEqual
<1> QED BY <1>11 DEF r, v, u, q, tl, new, g

\* A key that has not been in the Secret yet is fresh.
LEMMA FreshKeys ==
  ASSUME RepoInv, NEW k \in (stored + 1)..MaxKey
  PROVE  k \in Repo!Fresh
<1> USE ConstantsAssumption
<1>1. /\ secret.keys \in Data /\ Whole(secret.keys) /\ stored \in Nat
      /\ \A j \in Idx : secret.keys[j] \in Nat /\ secret.keys[j] <= stored
      /\ Exists(secret) => Size(secret.keys) \in MinKeys..MaxKeys
  BY TypeParts DEF RepoInv, CopiesInv, Sound, Secrets, Data
<1>2. Sequence(secret.keys) = [x \in 1..Size(secret.keys) |-> secret.keys[x - 1]]
  BY DEF Sequence, Size
<1>3. CASE Exists(secret)
  <2>1. Size(secret.keys) \in 0..(MaxKeys + 1)
    BY <1>1, <1>3
  <2>2. \A x \in 1..Size(secret.keys) :
          Sequence(secret.keys)[x] = secret.keys[x - 1] /\ x - 1 \in Idx
    BY <1>1, <2>1, SequenceOf
  <2>3. \A x \in DOMAIN Sequence(secret.keys) : Sequence(secret.keys)[x] # k
    BY <1>1, <1>2, <2>1, <2>2
  <2>4. k \in 1..MaxKey
    BY <1>1
  <2> QED BY <2>3, <2>4 DEF Repo!Fresh, Repo!ToSet
<1>4. CASE ~Exists(secret)
  <2>1. Present(secret.keys) = {}
    <3>1. 0 \in Idx /\ secret.keys[0] = 0
      BY <1>4 DEF Exists, Idx
    <3>2. ~(0 < Size(secret.keys))
      BY <1>1, <3>1 DEF Whole
    <3>3. IsFiniteSet(Present(secret.keys))
      <4>1. IsFiniteSet(Idx) /\ Present(secret.keys) \subseteq Idx
        BY SMTT(30), FS_Interval DEF Idx, Present
      <4> QED BY <4>1, FS_Subset
    <3> QED BY <3>2, <3>3, FS_CardinalityType, FS_EmptySet DEF Size
  <2>2. Size(secret.keys) = 0
    BY <2>1, FS_EmptySet DEF Size
  <2>3. DOMAIN Sequence(secret.keys) = {}
    BY <1>2, <2>2
  <2>4. k \in 1..MaxKey
    BY <1>1
  <2> QED BY <2>3, <2>4 DEF Repo!Fresh, Repo!ToSet
<1> QED BY <1>3, <1>4

\* A creation is a Create of the key repository.
LEMMA CreateRefines ==
  ASSUME RepoInv, num \in MinKeys..MaxKeys, stored + num <= MaxKey, secret'.keys = NewKeys,
         ~Exists(secret) \/ Pristine(secret.keys)
  PROVE  Repo!Create
<1> USE ConstantsAssumption
<1>1. TypeOK /\ stored \in Nat
  BY DEF RepoInv, TypeOK
<1>2. NewKeys \in Data /\ \A j \in Idx : NewKeys[j] = IF j < num THEN stored + j + 1 ELSE 0
  BY <1>1, NewKeysTyped
<1>3. Whole(NewKeys) /\ Size(NewKeys) = num /\ Pristine(NewKeys)
  BY <1>1, NewSound DEF Sound
<1>4. num \in 0..(MaxKeys + 1)
  OBVIOUS
<1> DEFINE r == Sequence(NewKeys)
<1>5. /\ r \in [1..num -> 1..MaxKey]
      /\ \A x \in 1..num : r[x] = NewKeys[x - 1] /\ x - 1 \in Idx
  BY <1>2, <1>3, <1>4, SequenceOf
<1> HIDE DEF r
<1>6. \A x \in 1..num : r[x] = stored + x
  <2> TAKE x \in 1..num
  <2>1. x - 1 < num /\ stored + (x - 1) + 1 = stored + x
    BY <1>1
  <2> QED BY <1>2, <1>5, <2>1
<1>7. r \in [1..num -> Repo!Fresh]
  <2>1. \A x \in 1..num : r[x] \in (stored + 1)..MaxKey
    BY <1>1, <1>6
  <2>2. \A x \in 1..num : r[x] \in Repo!Fresh
    BY <2>1, FreshKeys
  <2> QED BY <1>5, <2>2
<1>8. Repo!IsInjective(r)
  BY <1>1, <1>5, <1>6 DEF Repo!IsInjective
<1>9. Pristine(secret.keys)
  <2>1. ASSUME ~Exists(secret) PROVE Present(secret.keys) = {}
    <3>1. Whole(secret.keys) /\ 0 \in Idx /\ secret.keys[0] = 0
      BY <2>1 DEF RepoInv, CopiesInv, Sound, Exists, Idx
    <3>2. ~(0 < Size(secret.keys))
      BY <3>1 DEF Whole
    <3>3. IsFiniteSet(Present(secret.keys))
      <4>1. IsFiniteSet(Idx) /\ Present(secret.keys) \subseteq Idx
        BY FS_Interval DEF Idx, Present
      <4> QED BY <4>1, FS_Subset
    <3> QED BY <3>2, <3>3, FS_CardinalityType, FS_EmptySet DEF Size
  <2> QED BY <2>1 DEF Pristine
<1>10. Sequence(secret.keys)' \in {s \in [1..num -> Repo!Fresh] : Repo!IsInjective(s)}
  BY <1>7, <1>8 DEF r
<1>11. Pristine(secret.keys)' = TRUE
  BY <1>3 DEF Pristine
<1> QED BY <1>9, <1>10, <1>11 DEF Repo!Create

\* An update is a Rotate, a Shrink or a Grow of the key repository, or rewrites
\* the annotation only.
LEMMA SaveRefines ==
  ASSUME RepoInv, pc = "save", secret = read, secret'.keys = data
  PROVE  Repo!Next \/ secret'.keys = secret.keys
<1> USE ConstantsAssumption
<1> DEFINE d == secret.keys
           a == Size(d)
           q == Sequence(d)
           r == Sequence(data)
<1>1. /\ num \in MinKeys..MaxKeys /\ a \in MinKeys..MaxKeys
      /\ Size(data) = num /\ Whole(data) /\ Whole(d) /\ data \in Data /\ d \in Data
      /\ stored \in Nat /\ gen \in 0..MaxKey
      /\ \A j \in Idx : d[j] \in Nat /\ d[j] <= stored
  BY SavedKeys, TypeParts DEF RepoInv, CopiesInv, Sound, Secrets, Data
<1>2. a \in 0..(MaxKeys + 1) /\ 0 \in Idx /\ 1 \in Idx /\ 2 \in Idx /\ 2 < num /\ 2 < a
  BY <1>1 DEF Idx
<1>3. Len(q) = a
  BY <1>1, <1>2, SequenceOf
<1>4. 1 \in Present(data) /\ 2 \in Present(data)
  BY <1>1, <1>2 DEF Present, Whole
<1>5. r = Sequence(secret.keys)' /\ Pristine(data) = Pristine(secret.keys)'
  OBVIOUS
<1>9. q = Sequence(secret.keys)
  OBVIOUS
<1>6. CASE a = num /\ gen = stored + 1 /\ Turned(d, data, num, stored)
  <2>1. r = <<stored + 1>> \o SubSeq(q, 3, Len(q)) \o <<Head(q)>>
    BY <1>1, <1>6, TurnedSequence
  <2>2. stored + 1 \in Repo!Fresh
    BY <1>1, <1>6, FreshKeys
  <2>3. Pristine(data) = FALSE
    <3>1. data[0] = stored + 1 /\ data[1] = d[2]
      <4>1. 1 # 0 /\ 1 < num - 1 /\ 1 + 1 = 2
        BY <1>1
      <4> QED BY <1>2, <1>6, <4>1 DEF Turned
    <3> QED BY <1>1, <1>2, <1>4, <3>1 DEF Pristine
  <2>4. Len(q) > 1
    BY <1>1, <1>3
  <2> HIDE DEF q, r
  <2>5. Sequence(secret.keys)' = <<stored + 1>> \o SubSeq(q, 3, Len(q)) \o <<Head(q)>>
        /\ Pristine(secret.keys)' = FALSE
    BY <1>5, <2>1, <2>3
  <2>6. Repo!Rotate
    BY <1>9, <2>2, <2>4, <2>5 DEF Repo!Rotate
  <2> QED BY <2>6 DEF Repo!Next
<1>7. CASE num <= a /\ Cut(d, data, a, num)
  <2>1. /\ num < a => r = <<Head(q)>> \o SubSeq(q, Len(q) - num + 2, Len(q))
        /\ num = a => data = d
    BY <1>1, <1>7, CutSequence
  <2>2. CASE num < a
    <3> HIDE DEF q, r
    <3>1. Sequence(secret.keys)' = <<Head(q)>> \o SubSeq(q, Len(q) - num + 2, Len(q))
      BY <1>5, <2>1, <2>2
    <3>2. Pristine(secret.keys)' \in BOOLEAN
      BY DEF Pristine
    <3>3. num < Len(q)
      BY <1>3, <2>2
    <3>4. Repo!Shrink
      BY <1>1, <1>9, <3>1, <3>2, <3>3 DEF Repo!Shrink
    <3> QED BY <3>4 DEF Repo!Next
  <2> QED BY <1>1, <1>7, <2>1, <2>2
<1>8. CASE a < num /\ gen = stored + (num - a) /\ Extended(d, data, a, num, stored)
  <2> DEFINE g == num - a
             new == Block(g, stored)
  <2>1. g \in Nat /\ 0 < g /\ stored + g <= MaxKey
    BY <1>1, <1>8
  <2>2. r = <<Head(q)>> \o new \o Tail(q)
    <3>1. g = num - a /\ a < num /\ Size(d) = a /\ stored + (num - a) <= MaxKey
      BY <1>8, <2>1
    <3>2. /\ d \in Data /\ data \in Data /\ Whole(d) /\ Whole(data)
          /\ a \in MinKeys..MaxKeys /\ num \in MinKeys..MaxKeys
          /\ Size(data) = num /\ stored \in Nat /\ Extended(d, data, a, num, stored)
      BY <1>1, <1>8
    <3> HIDE DEF d, a, g
    <3>3. Sequence(data) = <<Head(Sequence(d))>> \o Block(num - a, stored) \o Tail(Sequence(d))
      BY <3>1, <3>2, ExtendedSequence
    <3> QED BY <3>1, <3>3
  <2>3. \A x \in 1..g : stored + g + 1 - x \in Repo!Fresh
    <3>1. \A x \in 1..g : stored + g + 1 - x \in (stored + 1)..MaxKey
      BY <1>1, <2>1
    <3> QED BY <3>1, FreshKeys
  <2>4. new \in [1..g -> Repo!Fresh]
    BY <2>3 DEF Block
  <2>5. Repo!IsInjective(new)
    BY <1>1, <2>1 DEF Repo!IsInjective, Block
  <2>6. Pristine(data) = FALSE
    <3>1. data[1] = stored + g
      BY <1>1, <1>2, <1>8, <2>1 DEF Extended
    <3>2. data[2] < data[1]
      <4>1. CASE 2 <= g
        BY <1>1, <1>2, <1>8, <2>1, <3>1, <4>1 DEF Extended
      <4>2. CASE ~(2 <= g)
        <5>1. g = 1 /\ data[2] = d[1]
          <6>1. g = 1 /\ 2 # 0 /\ ~(2 <= num - a) /\ 2 < num /\ 2 - (num - a) = 1
            BY <1>1, <1>2, <2>1, <4>2
          <6> QED BY <1>2, <1>8, <6>1 DEF Extended
        <5> QED BY <1>1, <1>2, <3>1, <5>1
      <4> QED BY <4>1, <4>2
    <3>3. data[0] \in Nat
      BY <1>1, <1>2 DEF Data
    <3> QED BY <1>1, <1>2, <1>4, <2>1, <3>1, <3>2, <3>3 DEF Pristine
  <2>7. 0 < Len(q) /\ Len(q) < num /\ g = num - Len(q)
    BY <1>2, <1>3, <1>8
  <2> HIDE DEF q, r, g, new
  <2>8. Sequence(secret.keys)' = <<Head(q)>> \o new \o Tail(q) /\ Pristine(secret.keys)' = FALSE
    BY <1>5, <2>2, <2>6
  <2>9. Repo!Grow
    BY <1>1, <1>9, <2>4, <2>5, <2>7, <2>8 DEF Repo!Grow
  <2> QED BY <2>9 DEF Repo!Next
<1> QED BY <1>6, <1>7, <1>8, SavedKeys

\* The Secret is a fernet key repository: only what FernetRepo allows happens to
\* the keys, with every interleaving of reads, updates, lagging caches and
\* restarts, as long as a rotation does not fall due while the number of keys
\* changes.
THEOREM RepositoryImplemented == ~Combine /\ Spec => RepoSpec
<1>1. Init => Repo!Init
  <2> SUFFICES ASSUME Init PROVE Repo!Init
    OBVIOUS
  <2> USE ConstantsAssumption
  <2>1. secret.keys = NoData
    BY DEF Init, NoSecret
  <2>2. Present(NoData) = {}
    BY DEF Present, NoData
  <2>3. Sequence(secret.keys) = << >>
    BY <2>1, <2>2, FS_EmptySet DEF Sequence
  <2>4. Pristine(secret.keys) = TRUE
    BY <2>1, <2>2 DEF Pristine
  <2> QED BY <2>3, <2>4 DEF Repo!Init
<1>2. RepoInv /\ [Next]_vars => [Repo!Next]_<<Sequence(secret.keys), Pristine(secret.keys)>>
  <2> SUFFICES ASSUME RepoInv, [Next]_vars
      PROVE    Repo!Next \/ UNCHANGED <<Sequence(secret.keys), Pristine(secret.keys)>>
    OBVIOUS
  <2>1. CASE secret'.keys = secret.keys
    BY <2>1
  <2>2. CASE /\ num \in MinKeys..MaxKeys /\ stored + num <= MaxKey /\ secret'.keys = NewKeys
             /\ ~Exists(secret) \/ Pristine(secret.keys)
    BY <2>2, CreateRefines DEF Repo!Next
  <2>3. CASE pc = "save" /\ secret = read /\ secret'.keys = data
    BY <2>1, <2>3, SaveRefines
  <2> QED BY <2>1, <2>2, <2>3, WhoWrites
<1>3. ~Combine /\ Init => RepoInv
  BY RepoInit
<1>4. RepoInv /\ [Next]_vars => RepoInv'
  BY RepoStep
<1> QED BY <1>1, <1>2, <1>3, <1>4, PTL DEF Spec, RepoSpec, Repo!Spec
----------------------------------------------------------------------------
(* Tokens.  Three things could separate the pods: a deployment that mounts *)
(* fewer keys than the Secret has ("grow"), a Secret that is created twice *)
(* (Reread), and a rotation of a repository that is not of the size asked  *)
(* for (Combine).                                                          *)

\* With a number of keys that only goes down, the Secret is never larger than
\* what the cache shows, a reconcile works on or a pod mounts.
SizesInv ==
  /\ Exists(cache) => Exists(secret) /\ Size(secret.keys) <= Size(cache.keys)
  /\ Exists(secret) => n <= Size(secret.keys)
  /\ pc # "idle" => n <= num /\ (Exists(secret) => num <= Size(secret.keys))
  /\ pc \in Loops => Exists(secret) /\ Size(secret.keys) <= Size(read.keys)
  /\ pc = "deploy" => Exists(secret) /\ Size(secret.keys) = num
  /\ deployed # 0 => Exists(secret) /\ Size(secret.keys) <= deployed
  /\ \A p \in Pods : Running(p) => Exists(secret) /\ Size(secret.keys) <= pod[p].items

\* A pod has the staged, the primary and the last primary key of the Secret, or
\* those of the Secret before its last rotation.
Second(d) == d[Size(d) - 2]
Peer(d, e) == d[0] = e[0] /\ Primary(d) = Primary(e) /\ Second(d) = Second(e)
Before(d, e) == Primary(e) = d[0] /\ Second(e) = Primary(d)
Usable(d) == d \in Data /\ Whole(d) /\ Size(d) \in MinKeys..MaxKeys

PodsInv ==
  \A p \in Pods : Running(p) =>
    /\ Usable(pod[p].keys)
    /\ Peer(pod[p].keys, secret.keys) \/ Before(pod[p].keys, secret.keys)
    /\ IsDue(secret) => Peer(pod[p].keys, secret.keys)

TokenInv == RepoInv /\ ~Reread /\ "grow" \notin UserOps /\ SizesInv /\ PodsInv

\* A pod that mounts no fewer keys than the Secret has gets all of them.
LEMMA MountsAll ==
  ASSUME RepoInv, Exists(secret), NEW m \in 0..MaxKeys, Size(secret.keys) <= m, Mountable(m)
  PROVE  /\ Usable(secret.keys) /\ Size(secret.keys) = m
         /\ Mounted(m).keys = secret.keys /\ Mounted(m).items = m
<1> USE ConstantsAssumption
<1> DEFINE S == secret.keys
<1>1. secret \in Secrets /\ S \in Data /\ Whole(S) /\ Size(S) \in MinKeys..MaxKeys
  BY TypeParts DEF RepoInv, CopiesInv, Sound, Secrets
<1>2. m - 1 \in Idx /\ m - 1 \in 0..(m - 1)
  BY <1>1 DEF Idx
<1>3. m - 1 < Size(S)
  BY <1>1, <1>2 DEF Mountable, Whole
<1>4. Size(S) = m
  BY <1>1, <1>3
<1>5. \A j \in Idx : Mounted(m).keys[j] = IF j < m THEN S[j] ELSE 0
  BY <1>1, MountedTyped
<1>6. \A j \in Idx : ~(j < m) => S[j] = 0
  BY <1>1, <1>4 DEF Whole
<1>7. Mounted(m).keys \in Data /\ Mounted(m).items = m
  BY <1>1, MountedTyped
<1>8. \A j \in Idx : Mounted(m).keys[j] = S[j]
  BY <1>5, <1>6
<1>9. Mounted(m).keys = S
  BY <1>1, <1>7, <1>8 DEF Data
<1> QED BY <1>1, <1>4, <1>7, <1>9 DEF Usable

\* What the keys of the Secret may become: more than before, never.
LEMMA SecretSteps ==
  ASSUME TokenInv, [Next]_vars
  PROVE  \/ secret'.keys = secret.keys
         \/ /\ ~Exists(secret) /\ Exists(secret)' /\ pc = "create" /\ Size(secret'.keys) = num
            /\ UNCHANGED <<n, dueUpTo, cache, deployed, pod>> /\ num' = num /\ pc' = "deploy"
         \/ /\ Exists(secret) /\ Exists(secret)' /\ pc = "save" /\ Size(secret'.keys) = num
            /\ ~IsDue(secret)' /\ Usable(secret.keys) /\ Usable(secret'.keys)
            /\ UNCHANGED <<n, dueUpTo, cache, deployed, pod>> /\ num' = num /\ pc' = "deploy"
            /\ \/ IsDue(secret) /\ Size(secret.keys) = num /\ Turned(secret.keys, secret'.keys, num, stored)
               \/ num <= Size(secret.keys) /\ Cut(secret.keys, secret'.keys, Size(secret.keys), num)
<1> USE ConstantsAssumption
<1>1. TypeOK /\ FlowInv /\ RepoInv /\ ~Reread /\ dueUpTo \in Nat /\ data \in Data /\ secret \in Secrets
  <2>1. TypeOK /\ FlowInv /\ RepoInv /\ ~Reread
    BY DEF TokenInv, RepoInv
  <2> QED BY <2>1, TypeParts
<1>2. CASE /\ pc = "create" /\ num \in MinKeys..MaxKeys /\ stored + num <= MaxKey
           /\ secret'.keys = NewKeys /\ ~Exists(secret)
           /\ UNCHANGED <<n, dueUpTo, cache, deployed, pod>> /\ num' = num /\ pc' = "deploy"
  <2>1. Exists(secret') /\ Size(secret'.keys) = num
    BY <1>1, <1>2, NewSound
  <2> QED BY <1>2, <2>1
<1>3. CASE /\ pc = "save" /\ secret = read /\ secret'.keys = data
           /\ secret'.rotatedat = dueUpTo + 1 /\ UNCHANGED <<n, dueUpTo, cache, deployed, pod>>
           /\ num' = num /\ pc' = "deploy"
  <2>1. /\ num \in MinKeys..MaxKeys /\ Size(secret.keys) \in MinKeys..MaxKeys /\ Exists(secret)
        /\ Size(data) = num /\ Whole(data)
        /\ \/ IsDue(secret) /\ Size(secret.keys) = num /\ Turned(secret.keys, data, num, stored)
           \/ num <= Size(secret.keys) /\ Cut(secret.keys, data, Size(secret.keys), num)
           \/ Size(secret.keys) < num
    BY <1>1, <1>3, SavedKeys DEF Due
  <2>2. num <= Size(secret.keys)
    BY <1>3, <2>1 DEF TokenInv, SizesInv
  <2>3. ~IsDue(secret)'
    BY <1>1, <1>3 DEF IsDue
  <2>4. Exists(secret)'
    <3>1. data[0] # 0
      BY <1>1, <1>3 DEF FlowInv, Loops
    <3> QED BY <1>3, <3>1 DEF Exists
  <2>5. Usable(secret.keys) /\ Usable(data)
    BY <1>1, <2>1 DEF Usable, RepoInv, CopiesInv, Sound, Secrets
  <2> QED BY <1>3, <2>1, <2>2, <2>3, <2>4, <2>5
<1> QED BY <1>1, <1>2, <1>3, WhoWrites

\* No step lets the Secret outgrow what mounts it.
LEMMA SizesStep == TokenInv /\ [Next]_vars => SizesInv'
<1> SUFFICES ASSUME TokenInv, [Next]_vars PROVE SizesInv'
  OBVIOUS
<1> USE ConstantsAssumption
<1>1. RepoInv /\ SizesInv /\ TypeOK /\ FlowInv /\ RepoInv'
  BY RepoStep DEF TokenInv, RepoInv
<1>t. /\ n \in Nat /\ n' \in Nat /\ num \in Nat /\ deployed \in 0..MaxKeys
      /\ secret \in Secrets /\ pod \in [Pods -> [items: 0..MaxKeys, keys: Data]]
      /\ Exists(secret) => Size(secret.keys) \in MinKeys..MaxKeys
      /\ Exists(cache) => Size(cache.keys) \in MinKeys..MaxKeys
      /\ pc \in Loops => Exists(read) /\ Exists(cache) /\ Size(read.keys) \in MinKeys..MaxKeys
  <2>1. n' \in MinKeys..MaxKeys
    BY <1>1 DEF RepoInv, TypeOK
  <2>2. /\ n \in MinKeys..MaxKeys /\ num \in 0..MaxKeys /\ deployed \in 0..MaxKeys
        /\ secret \in Secrets /\ pod \in [Pods -> [items: 0..MaxKeys, keys: Data]]
    BY <1>1, TypeParts
  <2>3. /\ Exists(secret) => Size(secret.keys) \in MinKeys..MaxKeys
        /\ Exists(cache) => Size(cache.keys) \in MinKeys..MaxKeys
        /\ pc \in Loops => Exists(read) /\ Exists(cache) /\ Size(read.keys) \in MinKeys..MaxKeys
    BY <1>1 DEF RepoInv, CopiesInv, Sound, CreationInv, LoopInv
  <2> QED BY <2>1, <2>2, <2>3
<1>2. CASE /\ ~Exists(secret) /\ Exists(secret)' /\ pc = "create" /\ Size(secret'.keys) = num
           /\ UNCHANGED <<n, dueUpTo, cache, deployed, pod>> /\ num' = num /\ pc' = "deploy"
  <2>1. pc' \notin Loops
    BY <1>2 DEF Loops
  <2> QED BY <1>1, <1>2, <1>t, <2>1 DEF SizesInv, Running
<1>3. CASE /\ Exists(secret) /\ Exists(secret)' /\ pc = "save" /\ Size(secret'.keys) = num
           /\ UNCHANGED <<n, dueUpTo, cache, deployed, pod>> /\ num' = num /\ pc' = "deploy"
  <2>1. pc' \notin Loops /\ num <= Size(secret.keys) /\ n <= num
    BY <1>1, <1>3 DEF Loops, SizesInv
  <2>2. \A p \in Pods : pod[p].items \in 0..MaxKeys
    BY <1>t
  <2> QED BY <1>1, <1>3, <1>t, <2>1, <2>2 DEF SizesInv, Running
<1>4. ASSUME secret'.keys = secret.keys, UNCHANGED <<n, cache, deployed, pod>>,
             \/ pc' = "idle"
             \/ pc \in Loops /\ pc' \in Loops /\ read' = read /\ num' = num
      PROVE  SizesInv'
  BY <1>1, <1>4 DEF SizesInv, Running, Exists, Loops
<1>5. CASE EnsureFernetKeys
  <2>1. /\ secret' = secret /\ UNCHANGED <<n, cache, deployed, pod>> /\ read' = cache /\ num' = n
        /\ pc' = IF Exists(cache) THEN "rotate" ELSE "create"
    BY <1>5 DEF EnsureFernetKeys, Unchanged, envVars, podVars
  <2> QED BY <1>1, <1>t, <2>1 DEF SizesInv, Running, Loops
<1>6. CASE CreateKeys /\ secret'.keys = secret.keys
  <2>1. UNCHANGED <<n, cache, deployed, pod>> /\ pc = "create"
    BY <1>6 DEF CreateKeys, Unchanged, envVars, podVars
  <2>2. ~Replaced
    BY DEF Replaced, TokenInv
  <2>3. ~(~Exists(secret) /\ secret' = [keys |-> NewKeys, rotatedat |-> dueUpTo + 1])
    <3>1. SUFFICES ASSUME ~Exists(secret), secret' = [keys |-> NewKeys, rotatedat |-> dueUpTo + 1],
                          stored + num <= MaxKey
                   PROVE  FALSE
      BY <1>1, <2>1 DEF FlowInv
    <3>2. num \in MinKeys..MaxKeys
      BY <1>1, <2>1 DEF FlowInv
    <3>3. Exists(secret')
      BY <1>1, <3>1, <3>2, NewSound
    <3> QED BY <1>6, <3>1, <3>3 DEF Exists
  <2>4. pc' = "idle"
    BY <1>6, <2>2, <2>3 DEF CreateKeys, Return
  <2> QED BY <1>4, <1>6, <2>1, <2>4
<1>7. CASE RotateKeys \/ TrimKeys \/ ShiftDown \/ GrowKeys \/ InsertKey
  <2>1. /\ pc \in Loops /\ pc' \in Loops /\ UNCHANGED <<n, secret, cache, read, num, deployed, pod>>
    <3>1. CASE RotateKeys
      BY <1>1, <3>1, RotateEffect DEF RotateKeys, Loops
    <3>2. CASE TrimKeys
      BY <3>2 DEF TrimKeys, Unchanged, envVars, podVars, Loops
    <3>3. CASE ShiftDown
      BY <1>1, <3>3, ShiftEffect DEF ShiftDown, Loops
    <3>4. CASE GrowKeys
      BY <3>4 DEF GrowKeys, Unchanged, envVars, podVars, Loops
    <3>5. CASE InsertKey
      BY <1>1, <3>5, InsertEffect DEF InsertKey, Loops
    <3> QED BY <1>7, <3>1, <3>2, <3>3, <3>4, <3>5
  <2> QED BY <1>4, <2>1
<1>8. CASE SaveKeys /\ secret'.keys = secret.keys
  <2>1. UNCHANGED <<n, cache, deployed, pod>> /\ pc = "save" /\ pc \in Loops
    BY <1>8 DEF SaveKeys, Unchanged, envVars, podVars, Loops
  <2>2. CASE pc' = "idle"
    BY <1>4, <1>8, <2>1, <2>2
  <2>3. CASE pc' # "idle"
    <3>1. /\ pc' = "deploy" /\ pc' \notin Loops /\ num' = num
          /\ ~changed \/ (secret = read /\ secret'.keys = data)
      BY <1>8, <2>3 DEF SaveKeys, Return, Loops
    <3>2. Size(secret.keys) = num
      <4>1. CASE ~changed
        <5>1. Size(read.keys) = num
          BY <1>1, <2>1, <4>1, SavedKeys
        <5> QED BY <1>1, <1>t, <2>1, <5>1 DEF SizesInv
      <4>2. CASE secret'.keys = data
        BY <1>1, <1>8, <2>1, <4>2, SavedKeys
      <4> QED BY <3>1, <4>1, <4>2
    <3> QED BY <1>1, <1>8, <1>t, <2>1, <3>1, <3>2 DEF SizesInv, Running, Exists
  <2> QED BY <2>2, <2>3
<1>9. CASE Deploy
  <2>1. /\ UNCHANGED <<n, secret, cache, pod>> /\ deployed' = num /\ pc = "deploy" /\ pc' = "idle"
    BY <1>9 DEF Deploy, Return, envVars
  <2>2. pc' \notin Loops
    BY <2>1 DEF Loops
  <2> QED BY <1>1, <1>t, <2>1, <2>2 DEF SizesInv, Running
<1>10. CASE Abort
  <2>1. /\ UNCHANGED <<n, secret, cache, deployed, pod>> /\ pc' = "idle"
    BY <1>10 DEF Abort, Return, Unchanged, envVars, podVars
  <2> QED BY <1>4, <2>1
<1>11. ASSUME secret'.keys = secret.keys, UNCHANGED <<memVars, deployed, pod>>,
              n' <= n, cache' = cache \/ cache' = secret
       PROVE  SizesInv'
  <2>1. UNCHANGED <<pc, read, num>>
    BY <1>11 DEF memVars
  <2> QED BY <1>1, <1>11, <1>t, <2>1 DEF SizesInv, Running, Exists
<1>12. CASE SyncCache \/ TimePasses \/ LoseAnnotation
  <2>1. /\ secret'.keys = secret.keys /\ UNCHANGED <<memVars, deployed, pod>>
        /\ n' = n /\ (cache' = cache \/ cache' = secret)
    BY <1>12, <1>t DEF SyncCache, TimePasses, LoseAnnotation, envVars, podVars, Secrets
  <2> QED BY <1>11, <1>t, <2>1
<1>13. ASSUME NEW m \in MinKeys..MaxKeys, EditMaxActiveKeys(m)
       PROVE  SizesInv'
  <2>1. /\ UNCHANGED <<secret, cache, memVars, deployed, pod>> /\ n' = m /\ m <= n
    BY <1>13, <1>t DEF EditMaxActiveKeys, podVars, TokenInv
  <2> QED BY <1>11, <2>1
<1>14. ASSUME NEW p \in Pods, StartPod(p) \/ PropagateKeys(p)
       PROVE  SizesInv'
  <2>1. /\ UNCHANGED <<n, secret, cache, pc, read, num, deployed>>
        /\ \A q \in Pods : q # p => pod'[q] = pod[q]
        /\ \/ pod'[p].items = deployed /\ deployed # 0
           \/ pod'[p].items = pod[p].items /\ Running(p)
    <3>1. CASE StartPod(p)
      <4>1. Mounted(deployed).items = deployed
        BY <1>t, MountedTyped
      <4> QED BY <1>t, <3>1, <4>1 DEF StartPod, envVars, memVars
    <3>2. CASE PropagateKeys(p)
      <4>1. Mounted(pod[p].items).items = pod[p].items
        BY <1>t, MountedTyped
      <4> QED BY <1>t, <3>2, <4>1 DEF PropagateKeys, envVars, memVars
    <3> QED BY <1>14, <3>1, <3>2
  <2>2. ASSUME NEW q \in Pods, Running(q)'
        PROVE  Exists(secret) /\ Size(secret.keys) <= pod'[q].items
    BY <1>1, <2>1, <2>2 DEF SizesInv, Running
  <2> QED BY <1>1, <2>1, <2>2 DEF SizesInv
<1>15. CASE UNCHANGED vars
  <2>1. UNCHANGED <<n, secret, cache, memVars, deployed, pod>>
    BY <1>15 DEF vars, envVars, podVars
  <2> QED BY <1>11, <1>t, <2>1
<1>16. CASE secret'.keys = secret.keys
  BY <1>5, <1>6, <1>7, <1>8, <1>9, <1>10, <1>12, <1>13, <1>14, <1>15, <1>16 DEF Next, Ensure
<1> QED BY <1>2, <1>3, <1>16, SecretSteps

\* A rotation or a removal leaves the pods with keys of the Secret, or of the one before.
LEMMA NewKeysReachPods ==
  ASSUME NEW d, NEW e, NEW m \in MinKeys..MaxKeys, NEW s \in Nat,
         Usable(d), Usable(e), Size(e) = m
  PROVE  /\ Size(d) = m /\ Turned(d, e, m, s) => Before(d, e)
         /\ m <= Size(d) /\ Cut(d, e, Size(d), m) => Peer(d, e)
<1> USE ConstantsAssumption
<1> DEFINE a == Size(d)
<1>1. /\ a \in MinKeys..MaxKeys /\ Whole(d) /\ Whole(e) /\ d \in Data /\ e \in Data
  BY DEF Usable
<1>2. Primary(d) = d[a - 1] /\ Primary(e) = e[m - 1]
  BY <1>1, PrimaryOf
<1>3. /\ 0 \in Idx /\ m - 1 \in Idx /\ m - 2 \in Idx /\ m - 1 # 0 /\ m - 2 # 0
      /\ m - 2 < m - 1 /\ m - 1 < m /\ m - 2 < m /\ (m - 2) + 1 = m - 1
      /\ (m - 1) + a - m = a - 1 /\ (m - 2) + a - m = a - 2
  BY <1>1 DEF Idx
<1>4. ASSUME a = m, Turned(d, e, m, s) PROVE Before(d, e)
  <2>1. e[m - 1] = d[0]
    BY <1>3, <1>4 DEF Turned
  <2>2. e[m - 2] = d[m - 1]
    BY <1>3, <1>4 DEF Turned
  <2> QED BY <1>2, <1>4, <2>1, <2>2 DEF Before, Second
<1>5. ASSUME m <= a, Cut(d, e, a, m) PROVE Peer(d, e)
  <2>1. e[0] = d[0]
    BY <1>3, <1>5 DEF Cut
  <2>2. e[m - 1] = d[a - 1] /\ e[m - 2] = d[a - 2]
    BY <1>3, <1>5 DEF Cut
  <2> QED BY <1>2, <2>1, <2>2 DEF Peer, Second
<1> QED BY <1>4, <1>5

\* Every pod follows the Secret at a distance of at most one rotation.
LEMMA PodsStep == TokenInv /\ [Next]_vars => PodsInv'
<1> SUFFICES ASSUME TokenInv, [Next]_vars PROVE PodsInv'
  OBVIOUS
<1> USE ConstantsAssumption
<1>1. RepoInv /\ ~Combine /\ SizesInv /\ PodsInv /\ TypeOK
  BY DEF TokenInv, RepoInv
<1>t. /\ secret \in Secrets /\ num \in 0..MaxKeys /\ deployed \in 0..MaxKeys /\ n \in 0..MaxKeys
      /\ pod \in [Pods -> [items: 0..MaxKeys, keys: Data]]
  BY <1>1, TypeParts
<1>2. \A p \in Pods : Peer(pod[p].keys, pod[p].keys) /\ Peer(secret.keys, secret.keys)
  BY DEF Peer
<1>3. CASE ~Exists(secret) /\ pod' = pod
  BY <1>1, <1>3 DEF PodsInv, SizesInv, Running
<1>4. CASE /\ Exists(secret) /\ pc = "save" /\ Size(secret'.keys) = num
           /\ ~IsDue(secret)' /\ Usable(secret.keys) /\ Usable(secret'.keys) /\ pod' = pod
           /\ \/ IsDue(secret) /\ Size(secret.keys) = num /\ Turned(secret.keys, secret'.keys, num, stored)
              \/ num <= Size(secret.keys) /\ Cut(secret.keys, secret'.keys, Size(secret.keys), num)
  <2>1. num \in MinKeys..MaxKeys /\ stored \in Nat
    BY <1>1, <1>4 DEF RepoInv, FlowInv, TypeOK
  <2>2. \/ IsDue(secret) /\ Before(secret.keys, secret'.keys)
        \/ Peer(secret.keys, secret'.keys)
    BY <1>4, <2>1, NewKeysReachPods
  <2>3. ASSUME NEW p \in Pods, Running(p)
        PROVE  Peer(pod[p].keys, secret'.keys) \/ Before(pod[p].keys, secret'.keys)
    BY <1>1, <2>2, <2>3 DEF PodsInv, Peer, Before
  <2> QED BY <1>1, <1>4, <2>3 DEF PodsInv, Running
<1>5. ASSUME secret'.keys = secret.keys, IsDue(secret)' => IsDue(secret), pod' = pod
      PROVE  PodsInv'
  BY <1>1, <1>5 DEF PodsInv, Running
<1>6. ASSUME NEW p \in Pods, secret' = secret, dueUpTo' = dueUpTo,
             \A q \in Pods : q # p => pod'[q] = pod[q],
             pod'[p].keys = secret.keys, Usable(secret.keys)
      PROVE  PodsInv'
  <2>1. Peer(pod'[p].keys, secret'.keys) /\ Usable(pod'[p].keys)
    BY <1>2, <1>6
  <2>2. IsDue(secret)' = IsDue(secret)
    BY <1>6 DEF IsDue
  <2>3. ASSUME NEW q \in Pods, Running(q)', q # p
        PROVE  /\ Usable(pod'[q].keys)
               /\ Peer(pod'[q].keys, secret'.keys) \/ Before(pod'[q].keys, secret'.keys)
               /\ IsDue(secret)' => Peer(pod'[q].keys, secret'.keys)
    BY <1>1, <1>6, <2>2, <2>3 DEF PodsInv, Running
  <2> QED BY <2>1, <2>3 DEF PodsInv
<1>7. CASE TimePasses
  <2>1. /\ secret' = secret /\ pod' = pod /\ Exists(secret) /\ Size(secret.keys) = n
        /\ \A p \in Pods : pod[p] = Mounted(n)
    BY <1>1, <1>7 DEF TimePasses, PodsUpToDate, podVars, Size
  <2>2. Mountable(n)
    <3>1. \A j \in Idx : secret.keys[j] # 0 <=> j < n
      BY <1>1, <2>1 DEF RepoInv, CopiesInv, Sound, Whole
    <3>2. 0..(n - 1) \subseteq Idx
      BY <1>t DEF Idx
    <3> QED BY <1>t, <3>1, <3>2 DEF Mountable
  <2>3. Usable(secret.keys) /\ Mounted(n).keys = secret.keys
    BY <1>1, <1>t, <2>1, <2>2, MountsAll
  <2> QED BY <1>2, <2>1, <2>3 DEF PodsInv
<1>8. ASSUME NEW p \in Pods, StartPod(p) \/ PropagateKeys(p)
      PROVE  PodsInv'
  <2> DEFINE m == IF StartPod(p) THEN deployed ELSE pod[p].items
  <2>1. /\ secret' = secret /\ dueUpTo' = dueUpTo
        /\ pod' = [pod EXCEPT ![p] = Mounted(m)] /\ Mountable(m)
    BY <1>8, <1>t DEF StartPod, PropagateKeys, envVars
  <2>2. m \in 0..MaxKeys /\ Exists(secret) /\ Size(secret.keys) <= m
    <3>1. CASE StartPod(p)
      BY <1>1, <1>t, <3>1 DEF StartPod, SizesInv
    <3>2. CASE ~StartPod(p)
      BY <1>1, <1>8, <1>t, <3>2 DEF PropagateKeys, SizesInv
    <3> QED BY <3>1, <3>2
  <2> HIDE DEF m
  <2>3. Usable(secret.keys) /\ Mounted(m).keys = secret.keys
    BY <1>1, <2>1, <2>2, MountsAll
  <2>4. pod'[p].keys = secret.keys /\ \A q \in Pods : q # p => pod'[q] = pod[q]
    BY <1>t, <2>1, <2>3
  <2> QED BY <1>6, <2>1, <2>3, <2>4
<1>9. CASE LoseAnnotation
  <2>1. secret'.keys = secret.keys /\ secret'.rotatedat = BadStamp /\ pod' = pod
    BY <1>t, <1>9 DEF LoseAnnotation, Secrets, podVars
  <2>2. ~IsDue(secret)'
    BY <2>1 DEF IsDue
  <2> QED BY <1>5, <2>1, <2>2
<1>10. ASSUME secret' = secret, dueUpTo' = dueUpTo, pod' = pod
       PROVE  PodsInv'
  <2>1. IsDue(secret)' => IsDue(secret)
    BY <1>10 DEF IsDue
  <2> QED BY <1>5, <1>10, <2>1
<1>11. CASE \/ EnsureFernetKeys \/ RotateKeys \/ TrimKeys \/ ShiftDown \/ GrowKeys \/ InsertKey
            \/ Deploy \/ Abort \/ SyncCache
            \/ \E m \in MinKeys..MaxKeys : EditMaxActiveKeys(m)
  <2>1. secret' = secret /\ dueUpTo' = dueUpTo /\ pod' = pod
    BY <1>11 DEF EnsureFernetKeys, RotateKeys, TrimKeys, ShiftDown, GrowKeys, InsertKey, Deploy, Abort,
         SyncCache, EditMaxActiveKeys, Unchanged, envVars, podVars
  <2> QED BY <1>10, <2>1
<1>12. CASE UNCHANGED vars
  BY <1>10, <1>12 DEF vars, envVars, podVars
<1>13. CASE secret'.keys = secret.keys /\ (CreateKeys \/ SaveKeys)
  <2>1. dueUpTo' = dueUpTo /\ pod' = pod
    BY <1>13 DEF CreateKeys, SaveKeys, Unchanged, envVars, podVars
  <2>2. IsDue(secret)' => IsDue(secret)
    <3>1. dueUpTo \in Nat
      BY <1>1 DEF TypeOK
    <3>2. CASE secret' = secret
      BY <2>1, <3>2 DEF IsDue
    <3>3. CASE secret'.rotatedat = dueUpTo + 1
      BY <2>1, <3>1, <3>3 DEF IsDue
    <3>4. ~Replaced
      BY DEF Replaced, TokenInv
    <3>5. secret' = secret \/ secret'.rotatedat = dueUpTo + 1
      BY <1>13, <3>4 DEF CreateKeys, SaveKeys
    <3> QED BY <3>2, <3>3, <3>5
  <2> QED BY <1>5, <1>13, <2>1, <2>2
<1>14. CASE secret'.keys = secret.keys
  BY <1>7, <1>8, <1>9, <1>11, <1>12, <1>13, <1>14 DEF Next, Ensure
<1> QED BY <1>3, <1>4, <1>14, SecretSteps

\* Two pods that follow the Secret that closely understand each other.
LEMMA PodsAgree == TokenInv => TokensAccepted
<1> SUFFICES ASSUME TokenInv, NEW p \in Pods, NEW q \in Pods, Running(p), Running(q)
             PROVE  Primary(pod[p].keys) \in KeySet(pod[q].keys)
  BY DEF TokensAccepted
<1> USE ConstantsAssumption
<1> DEFINE S == secret.keys
           d == pod[p].keys
           e == pod[q].keys
           a == Size(e)
<1>1. Usable(d) /\ Usable(e) /\ (Peer(d, S) \/ Before(d, S)) /\ (Peer(e, S) \/ Before(e, S))
  BY DEF TokenInv, PodsInv
<1>2. /\ a \in MinKeys..MaxKeys /\ Whole(e) /\ e \in Data
  BY <1>1 DEF Usable
<1>3. Primary(e) = e[a - 1] /\ \A j \in Idx : j < a => e[j] \in KeySet(e)
  BY <1>2, PrimaryOf
<1>4. 0 \in Idx /\ 0 < a /\ a - 1 \in Idx /\ a - 1 < a /\ a - 2 \in Idx /\ a - 2 < a
  BY <1>2 DEF Idx
<1>5. e[0] \in KeySet(e) /\ Primary(e) \in KeySet(e) /\ Second(e) \in KeySet(e)
  BY <1>3, <1>4 DEF Second
<1>6. Primary(d) \in {e[0], Primary(e), Second(e)}
  BY <1>1 DEF Peer, Before
<1> QED BY <1>5, <1>6

\* A token that one pod issues is accepted by all the others, while kubelet
\* refreshes them at its own pace: as long as the number of keys is not raised,
\* no rotation falls due while it changes and the Secret is created once.
THEOREM TokensStayAccepted ==
  ~Combine /\ ~Reread /\ "grow" \notin UserOps /\ Spec => []TokensAccepted
<1>1. ~Combine /\ ~Reread /\ "grow" \notin UserOps /\ Init => TokenInv
  <2> SUFFICES ASSUME ~Combine, ~Reread, "grow" \notin UserOps, Init PROVE TokenInv
    OBVIOUS
  <2>1. RepoInv
    BY RepoInit
  <2>2. /\ ~Exists(secret) /\ ~Exists(cache) /\ pc = "idle" /\ deployed = 0
        /\ \A p \in Pods : ~Running(p)
    BY Empty DEF Init, Running, NoPod
  <2> QED BY <2>1, <2>2 DEF TokenInv, SizesInv, PodsInv, Loops
<1>2. TokenInv /\ [Next]_vars => TokenInv'
  BY RepoStep, SizesStep, PodsStep DEF TokenInv
<1> QED BY <1>1, <1>2, PodsAgree, PTL DEF Spec

=============================================================================
