------------------------- MODULE ObjectStorageProofs -------------------------
(***************************************************************************)
(* Theorems about the object storage client in a deployment, for any       *)
(* number of processes and threads, wherever the threads run, and for any  *)
(* number of failed calls and deaths.                                      *)
(***************************************************************************)
EXTENDS Deployment, TLAPS

USE NoThreadAssumption, PlacementsAssumption, StorageBounds

-----------------------------------------------------------------------------
(* What a step of the deployment does to the storage client.               *)

LEMMA NextStorageCases ==
    ASSUME [Next]_vars
    PROVE  \/ \E t \in Threads, op \in Operations, k \in Keys : BeginCall(t, op, k)
           \/ \E t \in Threads : CallStep(t)
           \/ \E dead : LoseMemory(dead)
           \/ UNCHANGED storageVars
  <1>1. CASE \E c \in Containers : Start(c) \/ ContainerDies(c)
    BY <1>1 DEF Start, ContainerDies
  <1>2. CASE \E t \in Threads : Call(t) \/ ThreadStep(t)
    BY <1>2 DEF Call, ThreadStep
  <1>3. CASE \E p \in Processes : WorkerDies(p)
    BY <1>3 DEF WorkerDies
  <1>4. CASE UNCHANGED vars
    BY <1>4 DEF vars
  <1> QED BY <1>1, <1>2, <1>3, <1>4 DEF Next

-----------------------------------------------------------------------------
(* The inductive invariant.                                                *)

ThreadRow == [pc : ThreadPcs, op : Operations \cup {"none"}, key : Keys \cup {"none"},
              slot : Slots, self : Holders]

StorageTypes ==
    /\ processOf \in Placements
    /\ clients \in [Processes -> [Slots -> Holders]]
    /\ cached \in [Processes -> Holders]
    /\ bucketReady \in [Threads -> BOOLEAN]
    /\ bucketLock \in [Threads -> Holders]
    /\ thread \in [Threads -> ThreadRow]
    /\ bucket \in {"missing", "public", "private"}
    /\ objects \subseteq Keys
    /\ storageFaults \in 0 .. MaxStorageFaults

ClientsMade(p) ==
    /\ clients[p]["client"] # NoThread
    /\ PublicEndpoint => clients[p]["presign"] # NoThread

Working(t) == thread[t].pc \notin {"idle"} \cup BuildingPcs

\* What a thread knows at each place of a call.
ThreadOK(t) ==
    /\ Working(t) <=> thread[t].self # NoThread
    /\ Working(t) => processOf[Self(t)] = processOf[t]
    /\ Working(t) \/ ThreadAt(t, "keep") => ClientsMade(processOf[t])
    /\ thread[t].slot = "presign" => clients[processOf[t]]["client"] # NoThread
    /\ ThreadAt(t, "idle") \/ thread[t].key \in Keys

\* The object in the cache of a process is one of its own, made with its clients.
CacheOK(p) ==
    cached[p] # NoThread => processOf[cached[p]] = p /\ ClientsMade(p)

StorageInv ==
    /\ StorageTypes
    /\ \A t \in Threads : ThreadOK(t)
    /\ \A p \in Processes : CacheOK(p)

-----------------------------------------------------------------------------
(* Types.                                                                  *)

LEMMA ProcessOfType ==
    ASSUME StorageTypes, NEW t \in Threads
    PROVE  processOf[t] \in Processes
  BY DEF StorageTypes

LEMMA IdleThreadType == IdleThread \in ThreadRow
  BY DEF IdleThread, ThreadRow, ThreadPcs, Slots, Holders

LEMMA ThreadGoesType ==
    ASSUME StorageTypes, NEW t \in Threads, NEW pc \in ThreadPcs, ThreadGoes(t, pc)
    PROVE  thread' \in [Threads -> ThreadRow]
  BY DEF StorageTypes, ThreadGoes, ThreadRow

LEMMA EndCallType ==
    ASSUME StorageTypes, NEW t \in Threads, EndCall(t)
    PROVE  thread' \in [Threads -> ThreadRow]
  BY IdleThreadType DEF StorageTypes, EndCall

LEMMA AfterSlotIs ==
    ASSUME NEW s \in Slots
    PROVE  \/ /\ s = "client" /\ PublicEndpoint
              /\ AfterSlot(s)[1] = "look" /\ AfterSlot(s)[2] = "presign"
           \/ /\ s = "presign" \/ ~PublicEndpoint
              /\ AfterSlot(s)[1] = "keep" /\ AfterSlot(s)[2] = "client"
  BY DEF AfterSlot, Slots

LEMMA NextSlotType ==
    ASSUME StorageTypes, NEW t \in Threads, NextSlot(t)
    PROVE  /\ thread' \in [Threads -> ThreadRow]
           /\ thread'[t].self = thread[t].self /\ thread'[t].key = thread[t].key
           /\ \/ /\ thread[t].slot = "client" /\ PublicEndpoint
                 /\ thread'[t].pc = "look" /\ thread'[t].slot = "presign"
              \/ /\ thread[t].slot = "presign" \/ ~PublicEndpoint
                 /\ thread'[t].pc = "keep" /\ thread'[t].slot = "client"
  <1>1. thread[t].slot \in Slots
    BY DEF StorageTypes, ThreadRow
  <1>2. PICK pc, s : /\ thread' = [thread EXCEPT ![t].pc = pc, ![t].slot = s]
                     /\ pc = AfterSlot(thread[t].slot)[1] /\ s = AfterSlot(thread[t].slot)[2]
    BY DEF NextSlot
  <1>3. pc \in ThreadPcs /\ s \in Slots
    BY <1>1, <1>2, AfterSlotIs DEF ThreadPcs, BuildingPcs, Slots
  <1>4. thread' \in [Threads -> ThreadRow]
    <2>1. thread \in [Threads -> ThreadRow] /\ thread[t] \in ThreadRow
      BY DEF StorageTypes
    <2>2. [thread[t] EXCEPT !.pc = pc, !.slot = s] \in ThreadRow
      BY <1>3, <2>1 DEF ThreadRow
    <2>3. thread' = [thread EXCEPT ![t] = [thread[t] EXCEPT !.pc = pc, !.slot = s]]
      BY <1>2, <2>1
    <2> QED BY <2>1, <2>2, <2>3
  <1>5. /\ thread'[t].pc = pc /\ thread'[t].slot = s
        /\ thread'[t].self = thread[t].self /\ thread'[t].key = thread[t].key
    BY <1>2 DEF StorageTypes, ThreadRow
  <1> QED BY <1>1, <1>2, <1>4, <1>5, AfterSlotIs

LEMMA FirstStepType == \A op : FirstStep(op) \in {"ensure", "remove"}
  BY DEF FirstStep

LEMMA SelfType ==
    ASSUME StorageTypes, NEW t \in Threads, ThreadOK(t), Working(t)
    PROVE  Self(t) \in Threads
  BY DEF StorageTypes, ThreadOK, ThreadRow, Holders, Self

LEMMA FaultType ==
    ASSUME StorageTypes, StorageFault \/ NoStorageFault
    PROVE  storageFaults' \in 0 .. MaxStorageFaults
  BY DEF StorageTypes, StorageFault, NoStorageFault

LEMMA UnlockedType ==
    ASSUME StorageTypes, NEW t
    PROVE  Unlocked(t) \in [Threads -> Holders]
  BY DEF StorageTypes, Unlocked, Holders

LEMMA BeginCallTypes ==
    ASSUME StorageTypes, NEW t \in Threads, NEW op \in Operations, NEW k \in Keys,
           BeginCall(t, op, k)
    PROVE  StorageTypes'
  <1>1. cached[processOf[t]] \in Holders
    BY ProcessOfType DEF StorageTypes
  <1>2. \E pc \in ThreadPcs :
           thread' = [thread EXCEPT ![t] = [pc |-> pc, op |-> op, key |-> k,
                                           slot |-> "client", self |-> cached[processOf[t]]]]
    BY FirstStepType DEF BeginCall, ThreadPcs, BuildingPcs
  <1>3. thread' \in [Threads -> ThreadRow]
    BY <1>1, <1>2 DEF StorageTypes, ThreadRow, Slots
  <1> QED BY <1>3 DEF BeginCall, StorageTypes, memory, server

LEMMA CallStepTypes ==
    ASSUME StorageTypes, NEW t \in Threads, ThreadOK(t), CallStep(t)
    PROVE  StorageTypes'
  <1> USE DEF memory, server
  <1>0. UNCHANGED processOf
    BY DEF CallStep
  <1>1. CASE LookUpClient(t)
    <2>1. thread' \in [Threads -> ThreadRow]
      BY <1>1, ThreadGoesType, NextSlotType DEF LookUpClient, ThreadPcs, BuildingPcs
    <2> QED BY <1>0, <1>1, <2>1 DEF LookUpClient, StorageTypes
  <1>2. CASE BuildClient(t)
    <2>1. thread' \in [Threads -> ThreadRow]
      BY <1>2, NextSlotType DEF BuildClient
    <2>2. processOf[t] \in Processes
      BY ProcessOfType
    <2>3. clients' \in [Processes -> [Slots -> Holders]]
      BY <1>2, <2>2 DEF BuildClient, StorageTypes, Holders
    <2> QED BY <1>0, <1>2, <2>1, <2>3 DEF BuildClient, StorageTypes
  <1>3. CASE KeepStorage(t)
    <2>1. thread' \in [Threads -> ThreadRow]
      <3>1. PICK pc \in ThreadPcs : thread' = [thread EXCEPT ![t].pc = pc, ![t].self = t]
        BY <1>3, FirstStepType DEF KeepStorage, ThreadPcs
      <3>2. thread \in [Threads -> ThreadRow] /\ thread[t] \in ThreadRow
        BY DEF StorageTypes
      <3>3. [thread[t] EXCEPT !.pc = pc, !.self = t] \in ThreadRow
        BY <3>2 DEF ThreadRow, Holders
      <3>4. thread' = [thread EXCEPT ![t] = [thread[t] EXCEPT !.pc = pc, !.self = t]]
        BY <3>1, <3>2
      <3> QED BY <3>2, <3>3, <3>4
    <2>2. cached' \in [Processes -> Holders] /\ bucketReady' \in [Threads -> BOOLEAN]
      BY <1>3, ProcessOfType DEF KeepStorage, StorageTypes, Holders
    <2> QED BY <1>0, <1>3, <2>1, <2>2 DEF KeepStorage, StorageTypes
  <1>4. CASE LookAtFlag(t)
    <2>1. thread' \in [Threads -> ThreadRow]
      <3>1. PICK pc \in ThreadPcs : ThreadGoes(t, pc)
        BY <1>4 DEF LookAtFlag, ThreadPcs
      <3> QED BY <3>1, ThreadGoesType
    <2> QED BY <1>0, <1>4, <2>1 DEF LookAtFlag, StorageTypes
  <1>5. CASE LockBucket(t)
    <2>1. thread' \in [Threads -> ThreadRow]
      BY <1>5, ThreadGoesType DEF LockBucket, ThreadPcs, PreparingPcs
    <2>2. bucketLock' \in [Threads -> Holders]
      BY <1>5 DEF LockBucket, StorageTypes, Holders
    <2> QED BY <1>0, <1>5, <2>1, <2>2 DEF LockBucket, StorageTypes
  <1>6. CASE BucketExists(t)
    <2>1. thread' \in [Threads -> ThreadRow]
      <3>1. (\E pc \in ThreadPcs : ThreadGoes(t, pc)) \/ EndCall(t)
        BY <1>6 DEF BucketExists, PreparationFails, ThreadPcs, PreparingPcs
      <3> QED BY <3>1, ThreadGoesType, EndCallType
    <2>2. bucketLock' \in [Threads -> Holders] /\ bucket' = bucket
      BY <1>6, UnlockedType DEF BucketExists, PreparationFails, StorageTypes
    <2>3. storageFaults' \in 0 .. MaxStorageFaults
      BY <1>6, FaultType DEF BucketExists
    <2> QED BY <1>0, <1>6, <2>1, <2>2, <2>3 DEF BucketExists, StorageTypes
  <1>7. CASE MakeBucket(t)
    <2>1. thread' \in [Threads -> ThreadRow]
      BY <1>7, ThreadGoesType, EndCallType
      DEF MakeBucket, PreparationFails, ThreadPcs, PreparingPcs
    <2>2. bucketLock' \in [Threads -> Holders] /\ bucket' \in {"missing", "public", "private"}
      BY <1>7, UnlockedType DEF MakeBucket, PreparationFails, StorageTypes
    <2>3. storageFaults' \in 0 .. MaxStorageFaults
      BY <1>7, FaultType DEF MakeBucket
    <2> QED BY <1>0, <1>7, <2>1, <2>2, <2>3 DEF MakeBucket, StorageTypes
  <1>8. CASE DeletePolicy(t)
    <2>1. thread' \in [Threads -> ThreadRow]
      BY <1>8, ThreadGoesType, EndCallType DEF DeletePolicy, PreparationFails, ThreadPcs
    <2>2. bucketLock' \in [Threads -> Holders] /\ bucket' \in {"missing", "public", "private"}
      BY <1>8, UnlockedType DEF DeletePolicy, PreparationFails, StorageTypes, WithoutPolicy
    <2>3. bucketReady' \in [Threads -> BOOLEAN]
      BY <1>8 DEF DeletePolicy, StorageTypes
    <2>4. storageFaults' \in 0 .. MaxStorageFaults
      BY <1>8, FaultType DEF DeletePolicy
    <2> QED BY <1>0, <1>8, <2>1, <2>2, <2>3, <2>4 DEF DeletePolicy, StorageTypes
  <1>9. CASE PutObject(t)
    <2>1. thread' \in [Threads -> ThreadRow]
      BY <1>9, EndCallType DEF PutObject
    <2>2. objects' \subseteq Keys
      BY <1>9 DEF PutObject, StorageTypes, ThreadOK, ThreadAt
    <2>3. storageFaults' \in 0 .. MaxStorageFaults
      BY <1>9, FaultType DEF PutObject
    <2> QED BY <1>0, <1>9, <2>1, <2>2, <2>3 DEF PutObject, StorageTypes
  <1>10. CASE RemoveObject(t)
    <2>1. thread' \in [Threads -> ThreadRow]
      BY <1>10, EndCallType DEF RemoveObject
    <2>2. objects' \subseteq Keys
      BY <1>10 DEF RemoveObject, StorageTypes
    <2>3. storageFaults' \in 0 .. MaxStorageFaults
      BY <1>10, FaultType DEF RemoveObject
    <2> QED BY <1>0, <1>10, <2>1, <2>2, <2>3 DEF RemoveObject, StorageTypes
  <1> QED
    BY <1>1, <1>2, <1>3, <1>4, <1>5, <1>6, <1>7, <1>8, <1>9, <1>10 DEF CallStep

LEMMA LoseMemoryTypes ==
    ASSUME StorageTypes, NEW dead, LoseMemory(dead)
    PROVE  StorageTypes'
  <1>1. clients' \in [Processes -> [Slots -> Holders]] /\ cached' \in [Processes -> Holders]
    BY DEF LoseMemory, StorageTypes, Holders
  <1>2. bucketLock' \in [Threads -> Holders] /\ thread' \in [Threads -> ThreadRow]
    BY IdleThreadType DEF LoseMemory, StorageTypes, Holders
  <1>3. bucketReady' \in [Threads -> BOOLEAN]
    BY DEF LoseMemory, StorageTypes
  <1> QED BY <1>1, <1>2, <1>3 DEF LoseMemory, StorageTypes, server

-----------------------------------------------------------------------------
(* Clients are made once, and what a thread knows of them stays true while *)
(* others go on.                                                           *)

ClientsStay ==
    \A p \in Processes, s \in Slots : clients[p][s] # NoThread => clients'[p][s] = clients[p][s]

LEMMA CallStepClients ==
    ASSUME StorageTypes, NEW t \in Threads, CallStep(t)
    PROVE  ClientsStay
  <1>1. CASE BuildClient(t)
    <2>1. processOf[t] \in Processes
      BY ProcessOfType
    <2> QED BY <1>1, <2>1 DEF BuildClient, ClientMissing, ClientsStay, StorageTypes
  <1>2. CASE ~BuildClient(t)
    <2>1. UNCHANGED clients
      BY <1>2 DEF CallStep, LookUpClient, KeepStorage, LookAtFlag, LockBucket, BucketExists,
                  MakeBucket, DeletePolicy, PutObject, RemoveObject, memory
    <2> QED BY <2>1 DEF ClientsStay
  <1> QED BY <1>1, <1>2

LEMMA CallStepOthers ==
    ASSUME StorageTypes, NEW t \in Threads, CallStep(t), NEW u \in Threads, u # t
    PROVE  thread'[u] = thread[u]
  BY DEF CallStep, LookUpClient, BuildClient, KeepStorage, LookAtFlag, LockBucket, BucketExists,
         MakeBucket, DeletePolicy, PutObject, RemoveObject, NextSlot, ThreadGoes, EndCall,
         PreparationFails, StorageTypes

LEMMA MadeStays ==
    ASSUME ClientsStay, NEW p \in Processes
    PROVE  /\ clients[p]["client"] # NoThread => clients'[p]["client"] # NoThread
           /\ ClientsMade(p) => ClientsMade(p)'
  BY DEF ClientsStay, ClientsMade, Slots

LEMMA OtherOK ==
    ASSUME StorageTypes, ClientsStay, UNCHANGED processOf,
           NEW u \in Threads, thread'[u] = thread[u], ThreadOK(u)
    PROVE  ThreadOK(u)'
  <1>1. processOf[u] \in Processes
    BY ProcessOfType
  <1> QED BY <1>1, MadeStays DEF ThreadOK, Working, ThreadAt, Self

LEMMA BeginCallOK ==
    ASSUME StorageInv, NEW t \in Threads, NEW op \in Operations, NEW k \in Keys,
           BeginCall(t, op, k)
    PROVE  ThreadOK(t)'
  <1> DEFINE p == processOf[t]
  <1>1. p \in Processes
    BY ProcessOfType DEF StorageInv
  <1>2. UNCHANGED <<processOf, clients, cached>>
    BY DEF BeginCall, memory
  <1>3. /\ thread'[t].self = cached[p] /\ thread'[t].slot = "client" /\ thread'[t].key = k
        /\ cached[p] = NoThread => thread'[t].pc = "look"
        /\ cached[p] # NoThread => thread'[t].pc \in {"ensure", "remove"}
    BY FirstStepType DEF BeginCall, StorageInv, StorageTypes
  <1>4. CacheOK(p)
    BY <1>1 DEF StorageInv
  <1>5. CASE cached[p] = NoThread
    BY <1>2, <1>3, <1>5 DEF ThreadOK, Working, BuildingPcs, ThreadAt
  <1>6. CASE cached[p] # NoThread
    BY <1>2, <1>3, <1>4, <1>6
    DEF ThreadOK, Working, BuildingPcs, ThreadAt, CacheOK, ClientsMade, Self
  <1> QED BY <1>5, <1>6

\* The call of the thread ends, or goes on with what the thread knows.
LEMMA KnownOK ==
    ASSUME StorageTypes, ClientsStay, UNCHANGED processOf, NEW t \in Threads, ThreadOK(t),
           Working(t),
           EndCall(t) \/ \E pc \in ThreadPcs \ ({"idle"} \cup BuildingPcs) : ThreadGoes(t, pc)
    PROVE  ThreadOK(t)'
  <1>1. processOf[t] \in Processes
    BY ProcessOfType
  <1>2. CASE EndCall(t)
    <2>1. thread'[t] = IdleThread
      BY <1>2 DEF EndCall, StorageTypes
    <2> QED BY <2>1 DEF IdleThread, ThreadOK, Working, ThreadAt
  <1>3. ASSUME NEW pc \in ThreadPcs \ ({"idle"} \cup BuildingPcs), ThreadGoes(t, pc)
        PROVE  ThreadOK(t)'
    <2>1. /\ thread'[t].pc = pc /\ thread'[t].self = thread[t].self
          /\ thread'[t].slot = thread[t].slot /\ thread'[t].key = thread[t].key
      BY <1>3 DEF ThreadGoes, StorageTypes, ThreadRow
    <2>2. Working(t)' /\ ~ThreadAt(t, "idle")
      BY <1>3, <2>1 DEF Working, ThreadAt
    <2> QED BY <1>1, <2>1, <2>2, MadeStays DEF ThreadOK, Working, ThreadAt, Self, BuildingPcs
  <1> QED BY <1>2, <1>3

LEMMA CallStepOK ==
    ASSUME StorageInv, NEW t \in Threads, CallStep(t)
    PROVE  ThreadOK(t)'
  <1> DEFINE p == processOf[t]
             s == thread[t].slot
  <1>0. StorageTypes /\ ThreadOK(t)
    BY DEF StorageInv
  <1>1. /\ p \in Processes /\ UNCHANGED processOf /\ s \in Slots
        /\ ClientsStay
    BY <1>0, ProcessOfType, CallStepClients DEF CallStep, StorageTypes, ThreadRow
  <1>2. CASE NextSlot(t) /\ clients'[p][s] # NoThread /\ thread[t].pc \in {"look", "build"}
    <2>1. /\ thread'[t].self = thread[t].self /\ thread'[t].key = thread[t].key
          /\ \/ /\ s = "client" /\ PublicEndpoint
                /\ thread'[t].pc = "look" /\ thread'[t].slot = "presign"
             \/ /\ s = "presign" \/ ~PublicEndpoint
                /\ thread'[t].pc = "keep" /\ thread'[t].slot = "client"
      BY <1>0, <1>2, NextSlotType
    <2>2. ~Working(t) /\ ~Working(t)' /\ ~ThreadAt(t, "idle")
      BY <1>2, <2>1 DEF Working, BuildingPcs, ThreadAt
    <2>3. clients'[p]["client"] # NoThread
      BY <1>0, <1>1, <1>2, MadeStays DEF ThreadOK, Slots
    <2>4. thread'[t].pc = "keep" => ClientsMade(p)'
      BY <1>1, <1>2, <2>1, <2>3 DEF ClientsMade, Slots
    <2> QED BY <1>0, <1>1, <2>1, <2>2, <2>3, <2>4 DEF ThreadOK, ThreadAt
  <1>3. CASE LookUpClient(t)
    <2>1. CASE clients[p][s] = NoThread
      <3>1. /\ thread'[t].pc = "build" /\ thread'[t].self = thread[t].self
            /\ thread'[t].slot = s /\ thread'[t].key = thread[t].key
        BY <1>0, <1>3, <2>1 DEF LookUpClient, ThreadGoes, StorageTypes, ThreadRow
      <3>2. thread[t].pc = "look" /\ UNCHANGED clients
        BY <1>3 DEF LookUpClient, ThreadAt, memory
      <3> QED BY <1>0, <1>1, <3>1, <3>2 DEF ThreadOK, Working, BuildingPcs, ThreadAt
    <2>2. CASE clients[p][s] # NoThread
      BY <1>2, <1>3, <2>2 DEF LookUpClient, ThreadAt, memory
    <2> QED BY <2>1, <2>2
  <1>4. CASE BuildClient(t)
    <2>1. clients'[p][s] # NoThread
      BY <1>0, <1>1, <1>4 DEF BuildClient, ClientMissing, StorageTypes
    <2> QED BY <1>2, <1>4, <2>1 DEF BuildClient, ThreadAt
  <1>5. CASE KeepStorage(t)
    <2>1. /\ thread'[t].pc \in {"ensure", "remove"} /\ thread'[t].self = t
          /\ thread'[t].slot = s /\ thread'[t].key = thread[t].key
      BY <1>0, <1>5, FirstStepType DEF KeepStorage, StorageTypes, ThreadRow
    <2>2. thread[t].pc = "keep" /\ UNCHANGED clients
      BY <1>5 DEF KeepStorage, ThreadAt
    <2> QED BY <1>0, <1>1, <2>1, <2>2
            DEF ThreadOK, Working, BuildingPcs, ThreadAt, ClientsMade, Self
  <1>6. CASE LookAtFlag(t) \/ LockBucket(t) \/ BucketExists(t) \/ MakeBucket(t)
             \/ DeletePolicy(t) \/ PutObject(t) \/ RemoveObject(t)
    <2>1. Working(t)
      BY <1>6 DEF LookAtFlag, LockBucket, BucketExists, MakeBucket, DeletePolicy, PutObject,
                  RemoveObject, Working, ThreadAt, BuildingPcs
    <2>2. EndCall(t) \/ \E pc \in ThreadPcs \ ({"idle"} \cup BuildingPcs) : ThreadGoes(t, pc)
      BY <1>6 DEF LookAtFlag, LockBucket, BucketExists, MakeBucket, DeletePolicy, PutObject,
                  RemoveObject, PreparationFails, ThreadPcs, BuildingPcs, PreparingPcs
    <2> QED BY <1>0, <1>1, <2>1, <2>2, KnownOK
  <1> QED BY <1>3, <1>4, <1>5, <1>6 DEF CallStep

LEMMA CallStepCache ==
    ASSUME StorageInv, NEW t \in Threads, CallStep(t), NEW p \in Processes
    PROVE  CacheOK(p)'
  <1>0. StorageTypes /\ ThreadOK(t) /\ CacheOK(p)
    BY DEF StorageInv
  <1>1. UNCHANGED processOf /\ (ClientsMade(p) => ClientsMade(p)')
    BY <1>0, CallStepClients, MadeStays DEF CallStep
  <1>2. CASE KeepStorage(t)
    <2>1. ClientsMade(processOf[t])
      BY <1>0, <1>2 DEF KeepStorage, ThreadOK
    <2>2. cached'[p] = cached[p] \/ (cached'[p] = t /\ p = processOf[t])
      BY <1>0, <1>2 DEF KeepStorage, StorageTypes
    <2> QED BY <1>0, <1>1, <2>1, <2>2 DEF CacheOK
  <1>3. CASE ~KeepStorage(t)
    <2>1. UNCHANGED cached
      BY <1>3 DEF CallStep, LookUpClient, BuildClient, LookAtFlag, LockBucket, BucketExists,
                  MakeBucket, DeletePolicy, PutObject, RemoveObject, memory
    <2> QED BY <1>0, <1>1, <2>1 DEF CacheOK
  <1> QED BY <1>2, <1>3

LEMMA LoseMemoryOK ==
    ASSUME StorageInv, NEW dead, LoseMemory(dead)
    PROVE  /\ \A t \in Threads : ThreadOK(t)'
           /\ \A p \in Processes : CacheOK(p)'
  <1>0. StorageTypes /\ UNCHANGED processOf
    BY DEF StorageInv, LoseMemory
  <1>1. ASSUME NEW p \in Processes, p \notin dead
        PROVE  clients'[p] = clients[p] /\ cached'[p] = cached[p]
    BY <1>1 DEF LoseMemory
  <1>2. ASSUME NEW p \in Processes, p \in dead PROVE cached'[p] = NoThread
    BY <1>2 DEF LoseMemory
  <1>3. ASSUME NEW t \in Threads PROVE ThreadOK(t)'
    <2>1. ThreadOK(t) /\ processOf[t] \in Processes
      BY <1>0, ProcessOfType DEF StorageInv
    <2>2. CASE processOf[t] \in dead
      <3>1. thread'[t] = IdleThread
        BY <2>2 DEF LoseMemory
      <3> QED BY <3>1 DEF IdleThread, ThreadOK, Working, ThreadAt
    <2>3. CASE processOf[t] \notin dead
      <3>1. thread'[t] = thread[t]
        BY <2>3 DEF LoseMemory
      <3> QED BY <1>0, <1>1, <2>1, <2>3, <3>1
              DEF ThreadOK, Working, ThreadAt, Self, ClientsMade
    <2> QED BY <2>2, <2>3
  <1>4. ASSUME NEW p \in Processes PROVE CacheOK(p)'
    BY <1>0, <1>1, <1>2 DEF StorageInv, CacheOK, ClientsMade
  <1> QED BY <1>3, <1>4

LEMMA StorageInvInit == Init => StorageInv
  <1> SUFFICES ASSUME Init PROVE StorageInv
    OBVIOUS
  <1>1. StorageTypes
    BY IdleThreadType DEF Init, StorageInit, StorageTypes, Holders
  <1>2. \A t \in Threads : ThreadOK(t)
    BY DEF Init, StorageInit, IdleThread, ThreadOK, Working, ThreadAt
  <1>3. \A p \in Processes : CacheOK(p)
    BY DEF Init, StorageInit, CacheOK
  <1> QED BY <1>1, <1>2, <1>3 DEF StorageInv

LEMMA StorageInvStep == StorageInv /\ [Next]_vars => StorageInv'
  <1> SUFFICES ASSUME StorageInv, [Next]_vars PROVE StorageInv'
    OBVIOUS
  <1>1. ASSUME NEW t \in Threads, NEW op \in Operations, NEW k \in Keys, BeginCall(t, op, k)
        PROVE  StorageInv'
    <2>1. StorageTypes'
      BY <1>1, BeginCallTypes DEF StorageInv
    <2>2. UNCHANGED <<processOf, clients, cached>> /\ ClientsStay
      BY <1>1 DEF BeginCall, memory, ClientsStay
    <2>3. ASSUME NEW u \in Threads, u # t PROVE ThreadOK(u)'
      <3>1. thread'[u] = thread[u]
        BY <1>1, <2>3 DEF BeginCall, StorageInv, StorageTypes
      <3> QED BY <2>2, <3>1, OtherOK DEF StorageInv
    <2>4. ThreadOK(t)'
      BY <1>1, BeginCallOK
    <2>5. \A p \in Processes : CacheOK(p)'
      BY <2>2 DEF StorageInv, CacheOK, ClientsMade
    <2> QED BY <2>1, <2>3, <2>4, <2>5 DEF StorageInv
  <1>2. ASSUME NEW t \in Threads, CallStep(t) PROVE StorageInv'
    <2>1. StorageTypes /\ ThreadOK(t) /\ StorageTypes'
      BY <1>2, CallStepTypes DEF StorageInv
    <2>2. UNCHANGED processOf /\ ClientsStay
      BY <1>2, <2>1, CallStepClients DEF CallStep
    <2>3. \A u \in Threads : u # t => ThreadOK(u)'
      BY <1>2, <2>1, <2>2, CallStepOthers, OtherOK DEF StorageInv
    <2> QED BY <1>2, <2>1, <2>3, CallStepOK, CallStepCache DEF StorageInv
  <1>3. ASSUME NEW dead, LoseMemory(dead) PROVE StorageInv'
    BY <1>3, LoseMemoryTypes, LoseMemoryOK DEF StorageInv
  <1>4. CASE UNCHANGED storageVars
    BY <1>4 DEF storageVars, memory, server, StorageInv, StorageTypes, ThreadOK, Working,
                ThreadAt, Self, ClientsMade, CacheOK
  <1> QED BY <1>1, <1>2, <1>3, <1>4, NextStorageCases

LEMMA StorageInvCorrect == Spec => []StorageInv
  BY StorageInvInit, StorageInvStep, PTL DEF Spec

\* The variables of the storage client keep their types, and a thread that works with a
\* storage object has one of its own process, whose clients have been made.
THEOREM StorageTypesCorrect == Spec => []StorageTypeOK
  <1>1. StorageInv => StorageTypeOK
    BY DEF StorageInv, StorageTypes, StorageTypeOK, ThreadRow, ThreadOK, Working, ClientsMade
  <1> QED BY <1>1, StorageInvCorrect, PTL

-----------------------------------------------------------------------------
(* The bucket: it never becomes public again, so what a thread found out   *)
(* about it stays true, whoever has made it private.                       *)

LEMMA CallStepBucket ==
    ASSUME NEW t \in Threads, CallStep(t)
    PROVE  bucket' = bucket \/ bucket' = "private"
  BY DEF CallStep, LookUpClient, BuildClient, KeepStorage, LookAtFlag, LockBucket, BucketExists,
         MakeBucket, DeletePolicy, PutObject, RemoveObject, PreparationFails, WithoutPolicy,
         server

ReadyPart(t) == bucketReady[t] \/ ThreadAt(t, "put") => bucket = "private"

LEMMA CallStepReady ==
    ASSUME StorageInv, ReadyMeansPrivate, NEW t \in Threads, CallStep(t)
    PROVE  ReadyMeansPrivate'
  <1>0. /\ StorageTypes /\ ThreadOK(t)
        /\ \A u \in Threads : ReadyPart(u)
    BY DEF StorageInv, ReadyMeansPrivate, ReadyPart
  <1>1. \A u \in Threads : u # t => thread'[u] = thread[u]
    BY <1>0, CallStepOthers
  <1>2. Working(t) => Self(t) \in Threads
    BY <1>0, SelfType
  <1>3. CASE LookAtFlag(t) \/ LockBucket(t)
    <2>1. bucketReady' = bucketReady /\ bucket' = bucket
      BY <1>3 DEF LookAtFlag, LockBucket, memory, server
    <2>2. Working(t)
      BY <1>3 DEF LookAtFlag, LockBucket, Working, ThreadAt, BuildingPcs
    <2>3. ThreadAt(t, "put")' => bucketReady[Self(t)]
      BY <1>0, <1>3
      DEF LookAtFlag, LockBucket, ThreadAt, ThreadGoes, StorageTypes, ThreadRow
    <2> QED BY <1>0, <1>1, <1>2, <2>1, <2>2, <2>3 DEF ReadyMeansPrivate, ReadyPart, ThreadAt
  <1>4. CASE DeletePolicy(t)
    <2>1. CASE bucket' = "private"
      BY <2>1 DEF ReadyMeansPrivate
    <2>2. CASE bucket' # "private"
      <3>1. EndCall(t) /\ UNCHANGED <<bucket, bucketReady>>
        BY <1>4, <2>2 DEF DeletePolicy, PreparationFails, WithoutPolicy
      <3>2. ~ThreadAt(t, "put")'
        BY <1>0, <3>1 DEF EndCall, IdleThread, ThreadAt, StorageTypes
      <3> QED BY <1>0, <1>1, <3>1, <3>2 DEF ReadyMeansPrivate, ReadyPart, ThreadAt
    <2> QED BY <2>1, <2>2
  <1>5. CASE LookUpClient(t) \/ BuildClient(t) \/ KeepStorage(t) \/ BucketExists(t)
             \/ MakeBucket(t) \/ PutObject(t) \/ RemoveObject(t)
    <2>1. ~ThreadAt(t, "put")'
      <3>1. CASE NextSlot(t)
        BY <1>0, <3>1, NextSlotType DEF ThreadAt
      <3>2. CASE KeepStorage(t)
        BY <1>0, <3>2, FirstStepType DEF KeepStorage, ThreadAt, StorageTypes, ThreadRow
      <3>3. CASE EndCall(t)
        BY <1>0, <3>3 DEF EndCall, IdleThread, ThreadAt, StorageTypes
      <3>4. CASE ThreadGoes(t, "build") \/ ThreadGoes(t, "make") \/ ThreadGoes(t, "policy")
        BY <1>0, <3>4 DEF ThreadGoes, ThreadAt, StorageTypes, ThreadRow
      <3> QED BY <1>5, <3>1, <3>2, <3>3, <3>4
              DEF LookUpClient, BuildClient, BucketExists, MakeBucket, PutObject, RemoveObject,
                  PreparationFails
    <2>2. \A u \in Threads : bucketReady'[u] => bucketReady[u]
      BY <1>0, <1>5 DEF LookUpClient, BuildClient, KeepStorage, BucketExists, MakeBucket,
                        PutObject, RemoveObject, memory, StorageTypes
    <2> QED BY <1>0, <1>1, <2>1, <2>2, CallStepBucket DEF ReadyMeansPrivate, ReadyPart, ThreadAt
  <1> QED BY <1>3, <1>4, <1>5 DEF CallStep

\* Whatever threads share, processes die and calls fail: no object is uploaded into a
\* bucket that is missing or public, and no storage object believes in such a bucket.
THEOREM ReadyCorrect == Spec => []ReadyMeansPrivate
  <1>1. Init => ReadyMeansPrivate
    BY DEF Init, StorageInit, IdleThread, ReadyMeansPrivate, ThreadAt
  <1>2. StorageInv /\ ReadyMeansPrivate /\ [Next]_vars => ReadyMeansPrivate'
    <2> SUFFICES ASSUME StorageInv, ReadyMeansPrivate, [Next]_vars PROVE ReadyMeansPrivate'
      OBVIOUS
    <2>1. ASSUME NEW t \in Threads, NEW op \in Operations, NEW k \in Keys, BeginCall(t, op, k)
          PROVE  ReadyMeansPrivate'
      <3>1. UNCHANGED <<bucketReady, bucket>>
        BY <2>1 DEF BeginCall, memory, server
      <3>2. ~ThreadAt(t, "put")' /\ \A u \in Threads : u # t => thread'[u] = thread[u]
        BY <2>1, FirstStepType DEF BeginCall, StorageInv, StorageTypes, ThreadAt
      <3> QED BY <3>1, <3>2 DEF ReadyMeansPrivate, ThreadAt
    <2>2. ASSUME NEW dead, LoseMemory(dead) PROVE ReadyMeansPrivate'
      <3>1. bucket' = bucket
        BY <2>2 DEF LoseMemory, server
      <3>2. \A t \in Threads : /\ bucketReady'[t] => bucketReady[t]
                               /\ ThreadAt(t, "put")' => ThreadAt(t, "put")
        BY <2>2 DEF LoseMemory, IdleThread, ThreadAt
      <3> QED BY <3>1, <3>2 DEF ReadyMeansPrivate
    <2>3. CASE UNCHANGED storageVars
      BY <2>3 DEF storageVars, memory, server, ReadyMeansPrivate, ThreadAt
    <2> QED BY <2>1, <2>2, <2>3, CallStepReady, NextStorageCases
  <1> QED BY <1>1, <1>2, StorageInvCorrect, PTL DEF Spec

-----------------------------------------------------------------------------
(* The locks.                                                              *)

InSection(t, o) == thread[t].pc \in PreparingPcs /\ thread[t].self = o

LEMMA CallStepLocks ==
    ASSUME StorageInv, LocksHeldInside, NEW t \in Threads, CallStep(t)
    PROVE  LocksHeldInside'
  <1>0. /\ StorageTypes /\ ThreadOK(t)
        /\ \A u, o \in Threads : bucketLock[o] = u <=> InSection(u, o)
    BY DEF StorageInv, LocksHeldInside, InSection
  <1>1. \A u, o \in Threads : u # t => (InSection(u, o)' <=> InSection(u, o))
    BY <1>0, CallStepOthers DEF InSection
  <1>2. Working(t) => Self(t) \in Threads
    BY <1>0, SelfType
  <1>3. CASE UNCHANGED bucketLock
             /\ \A o \in Threads : InSection(t, o)' <=> InSection(t, o)
    BY <1>0, <1>1, <1>3 DEF LocksHeldInside, InSection
  <1>4. CASE bucketLock' = Unlocked(t) /\ thread[t].pc \in PreparingPcs
             /\ thread'[t].pc \notin PreparingPcs
    <2>1. Working(t)
      BY <1>4 DEF Working, PreparingPcs, BuildingPcs
    <2>2. bucketLock[Self(t)] = t
      BY <1>0, <1>2, <1>4, <2>1 DEF InSection, Self
    <2>3. \A o \in Threads : bucketLock'[o] = IF o = Self(t) THEN NoThread ELSE bucketLock[o]
      BY <1>0, <1>4 DEF Unlocked, StorageTypes
    <2> QED BY <1>0, <1>1, <1>4, <2>2, <2>3 DEF LocksHeldInside, InSection, Self
  <1>5. CASE LookUpClient(t) \/ BuildClient(t) \/ KeepStorage(t) \/ LookAtFlag(t)
             \/ PutObject(t) \/ RemoveObject(t)
    <2>1. thread[t].pc \notin PreparingPcs /\ UNCHANGED bucketLock
      BY <1>5 DEF LookUpClient, BuildClient, KeepStorage, LookAtFlag, PutObject, RemoveObject,
                  ThreadAt, PreparingPcs, memory
    <2>2. thread'[t].pc \notin PreparingPcs
      <3>1. CASE NextSlot(t)
        BY <1>0, <3>1, NextSlotType DEF PreparingPcs
      <3>2. CASE KeepStorage(t)
        BY <1>0, <3>2, FirstStepType DEF KeepStorage, PreparingPcs, StorageTypes, ThreadRow
      <3>3. CASE EndCall(t)
        BY <1>0, <3>3 DEF EndCall, IdleThread, PreparingPcs, StorageTypes
      <3>4. CASE ThreadGoes(t, "build") \/ ThreadGoes(t, "put") \/ ThreadGoes(t, "lock_bucket")
        BY <1>0, <3>4 DEF ThreadGoes, PreparingPcs, StorageTypes, ThreadRow
      <3> QED BY <1>5, <3>1, <3>2, <3>3, <3>4
              DEF LookUpClient, BuildClient, LookAtFlag, PutObject, RemoveObject
    <2> QED BY <1>3, <2>1, <2>2 DEF InSection
  <1>6. CASE LockBucket(t)
    <2>1. Working(t) /\ thread[t].pc \notin PreparingPcs
      BY <1>6 DEF LockBucket, ThreadAt, Working, BuildingPcs, PreparingPcs
    <2>2. CASE bucketReady[Self(t)]
      <3>1. thread'[t].pc = "put" /\ UNCHANGED bucketLock
        BY <1>0, <1>6, <2>2 DEF LockBucket, ThreadGoes, StorageTypes, ThreadRow
      <3> QED BY <1>3, <2>1, <3>1 DEF InSection, PreparingPcs
    <2>3. CASE ~bucketReady[Self(t)]
      <3>1. thread'[t].pc = "exists" /\ thread'[t].self = Self(t)
        BY <1>0, <1>6, <2>3 DEF LockBucket, ThreadGoes, StorageTypes, ThreadRow, Self
      <3>2. /\ bucketLock[Self(t)] = NoThread
            /\ \A o \in Threads : bucketLock'[o] = IF o = Self(t) THEN t ELSE bucketLock[o]
        BY <1>0, <1>6, <2>3 DEF LockBucket, StorageTypes
      <3> QED BY <1>0, <1>1, <1>2, <2>1, <3>1, <3>2
              DEF LocksHeldInside, InSection, PreparingPcs
    <2> QED BY <2>2, <2>3
  <1>7. CASE BucketExists(t) \/ MakeBucket(t) \/ DeletePolicy(t)
    <2>1. thread[t].pc \in PreparingPcs
      BY <1>7 DEF BucketExists, MakeBucket, DeletePolicy, ThreadAt, PreparingPcs
    <2>2. CASE EndCall(t) /\ bucketLock' = Unlocked(t)
      <3>1. thread'[t].pc \notin PreparingPcs
        BY <1>0, <2>2 DEF EndCall, IdleThread, PreparingPcs, StorageTypes
      <3> QED BY <1>4, <2>1, <2>2, <3>1
    <2>3. CASE ThreadGoes(t, "put") /\ bucketLock' = Unlocked(t)
      <3>1. thread'[t].pc \notin PreparingPcs
        BY <1>0, <2>3 DEF ThreadGoes, PreparingPcs, StorageTypes, ThreadRow
      <3> QED BY <1>4, <2>1, <2>3, <3>1
    <2>4. CASE (ThreadGoes(t, "make") \/ ThreadGoes(t, "policy")) /\ UNCHANGED bucketLock
      <3>1. thread'[t].pc \in PreparingPcs /\ thread'[t].self = thread[t].self
        BY <1>0, <2>4 DEF ThreadGoes, PreparingPcs, StorageTypes, ThreadRow
      <3> QED BY <1>3, <2>1, <2>4, <3>1 DEF InSection
    <2> QED BY <1>7, <2>2, <2>3, <2>4
            DEF BucketExists, MakeBucket, DeletePolicy, PreparationFails
  <1> QED BY <1>5, <1>6, <1>7 DEF CallStep

\* Every lock on a bucket is held by the one thread that is between taking and releasing
\* it; a call that fails there and a process that dies there leave none behind.
THEOREM LocksCorrect == Spec => []LocksHeldInside
  <1>1. Init => LocksHeldInside
    BY DEF Init, StorageInit, IdleThread, LocksHeldInside, PreparingPcs
  <1>2. StorageInv /\ LocksHeldInside /\ [Next]_vars => LocksHeldInside'
    <2> SUFFICES ASSUME StorageInv, LocksHeldInside, [Next]_vars PROVE LocksHeldInside'
      OBVIOUS
    <2>1. ASSUME NEW t \in Threads, NEW op \in Operations, NEW k \in Keys, BeginCall(t, op, k)
          PROVE  LocksHeldInside'
      <3>1. UNCHANGED bucketLock /\ thread[t].pc \notin PreparingPcs
        BY <2>1 DEF BeginCall, memory, ThreadAt, PreparingPcs
      <3>2. /\ thread'[t].pc \notin PreparingPcs
            /\ \A u \in Threads : u # t => thread'[u] = thread[u]
        BY <2>1, FirstStepType DEF BeginCall, StorageInv, StorageTypes, PreparingPcs
      <3> QED BY <3>1, <3>2 DEF LocksHeldInside
    <2>2. ASSUME NEW dead, LoseMemory(dead) PROVE LocksHeldInside'
      <3> DEFINE Lost(t) == processOf[t] \in dead
      <3>1. \A t \in Threads :
               /\ Lost(t) => thread'[t].pc \notin PreparingPcs /\ bucketLock'[t] = NoThread
               /\ ~Lost(t) => thread'[t] = thread[t] /\ bucketLock'[t] = bucketLock[t]
        BY <2>2 DEF LoseMemory, IdleThread, PreparingPcs
      <3>2. \A t, o \in Threads :
               thread[t].pc \in PreparingPcs /\ thread[t].self = o => (Lost(t) <=> Lost(o))
        BY DEF StorageInv, ThreadOK, Working, PreparingPcs, BuildingPcs, Self
      <3> QED BY <3>1, <3>2 DEF LocksHeldInside
    <2>3. CASE UNCHANGED storageVars
      BY <2>3 DEF storageVars, memory, LocksHeldInside
    <2> QED BY <2>1, <2>2, <2>3, CallStepLocks, NextStorageCases
  <1> QED BY <1>1, <1>2, StorageInvCorrect, PTL DEF Spec

-----------------------------------------------------------------------------
(* The clients and the promise.                                            *)

\* No thread replaces a client that its process already has.
THEOREM ClientsCorrect == Spec => ClientsKept
  <1> DEFINE Kept == \A p \in Processes, s \in Slots :
                        clients[p][s] # NoThread => clients'[p][s] \in {clients[p][s], NoThread}
  <1>1. StorageInv /\ [Next]_vars => Kept \/ UNCHANGED clients
    <2> SUFFICES ASSUME StorageInv, [Next]_vars PROVE Kept \/ UNCHANGED clients
      OBVIOUS
    <2>1. CASE \E t \in Threads : CallStep(t)
      BY <2>1, CallStepClients DEF StorageInv, ClientsStay
    <2>2. CASE \E dead : LoseMemory(dead)
      BY <2>2 DEF LoseMemory
    <2>3. CASE \E t \in Threads, op \in Operations, k \in Keys : BeginCall(t, op, k)
      BY <2>3 DEF BeginCall, memory
    <2>4. CASE UNCHANGED storageVars
      BY <2>4 DEF storageVars, memory
    <2> QED BY <2>1, <2>2, <2>3, <2>4, NextStorageCases
  <1> QED BY <1>1, StorageInvCorrect, PTL DEF Spec, ClientsKept

LEMMA BucketStep ==
    ASSUME StorageInv, ReadyMeansPrivate, NEW t \in Threads, CallStep(t)
    PROVE  AbstractBucket!Next \/ UNCHANGED <<bucket, objects>>
  <1>1. bucket \in {"missing", "public", "private"}
    BY DEF StorageInv, StorageTypes
  <1>2. CASE PutObject(t)
    <2>1. bucket = "private" /\ thread[t].key \in Keys
      BY <1>2 DEF PutObject, ReadyMeansPrivate, ThreadAt, StorageInv, ThreadOK
    <2>2. AbstractBucket!Put(thread[t].key) \/ UNCHANGED <<bucket, objects>>
      BY <1>2, <2>1 DEF PutObject, AbstractBucket!Put
    <2> QED BY <2>1, <2>2 DEF AbstractBucket!Next
  <1>3. CASE RemoveObject(t)
    <2>1. thread[t].key \in Keys
      BY <1>3 DEF RemoveObject, ThreadAt, StorageInv, ThreadOK
    <2>2. AbstractBucket!Remove(thread[t].key) \/ UNCHANGED <<bucket, objects>>
      BY <1>3 DEF RemoveObject, AbstractBucket!Remove
    <2> QED BY <2>1, <2>2 DEF AbstractBucket!Next
  <1>4. CASE ~PutObject(t) /\ ~RemoveObject(t)
    <2>1. UNCHANGED objects
      BY <1>4 DEF CallStep, LookUpClient, BuildClient, KeepStorage, LookAtFlag, LockBucket,
                  BucketExists, MakeBucket, DeletePolicy, server
    <2>2. AbstractBucket!Prepare \/ UNCHANGED <<bucket, objects>>
      BY <1>1, <2>1, CallStepBucket DEF AbstractBucket!Prepare
    <2> QED BY <2>2 DEF AbstractBucket!Next
  <1> QED BY <1>2, <1>3, <1>4

\* The threads of all processes together behave as one bucket that is made private first
\* and never public again.
THEOREM BucketImplemented == Spec => RefinesPrivateBucket
  <1>1. Init => AbstractBucket!Init
    BY DEF Init, StorageInit, AbstractBucket!Init, AbstractBucket!BucketStates
  <1>2. StorageInv /\ ReadyMeansPrivate /\ [Next]_vars
          => [AbstractBucket!Next]_<<bucket, objects>>
    <2> SUFFICES ASSUME StorageInv, ReadyMeansPrivate, [Next]_vars
                 PROVE  AbstractBucket!Next \/ UNCHANGED <<bucket, objects>>
      OBVIOUS
    <2>1. CASE \E t \in Threads : CallStep(t)
      BY <2>1, BucketStep
    <2>2. CASE \E dead : LoseMemory(dead)
      BY <2>2 DEF LoseMemory, server
    <2>3. CASE \E t \in Threads, op \in Operations, k \in Keys : BeginCall(t, op, k)
      BY <2>3 DEF BeginCall, server
    <2>4. CASE UNCHANGED storageVars
      BY <2>4 DEF storageVars, server
    <2> QED BY <2>1, <2>2, <2>3, <2>4, NextStorageCases
  <1> QED
    BY <1>1, <1>2, StorageInvCorrect, ReadyCorrect, PTL
    DEF Spec, RefinesPrivateBucket, AbstractBucket!Spec

=============================================================================
