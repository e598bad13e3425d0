------------------------- MODULE ObjectStorageClient -------------------------
(***************************************************************************)
(* src/dms/document/storage: the storage object a process builds on first  *)
(* use (factory.py), the MinIO clients its class keeps, and the bucket it  *)
(* prepares before its first upload (minio.py).  The threads of a process  *)
(* share all of it, under locks; the processes share the MinIO server.     *)
(*                                                                         *)
(* An object of a process is named by the thread that built it.            *)
(***************************************************************************)
EXTENDS Naturals

CONSTANTS
    Processes,
    Threads,
    Placements,         \* in which process each thread may run
    Keys,               \* object keys
    NoThread,           \* no object, or a lock that is free
    PublicEndpoint,     \* whether MINIO["public_endpoint"] is set
    MaxStorageFaults    \* how many calls to MinIO fail

ASSUME NoThreadAssumption == NoThread \notin Threads
ASSUME PlacementsAssumption == Placements \subseteq [Threads -> Processes]
ASSUME StorageBounds == MaxStorageFaults \in Nat /\ PublicEndpoint \in BOOLEAN

VARIABLES
    processOf,       \* the process of each thread, which never changes
    clients,         \* MinioClientFactory._client and _presign_client of each process
    cached,          \* the result lru_cache keeps of get_object_storage
    bucketReady,     \* _bucket_ready of the storage object each thread has built
    bucketLock,      \* its _bucket_lock
    thread,          \* the call each thread is in
    bucket,          \* the bucket of the MinIO server
    objects,         \* the keys it holds
    storageFaults    \* failures that may still happen

memory == <<clients, cached, bucketReady, bucketLock>>
server == <<bucket, objects>>
storageVars == <<processOf, memory, thread, server, storageFaults>>

-----------------------------------------------------------------------------
Slots == {"client", "presign"}
Holders == Threads \cup {NoThread}
Operations == {"upload", "delete"}

IdleThread == [pc |-> "idle", op |-> "none", key |-> "none", slot |-> "client", self |-> NoThread]

StorageInit ==
    /\ processOf \in Placements
    /\ clients = [p \in Processes |-> [s \in Slots |-> NoThread]]
    /\ cached = [p \in Processes |-> NoThread]
    /\ bucketReady = [t \in Threads |-> FALSE]
    /\ bucketLock = [t \in Threads |-> NoThread]
    /\ thread = [t \in Threads |-> IdleThread]
    /\ bucket \in {"missing", "public", "private"}
    /\ objects = {}
    /\ storageFaults = MaxStorageFaults

ThreadAt(t, pc) == thread[t].pc = pc
ThreadGoes(t, pc) == thread' = [thread EXCEPT ![t].pc = pc]
EndCall(t) == thread' = [thread EXCEPT ![t] = IdleThread]

\* A call to MinIO raises one of MINIO_STORAGE_ERRORS and has no effect.
StorageFault == storageFaults > 0 /\ storageFaults' = storageFaults - 1
NoStorageFault == UNCHANGED storageFaults

\* The storage object the call uses.
Self(t) == thread[t].self

\* Where an operation goes once it has its storage object.
FirstStep(op) == IF op = "upload" THEN "ensure" ELSE "remove"

-----------------------------------------------------------------------------
(* get_object_storage and MinioStorage.__init__.                           *)

\* An upload or a deletion begins: on a miss the thread builds its own object.
BeginCall(t, op, k) ==
    LET p == processOf[t] IN
    /\ ThreadAt(t, "idle")
    /\ thread' = [thread EXCEPT ![t] =
                    [pc |-> IF cached[p] = NoThread THEN "look" ELSE FirstStep(op),
                     op |-> op, key |-> k, slot |-> "client", self |-> cached[p]]]
    /\ UNCHANGED <<processOf, memory, server, storageFaults>>

\* Mutant: the client of the links is not made.
AfterSlot_One(s) == <<"keep", "client">>

\* The links have a client of their own if their endpoint is another.
AfterSlot(s) ==
    IF s = "client" /\ PublicEndpoint THEN <<"look", "presign">> ELSE <<"keep", "client">>

NextSlot(t) ==
    LET next == AfterSlot(thread[t].slot) IN
    thread' = [thread EXCEPT ![t].pc = next[1], ![t].slot = next[2]]

\* get_client and get_presign_client: the first check, without the lock.
LookUpClient(t) ==
    /\ ThreadAt(t, "look")
    /\ IF clients[processOf[t]][thread[t].slot] = NoThread
       THEN ThreadGoes(t, "build")
       ELSE NextSlot(t)
    /\ UNCHANGED <<memory, server, storageFaults>>

\* Mutant: the second check is left out.
ClientMissing_Unchecked(p, s) == TRUE

ClientMissing(p, s) == clients[p][s] = NoThread

\* The second check and the assignment, under a lock that is held for nothing else: one
\* step.
BuildClient(t) ==
    LET p == processOf[t]
        s == thread[t].slot
    IN
    /\ ThreadAt(t, "build")
    /\ clients' = IF ClientMissing(p, s) THEN [clients EXCEPT ![p][s] = t] ELSE clients
    /\ NextSlot(t)
    /\ UNCHANGED <<cached, bucketReady, bucketLock, server, storageFaults>>

\* lru_cache runs the function without a lock: the first result stays in the cache
\* and every thread that missed uses the object it has built.
KeepStorage(t) ==
    LET p == processOf[t] IN
    /\ ThreadAt(t, "keep")
    /\ cached' = IF cached[p] = NoThread THEN [cached EXCEPT ![p] = t] ELSE cached
    /\ bucketReady' = [bucketReady EXCEPT ![t] = FALSE]
    /\ thread' = [thread EXCEPT ![t].pc = FirstStep(thread[t].op), ![t].self = t]
    /\ UNCHANGED <<clients, bucketLock, server, storageFaults>>

-----------------------------------------------------------------------------
(* _ensure_private_bucket.                                                 *)

LookAtFlag(t) ==
    /\ ThreadAt(t, "ensure")
    /\ ThreadGoes(t, IF bucketReady[Self(t)] THEN "put" ELSE "lock_bucket")
    /\ UNCHANGED <<memory, server, storageFaults>>

\* The flag is read again under the lock.
LockBucket(t) ==
    /\ ThreadAt(t, "lock_bucket")
    /\ bucketLock[Self(t)] = NoThread
    /\ IF bucketReady[Self(t)]
       THEN ThreadGoes(t, "put") /\ UNCHANGED bucketLock
       ELSE ThreadGoes(t, "exists") /\ bucketLock' = [bucketLock EXCEPT ![Self(t)] = t]
    /\ UNCHANGED <<clients, cached, bucketReady, server, storageFaults>>

\* Mutant: an error leaves the lock held.
Unlocked_Never(t) == bucketLock

Unlocked(t) == [bucketLock EXCEPT ![Self(t)] = NoThread]

\* ObjectStorageError: the with statement releases the lock and the flag stays as it
\* was, so that the next call tries again.
PreparationFails(t) ==
    /\ bucketLock' = Unlocked(t)
    /\ EndCall(t)
    /\ UNCHANGED bucket

BucketExists(t) ==
    /\ ThreadAt(t, "exists")
    /\ \/ /\ ThreadGoes(t, IF bucket = "missing" THEN "make" ELSE "policy")
          /\ UNCHANGED <<bucket, bucketLock>>
          /\ NoStorageFault
       \/ StorageFault /\ PreparationFails(t)
    /\ UNCHANGED <<clients, cached, bucketReady, objects>>

\* A bucket that another process has made meanwhile is an error like any other.
MakeBucket(t) ==
    /\ ThreadAt(t, "make")
    /\ \/ /\ bucket = "missing"
          /\ bucket' = "private"
          /\ ThreadGoes(t, "policy")
          /\ UNCHANGED bucketLock
          /\ NoStorageFault
       \/ bucket # "missing" /\ PreparationFails(t) /\ NoStorageFault
       \/ StorageFault /\ PreparationFails(t)
    /\ UNCHANGED <<clients, cached, bucketReady, objects>>

\* Mutant: a bucket without a policy is an error.
PolicyDeletable_IfAny == bucket = "public"

\* NoSuchBucketPolicy is not an error.
PolicyDeletable == TRUE

\* Mutant: the policy of a bucket that was found stays.
WithoutPolicy_Kept == bucket

WithoutPolicy == "private"

\* Then the flag is set and the lock released.
DeletePolicy(t) ==
    /\ ThreadAt(t, "policy")
    /\ \/ /\ PolicyDeletable
          /\ bucket' = WithoutPolicy
          /\ bucketReady' = [bucketReady EXCEPT ![Self(t)] = TRUE]
          /\ bucketLock' = Unlocked(t)
          /\ ThreadGoes(t, "put")
          /\ NoStorageFault
       \/ /\ (~PolicyDeletable /\ NoStorageFault) \/ StorageFault
          /\ PreparationFails(t)
          /\ UNCHANGED bucketReady
    /\ UNCHANGED <<clients, cached, objects>>

-----------------------------------------------------------------------------
(* upload and delete.                                                      *)

PutObject(t) ==
    /\ ThreadAt(t, "put")
    /\ \/ bucket # "missing" /\ objects' = objects \cup {thread[t].key} /\ NoStorageFault
       \/ StorageFault /\ UNCHANGED objects
    /\ EndCall(t)
    /\ UNCHANGED <<memory, bucket>>

\* A deletion does not prepare the bucket: it fails if there is none.
RemoveObject(t) ==
    /\ ThreadAt(t, "remove")
    /\ \/ /\ objects' = IF bucket = "missing" THEN objects ELSE objects \ {thread[t].key}
          /\ NoStorageFault
       \/ StorageFault /\ UNCHANGED objects
    /\ EndCall(t)
    /\ UNCHANGED <<memory, bucket>>

\* Processes die: their memory goes, their locks with it.
LoseMemory(dead) ==
    LET Lost(t) == processOf[t] \in dead
        Empty == [s \in Slots |-> NoThread]
    IN
    /\ clients' = [p \in Processes |-> IF p \in dead THEN Empty ELSE clients[p]]
    /\ cached' = [p \in Processes |-> IF p \in dead THEN NoThread ELSE cached[p]]
    /\ bucketReady' = [t \in Threads |-> bucketReady[t] /\ ~Lost(t)]
    /\ bucketLock' = [t \in Threads |-> IF Lost(t) THEN NoThread ELSE bucketLock[t]]
    /\ thread' = [t \in Threads |-> IF Lost(t) THEN IdleThread ELSE thread[t]]
    /\ UNCHANGED <<processOf, server, storageFaults>>

-----------------------------------------------------------------------------
CallStep(t) ==
    /\ UNCHANGED processOf
    /\ \/ LookUpClient(t)
       \/ BuildClient(t)
       \/ KeepStorage(t)
       \/ LookAtFlag(t)
       \/ LockBucket(t)
       \/ BucketExists(t)
       \/ MakeBucket(t)
       \/ DeletePolicy(t)
       \/ PutObject(t)
       \/ RemoveObject(t)

-----------------------------------------------------------------------------
(* Correctness.                                                            *)

PreparingPcs == {"exists", "make", "policy"}
BuildingPcs == {"look", "build", "keep"}
ThreadPcs ==
    {"idle", "ensure", "lock_bucket", "put", "remove"} \cup BuildingPcs \cup PreparingPcs

\* The types of the variables; a thread is past building exactly when it has a storage
\* object, of its own process, and the clients of that process exist by then.
StorageTypeOK ==
    /\ processOf \in Placements
    /\ clients \in [Processes -> [Slots -> Holders]]
    /\ cached \in [Processes -> Holders]
    /\ bucketReady \in [Threads -> BOOLEAN]
    /\ bucketLock \in [Threads -> Holders]
    /\ thread \in [Threads -> [pc : ThreadPcs, op : Operations \cup {"none"},
                               key : Keys \cup {"none"}, slot : Slots, self : Holders]]
    /\ bucket \in {"missing", "public", "private"}
    /\ objects \subseteq Keys
    /\ storageFaults \in 0 .. MaxStorageFaults
    /\ \A t \in Threads :
          LET p == processOf[t]
              working == thread[t].pc \notin {"idle"} \cup BuildingPcs
          IN
          /\ working <=> thread[t].self # NoThread
          /\ working => /\ processOf[Self(t)] = p
                        /\ clients[p]["client"] # NoThread
                        /\ PublicEndpoint => clients[p]["presign"] # NoThread

\* A storage object that says its bucket is ready is right, whichever process has
\* made the bucket, and so is a thread that is about to upload.
ReadyMeansPrivate ==
    \A t \in Threads :
        bucketReady[t] \/ ThreadAt(t, "put") => bucket = "private"

\* Each lock is held by the one thread that is in its critical section, of the
\* process that owns the lock, whatever calls failed there.
LocksHeldInside ==
    \A t, o \in Threads :
        bucketLock[o] = t <=> thread[t].pc \in PreparingPcs /\ thread[t].self = o

\* A process keeps the first client of each kind until it dies: no thread ever
\* replaces the client that others already use.
ClientsKept ==
    [][\A p \in Processes, s \in Slots :
          clients[p][s] # NoThread => clients'[p][s] \in {clients[p][s], NoThread}]_clients

\* Once MinIO answers, a failed preparation is not remembered: an upload that finds a
\* bucket succeeds, unless its process dies.
UploadsSucceed ==
    \A t \in Threads, k \in Keys :
        ThreadAt(t, "ensure") /\ thread[t].key = k /\ bucket # "missing" /\ storageFaults = 0
        ~> k \in objects \/ cached[processOf[t]] = NoThread

\* The threads and processes together keep the promise of PrivateBucket.
AbstractBucket == INSTANCE PrivateBucket
RefinesPrivateBucket == AbstractBucket!Spec

=============================================================================
