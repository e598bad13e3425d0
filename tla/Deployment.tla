----------------------------- MODULE Deployment -----------------------------
(***************************************************************************)
(* The containers of src/docker-compose.prod.yml from their first start:   *)
(* each runs the entrypoint (Bootstrap) before its processes serve, the    *)
(* threads of its processes use the object storage (ObjectStorageClient),  *)
(* a process may be replaced by its supervisor and a container by Docker.  *)
(***************************************************************************)
EXTENDS Bootstrap, ObjectStorageClient

CONSTANT ContainerOf        \* the container of each process

ASSUME ContainerOfAssumption == ContainerOf \in [Processes -> Containers]

vars == <<bootVars, storageVars>>

\* The volumes of the database and of MinIO are new together; an earlier version may have
\* left a bucket anyone can read.
Init ==
    /\ BootInit
    /\ StorageInit
    /\ bucket = IF migrated THEN "public" ELSE "missing"

Home(t) == ContainerOf[processOf[t]]

Start(c) == BootStep(c) /\ UNCHANGED storageVars

\* A request or task reaches a thread only after the exec of the entrypoint.
Call(t) ==
    /\ Serving(Home(t))
    /\ \E op \in Operations, k \in Keys : BeginCall(t, op, k)
    /\ UNCHANGED bootVars

ThreadStep(t) == CallStep(t) /\ UNCHANGED bootVars

\* gunicorn and celery replace a worker that has died or timed out.
WorkerDies(p) ==
    /\ deaths > 0
    /\ deaths' = deaths - 1
    /\ Serving(ContainerOf[p])
    /\ LoseMemory({p})
    /\ UNCHANGED <<migrated, groups, admin, container, abandoned>>

ContainerDies(c) ==
    /\ Dies(c)
    /\ LoseMemory({p \in Processes : ContainerOf[p] = c})

Next ==
    \/ \E c \in Containers : Start(c) \/ ContainerDies(c)
    \/ \E t \in Threads : Call(t) \/ ThreadStep(t)
    \/ \E p \in Processes : WorkerDies(p)

\* Docker starts every container again, and a thread that is not waiting for a lock goes
\* on with its call.
Spec ==
    /\ Init /\ [][Next]_vars
    /\ \A c \in Containers : WF_vars(Start(c))
    /\ \A t \in Threads : WF_vars(ThreadStep(t))

=============================================================================
