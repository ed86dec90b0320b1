----------------------------- MODULE MemoryPool -----------------------------
(***************************************************************************)
(* The pool that bounds the file data HASH_UPLOAD, DOWNLOAD and CACHE_SYNC *)
(* hold in memory (ops/memory_pool.rs): a tokio semaphore with one permit  *)
(* per Granularity bytes.  The semaphore is fair, so a large request at    *)
(* the head of the queue holds back the smaller ones behind it.            *)
(***************************************************************************)
EXTENDS Integers, Sequences, FiniteSets, Functions

CONSTANTS Clients,       \* the tasks that share the pool
          MaxBytes,      \* max_memory_bytes
          Granularity,   \* PERMIT_GRANULARITY: bytes per permit
          PermitSpace    \* 2^32 in the code: permits are counted in a u32

VARIABLES held,          \* permits each client's OwnedSemaphorePermit holds
          queue          \* requests that wait, first come first served

poolVars == <<held, queue>>

ASSUME PoolAssumption ==
    /\ MaxBytes \in Nat \ {0}
    /\ Granularity \in Nat \ {0}
    /\ PermitSpace \in Nat \ {0}

(* div_ceil, then the cast to u32. *)
BytesToPermits(bytes) ==
    ((bytes + Granularity - 1) \div Granularity) % PermitSpace

Clamp(size) == IF size < MaxBytes THEN size ELSE MaxBytes

Available == BytesToPermits(MaxBytes) - SumFunction(held)

PoolInit ==
    /\ held = [c \in Clients |-> 0]
    /\ queue = <<>>

(* acquire(size): the request joins the queue. *)
Request(c, size) ==
    /\ queue' = Append(queue, [client  |-> c,
                               permits |-> BytesToPermits(Clamp(size))])
    /\ UNCHANGED held

(* The request at the head of the queue gets its permits; a request for no *)
(* permit at all (an empty file) never waits.                              *)
Grant(c) ==
    \E i \in DOMAIN queue :
        /\ queue[i].client = c
        /\ queue[i].permits <= Available
        /\ i = 1 \/ queue[i].permits = 0
        /\ held' = [held EXCEPT ![c] = queue[i].permits]
        /\ queue' = SubSeq(queue, 1, i - 1) \o SubSeq(queue, i + 1, Len(queue))

(* The permit is dropped. *)
Release(c) ==
    /\ held' = [held EXCEPT ![c] = 0]
    /\ UNCHANGED queue
=============================================================================
