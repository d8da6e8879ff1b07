------------------------------ MODULE DiskCache ------------------------------
(***************************************************************************)
(* DiskCacheBackend of nexus/cache/diskcache_backend.py, one namespace of  *)
(* nexus/cache/namespaces.py, and the diskcache file below it.             *)
(*                                                                         *)
(* get and set hand their I/O to a thread.  A get waits for its thread; a  *)
(* set waits 0.1 s at most, so that its thread may outlive the call, the   *)
(* process's shutdown and other writes of the same key.  An envelope has   *)
(* its expiry from set(), and diskcache adds one of its own, counted from  *)
(* the moment the thread writes.                                           *)
(***************************************************************************)
EXTENDS Integers

CONSTANTS
    Clients,   \* coroutines that use the cache
    Keys,
    Values,
    Versions,  \* schema versions of the namespace
    TTL        \* ttl_default_s, in ticks

ASSUME CacheAssumption == TTL \in Nat \ {0}

VARIABLES
    version,  \* _version of the running process
    open,     \* _cache is not None
    disk,     \* the file: what diskcache holds of every key
    reader,   \* the get of every client
    writer    \* the thread of every client's last set

cacheVars == <<version, open, disk, reader, writer>>

None == [kind |-> "none"]
Waiting == [kind |-> "waiting"]

(* age: ticks since set() fixed expires_at; left: ticks until diskcache's  *)
(* own expiry; since (history): ticks since the value was obtained.        *)
Envelopes ==
    [kind : {"envelope"}, value : Values, version : Versions, age : 0..TTL, since : 0..TTL]
Stored == [envelope : Envelopes, left : 1..TTL]
Writes == [kind : {"write"}, key : Keys, envelope : Envelopes]

CacheTypeOK ==
    /\ version \in Versions
    /\ open \in BOOLEAN
    /\ disk \in [Keys -> Stored \cup {None}]
    /\ reader \in [Clients -> Envelopes \cup {None, Waiting}]
    /\ writer \in [Clients -> Writes \cup {None}]

(* setup_cache: a namespace that cannot be opened is disabled.             *)
CacheInit ==
    /\ version \in Versions
    /\ open \in BOOLEAN
    /\ disk = [k \in Keys |-> None]
    /\ reader = [c \in Clients |-> None]
    /\ writer = [c \in Clients |-> None]

-----------------------------------------------------------------------------
(* What the thread of a get finds: nothing when an error, an eviction or   *)
(* a shutdown came first.                                                  *)
Found(k) ==
    {None} \cup IF open /\ disk[k] # None THEN {disk[k].envelope} ELSE {}

ThreadReads(c, k) ==
    /\ reader[c] = Waiting
    /\ \E e \in Found(k) : reader' = [reader EXCEPT ![c] = e]
    /\ UNCHANGED <<version, open, disk, writer>>

(* Mutant: diskcache's own expiry is relied upon.                          *)
ValidWithoutExpiry(e) == e # None /\ e.version = version

(* get returns the value of the envelope its thread found.                 *)
Valid(e) == e # None /\ e.version = version /\ e.age < TTL

(* set: the envelope is made, and handed to a thread unless the cache is   *)
(* disabled.                                                               *)
Set(c, k, v) ==
    /\ open
    /\ writer[c] = None
    /\ writer' = [writer EXCEPT ![c] =
          [kind |-> "write", key |-> k,
           envelope |-> [kind |-> "envelope", value |-> v, version |-> version,
                         age |-> 0, since |-> 0]]]

(* The thread writes, or fails and the write is dropped; both also after   *)
(* the cache was closed.                                                   *)
ThreadWrites(c) ==
    /\ writer[c] # None
    /\ \/ disk' = [disk EXCEPT ![writer[c].key] =
                      [envelope |-> writer[c].envelope, left |-> TTL]]
       \/ UNCHANGED disk
    /\ writer' = [writer EXCEPT ![c] = None]
    /\ UNCHANGED <<version, open, reader>>

(* diskcache culls an entry to stay below its size limit.                  *)
Evict(k) ==
    /\ disk[k] # None
    /\ disk' = [disk EXCEPT ![k] = None]
    /\ UNCHANGED <<version, open, reader, writer>>

(* shutdown_cache.                                                         *)
Close == open' = FALSE /\ UNCHANGED <<version, disk, reader, writer>>

(* A process ends, with its threads, and another starts on the same file,  *)
(* possibly with another schema.                                           *)
Reopen ==
    /\ version' \in Versions
    /\ open' \in BOOLEAN
    /\ reader' = [c \in Clients |-> None]
    /\ writer' = [c \in Clients |-> None]
    /\ UNCHANGED disk

Older(n) == IF n < TTL THEN n + 1 ELSE n
OlderEnvelope(e) == [e EXCEPT !.age = Older(@), !.since = Older(@)]

CacheTick ==
    /\ disk' = [k \in Keys |->
          IF disk[k] = None \/ disk[k].left = 1 THEN None
          ELSE [envelope |-> OlderEnvelope(disk[k].envelope), left |-> disk[k].left - 1]]
    /\ reader' = [c \in Clients |->
          IF reader[c].kind = "envelope" THEN OlderEnvelope(reader[c]) ELSE reader[c]]
    /\ writer' = [c \in Clients |->
          IF writer[c] = None THEN None
          ELSE [writer[c] EXCEPT !.envelope = OlderEnvelope(@)]]
    /\ UNCHANGED <<version, open>>
=============================================================================
