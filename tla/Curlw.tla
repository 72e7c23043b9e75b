------------------------------- MODULE Curlw -------------------------------
(***************************************************************************)
(* The process-wide state of the libcurl wrapper (curlw/mod.rs and         *)
(* platform.rs): how often libcurl was initialised, the pool of fd_sets    *)
(* that exists meanwhile, and the locks of shares, kept by the address of  *)
(* the share, which libcurl hands out again once a share is cleaned up.    *)
(* Each operator is one critical section, or a part of one that another    *)
(* thread can see.  DlBinding is built on it.                              *)
(***************************************************************************)
EXTENDS Naturals, Sequences

CONSTANTS
    Shares,     (* the addresses of shares                                 *)
    Chunk       (* max_fd_set: the fd_sets a pool allocates at once        *)

ASSUME CurlwAssumption == Chunk \in Nat \ {0} /\ 0 \notin Shares

Nobody == "nobody"

VARIABLES
    inits,      (* G_INIT_COUNT                                            *)
    curlInits,  (* the count libcurl itself keeps                          *)
    pool,       (* G_FD_POOL: which pool it is, 0 for none; made, how many *)
                (* there were; sets, those it has allocated; and the list  *)
                (* of the free ones                                        *)
    share,      (* libcurl: each share, whether it is there, whether it    *)
                (* has lock functions, its user data, a lock set, and how  *)
                (* many easy handles use it                                *)
    locks,      (* G_SHARE_LOCKS: the lock set at each address, 0 for none *)
    mapHolder,  (* who holds the lock of G_SHARE_LOCKS over two steps      *)
    lockSets    (* the lock sets there have been                           *)

globals   == <<inits, curlInits, pool>>
shares    == <<share, locks, mapHolder, lockSets>>
curlwVars == <<globals, shares>>

NoShare == [there |-> FALSE, locking |-> FALSE, user |-> 0, users |-> 0]

CurlwInit ==
    /\ inits = 0 /\ curlInits = 0
    /\ pool = [it |-> 0, made |-> 0, sets |-> 0, free |-> <<>>]
    /\ share = [s \in Shares |-> NoShare] /\ locks = [s \in Shares |-> 0]
    /\ mapHolder = Nobody /\ lockSets = 0

-----------------------------------------------------------------------------
(***************************************************************************)
(* curlw_global_init and curlw_global_cleanup.                             *)
(***************************************************************************)
NewPool == [it |-> pool.made + 1, made |-> pool.made + 1, sets |-> 0, free |-> <<>>]
NoPool  == [pool EXCEPT !.it = 0, !.sets = 0, !.free = <<>>]

\* Mutant: every initialisation makes a pool.
GlobalInitAnew ==
    /\ curlInits' = curlInits + 1 /\ inits' = inits + 1
    /\ pool' = NewPool
    /\ UNCHANGED shares

\* The first one makes the pool.
GlobalInit ==
    /\ curlInits' = curlInits + 1 /\ inits' = inits + 1
    /\ pool' = IF inits = 0 THEN NewPool ELSE pool
    /\ UNCHANGED shares

\* The last one frees it; one too many does nothing.
GlobalCleanup ==
    /\ IF inits = 0 THEN UNCHANGED globals
       ELSE /\ curlInits' = curlInits - 1 /\ inits' = inits - 1
            /\ pool' = IF inits = 1 THEN NoPool ELSE pool
    /\ UNCHANGED shares

(***************************************************************************)
(* The pool, for a caller that has loaded the pointer to it.  A set is the *)
(* pool it is of and its number.                                           *)
(***************************************************************************)
\* The free list once there is something in it: a chunk is added at its end.
Stock ==
    IF pool.free # <<>> THEN pool
    ELSE [pool EXCEPT !.sets = @ + Chunk,
                      !.free = [i \in 1 .. Chunk |-> <<pool.it, pool.sets + i>>]]

\* allocate takes the last one of the list.
Allocated == LET free == Stock.free IN free[Len(free)]

Allocate ==
    /\ pool' = [Stock EXCEPT !.free = SubSeq(@, 1, Len(@) - 1)]
    /\ UNCHANGED <<inits, curlInits, shares>>

\* deallocate puts back whatever it is given.
Deallocate(set) ==
    /\ pool' = [pool EXCEPT !.free = Append(@, set)]
    /\ UNCHANGED <<inits, curlInits, shares>>

-----------------------------------------------------------------------------
(***************************************************************************)
(* The shares.                                                             *)
(***************************************************************************)
\* curl_share_init: any address that is free.
ShareInit(s) ==
    /\ ~share[s].there
    /\ share' = [share EXCEPT ![s] = [NoShare EXCEPT !.there = TRUE]]
    /\ UNCHANGED <<globals, locks, mapHolder, lockSets>>

MapFree == mapHolder = Nobody

\* enable_default_locks where the address has a lock set already: nothing to do.
AlreadyEnabled(s) == MapFree /\ locks[s] # 0 /\ UNCHANGED curlwVars

\* A lock set is entered and the share told to use it.
EnableLocks(s) ==
    /\ MapFree /\ locks[s] = 0
    /\ lockSets' = lockSets + 1
    /\ locks' = [locks EXCEPT ![s] = lockSets']
    /\ share' = [share EXCEPT ![s].user = lockSets', ![s].locking = TRUE]
    /\ UNCHANGED <<globals, mapHolder>>

\* There are no more locks, or libcurl refuses: the entry is taken back.
EnableFails(s) ==
    /\ MapFree /\ locks[s] = 0
    /\ share' = [share EXCEPT ![s].user = 0, ![s].locking = FALSE]
    /\ UNCHANGED <<globals, locks, mapHolder, lockSets>>

\* CURLOPT_SHARE of an easy handle, and the clean-up of the handle.
Attach(s) ==
    /\ share' = [share EXCEPT ![s].users = @ + 1]
    /\ UNCHANGED <<globals, locks, mapHolder, lockSets>>

Detach(s) ==
    /\ share' = [share EXCEPT ![s].users = @ - 1]
    /\ UNCHANGED <<globals, locks, mapHolder, lockSets>>

\* Mutant: the map is not locked while libcurl cleans the share up.
ShareCleanupUnlocked(t, s) ==
    /\ MapFree
    /\ share' = [share EXCEPT ![s] = NoShare]
    /\ UNCHANGED <<globals, locks, mapHolder, lockSets>>

\* curlw_share_cleanup: with the map locked, libcurl frees the share, unless it is
\* in use (CURLSHE_IN_USE) ...
ShareCleanup(t, s) ==
    /\ MapFree
    /\ IF share[s].users = 0
         THEN mapHolder' = t /\ share' = [share EXCEPT ![s] = NoShare]
         ELSE UNCHANGED <<mapHolder, share>>
    /\ UNCHANGED <<globals, locks, lockSets>>

\* ... and then, if it did, its entry is erased.
ShareErase(s) ==
    /\ locks' = [locks EXCEPT ![s] = 0] /\ mapHolder' = Nobody
    /\ UNCHANGED <<globals, share, lockSets>>
=============================================================================
