-------------------------- MODULE DlBindingProofs --------------------------
(***************************************************************************)
(* Theorems about DlBinding, for any finite set of threads, any addresses  *)
(* of managers and shares, any size of a chunk and any bounds.             *)
(***************************************************************************)
EXTENDS DlBinding, FiniteSetTheorems, TLAPS

-----------------------------------------------------------------------------
(***************************************************************************)
(* What a step leaves as it is.                                            *)
(***************************************************************************)
\* Only thread t goes on.
Moves(t) ==
    /\ host' \in [Hosts -> HostStates]
    /\ \A u \in Hosts \ {t} : host'[u] = host[u]

LEMMA HostMoves ==
    ASSUME BindingTypeOK, NEW t \in Hosts, NEW r \in HostStates, Becomes(t, r)
    PROVE  Moves(t) /\ host'[t] = r
BY DEF BindingTypeOK, Becomes, Moves

\* The other threads fit their steps as long as managers keep their shares.
LEMMA StepFrame ==
    ASSUME BindingTypeOK, StepInv, NEW t \in Hosts, Moves(t), Fits(host[t])',
           \A u \in Hosts \ {t} : host[u].mgr # 0 /\ host[u].share # 0 =>
                manager'[host[u].mgr].share = manager[host[u].mgr].share
    PROVE  StepInv'
BY DEF StepInv, Fits, Moves

Inside == {t \in Hosts : host[t].in}

LEMMA InsideFinite == IsFiniteSet(Inside) /\ Cardinality(Inside) \in Nat
<1>1. IsFiniteSet(Inside)
  BY BindingAssumption, FS_Subset DEF Inside
<1> QED BY <1>1, FS_CardinalityType

\* A thread that does nothing with the pool leaves it as good as it was.
LEMMA PoolFrame ==
    ASSUME BindingInv, NEW t \in Hosts, Moves(t), UNCHANGED globals,
           host'[t].in = host[t].in, host'[t].set = host[t].set,
           host'[t].at \notin {"alloc", "free"}
    PROVE  PoolInv' /\ PoolSafe'
<1>1. UNCHANGED <<inits, curlInits, pool>>
  BY DEF globals
<1>2. \A u \in Hosts : host'[u].in = host[u].in /\ host'[u].set = host[u].set
  BY DEF Moves
<1>3. Inside' = Inside
  BY <1>2 DEF Inside
<1>4. PoolInv'
  BY <1>1, <1>2 DEF BindingInv, PoolInv
<1>5. (inits = curlInits /\ inits = Cardinality({u \in Hosts : host[u].in}))'
  BY <1>1, <1>3 DEF BindingInv, PoolSafe, Inside
<1>6. ASSUME NEW u \in Hosts
      PROVE  SetSafe(u)'
  <2>1. host'[u].at \in {"alloc", "free"} => host'[u] = host[u]
    BY DEF Moves
  <2>2. SetSafe(u)
    BY DEF BindingInv, PoolSafe
  <2> QED BY <1>1, <1>2, <2>1, <2>2 DEF SetSafe, NoSet
<1> QED BY <1>4, <1>5, <1>6 DEF PoolSafe

\* Who owns which manager stays, and managers and their threads are as they were.
LEMMA OwnFrame ==
    ASSUME BindingInv, NEW t \in Hosts, Moves(t), UNCHANGED <<reporter, worker>>,
           \A a \in Addresses : Owns(t, a)' <=> Owns(t, a),
           host'[t].at \in {"cleanup", "erase", "drop"} /\ host'[t].mgr # 0 =>
                host[t].at \in {"cleanup", "erase", "drop"},
           \A a \in Addresses :
                /\ manager'[a].there = manager[a].there /\ manager'[a].share = manager[a].share
                /\ ~manager[a].there => manager'[a] = manager[a]
    PROVE  OwnInv'
<1>1. \A u \in Hosts, a \in Addresses : Owns(u, a)' <=> Owns(u, a)
  BY DEF Moves, Owns, At
<1>2. \A u \in Hosts, a \in Addresses :
         Owns(u, a) /\ host'[u].at \in {"cleanup", "erase", "drop"} =>
            host[u].at \in {"cleanup", "erase", "drop"}
  BY BindingAssumption DEF Moves, Owns
<1>3. OwnInv
  BY DEF BindingInv
<1>4. (\A u, v \in Hosts, a \in Addresses : Owns(u, a) /\ Owns(v, a) => u = v)'
  BY <1>1, <1>3 DEF OwnInv, Manned
<1>5. ASSUME NEW a \in Addresses
      PROVE  Manned(a)'
  BY <1>1, <1>3 DEF OwnInv, Manned, NoManager, NoThread, NoWorker
<1>6. ASSUME NEW u \in Hosts, NEW a \in Addresses, Owns(u, a)'
      PROVE  (/\ manager[a].there
              /\ host[u].at \in {"cleanup", "erase", "drop"} =>
                    reporter[a] = NoThread /\ worker[a] = NoWorker)'
  BY <1>1, <1>2, <1>3, <1>6 DEF OwnInv, Manned, NoThread, NoWorker
<1> QED BY <1>4, <1>5, <1>6 DEF OwnInv, Manned

\* Each thread holds what it held, and is as far with it.
SameHolding ==
    \A t \in Hosts :
        /\ Holding(t)' = Holding(t) /\ (Locked(t)' <=> Locked(t))
        /\ host'[t].at = "erase" <=> host[t].at = "erase"
        /\ host[t].at = "erase" => host'[t].share = host[t].share
        /\ host[t].at = "enable" => host'[t].at = "enable"

LEMMA ShareFrame ==
    ASSUME BindingInv, SameHolding, UNCHANGED <<share, locks, mapHolder>>,
           \A s \in Shares : InUse(s)' <=> InUse(s)
    PROVE  ShareInv'
BY DEF BindingInv, ShareInv, Accounted, SameHolding, At

\* A thread on its own, with the managers it has or has not.
LEMMA QuietFrame ==
    ASSUME BindingInv, NEW t \in Hosts, Moves(t), UNCHANGED <<shares, reporter, worker>>,
           host'[t].mgr = host[t].mgr, host'[t].share = host[t].share,
           host[t].at \in {"idle", "alloc", "free", "set"},
           host'[t].at \in {"idle", "alloc", "free", "set"},
           \A a \in Addresses :
                /\ manager'[a].there = manager[a].there /\ manager'[a].share = manager[a].share
                /\ ~manager[a].there => manager'[a] = manager[a]
    PROVE  OwnInv' /\ ShareInv'
<1>1. OwnInv'
  <2>1. \A a \in Addresses : Owns(t, a)' <=> Owns(t, a)
    BY DEF Owns, At
  <2> QED BY <2>1, OwnFrame
<1>2. host[t].mgr \in Addresses \cup {0} /\ \A u \in Hosts : host[u].mgr \in Addresses \cup {0}
  BY DEF BindingInv, BindingTypeOK, HostStates
<1>3. SameHolding
  BY <1>2 DEF SameHolding, Holding, Locked, At, Moves
<1> QED BY <1>1, <1>3, ShareFrame DEF shares, InUse

\* No thread of the host goes on, and managers keep their shares.
LEMMA StillFrame ==
    ASSUME BindingInv, UNCHANGED <<host, globals>>,
           \A a \in Addresses : manager'[a].share = manager[a].share
    PROVE  /\ StepInv' /\ PoolInv' /\ PoolSafe' /\ SameHolding
           /\ \A t \in Hosts, a \in Addresses : Owns(t, a)' <=> Owns(t, a)
           /\ \A a \in Addresses : Removing(a)' = Removing(a)
<1>1. StepInv'
  BY DEF BindingInv, BindingTypeOK, HostStates, StepInv, Fits
<1>2. PoolInv' /\ PoolSafe'
  BY DEF BindingInv, PoolInv, PoolSafe, SetSafe, globals
<1>3. SameHolding
  BY DEF BindingInv, BindingTypeOK, HostStates, SameHolding, Holding, Locked, At
<1> QED BY <1>1, <1>2, <1>3 DEF Owns, Removing, At

\* Nothing of what is kept, registered or read changes.
LEMMA KeptFrame ==
    ASSUME BindingInv, NEW t \in Hosts, Moves(t),
           UNCHANGED <<manager, reporter, kept, overtaken>>,
           host'[t].at \notin {"set", "remove"}, host[t].at # "remove"
    PROVE  KeptInv' /\ DelegatesKept'
<1>1. \A a \in Addresses : Removing(a)' = Removing(a)
  BY DEF Moves, Removing, At
<1> QED BY <1>1 DEF Moves, BindingInv, KeptInv, DelegatesKept, At

-----------------------------------------------------------------------------
(***************************************************************************)
(* Sessions and the pool.                                                  *)
(***************************************************************************)
\* A thread that is in counts.
LEMMA SomeInside ==
    ASSUME BindingInv, NEW t \in Hosts, host[t].in
    PROVE  inits > 0 /\ (inits = 1 => \A u \in Hosts \ {t} : ~host[u].in)
<1>1. inits = Cardinality(Inside) /\ t \in Inside
  BY DEF BindingInv, PoolSafe, Inside
<1>2. Cardinality(Inside) # 0
  BY <1>1, InsideFinite, FS_EmptySet
<1>3. ASSUME inits = 1 PROVE Inside = {t}
  <2>1. PICK u : Inside = {u}
    BY <1>1, <1>3, InsideFinite, FS_Singleton
  <2> QED BY <1>1, <2>1
<1> QED BY <1>1, <1>2, <1>3, InsideFinite DEF Inside

LEMMA EnterKeeps ==
    ASSUME BindingInv, NEW t \in Hosts, Enter(t)
    PROVE  BindingInv'
<1> DEFINE r == [Outside EXCEPT !.in = TRUE]
<1>1. /\ host[t] = Outside
      /\ r \in HostStates /\ r.at = "idle" /\ r.in = TRUE /\ r.set = NoSet
      /\ r.mgr = 0 /\ r.share = 0
  BY DEF Enter, At, BindingInv, StepInv, Fits, Outside, NoSet, HostStates, Steps
<1>2. Becomes(t, r)
  BY DEF Enter
<1> HIDE DEF r
<1>3. Moves(t) /\ host'[t] = r
  BY <1>1, <1>2, HostMoves DEF BindingInv
<1>4. /\ inits' = inits + 1 /\ curlInits' = curlInits + 1
      /\ pool' = IF inits = 0 THEN NewPool ELSE pool
      /\ UNCHANGED <<shares, native, kept, managers, delegates>>
  BY DEF Enter, GlobalInit
<1>5. BindingTypeOK'
  <2>1. pool' \in [it : Nat, made : Nat, sets : Nat, free : Seq(Nat \X Nat)]
    BY <1>4 DEF BindingInv, BindingTypeOK, NewPool
  <2> QED BY <1>3, <1>4, <2>1 DEF BindingInv, BindingTypeOK, shares, native, Moves
<1>6. StepInv'
  <2>1. Fits(host[t])'
    BY <1>1, <1>3 DEF Fits, NoSet
  <2> QED BY <1>3, <1>4, <2>1, StepFrame DEF BindingInv, native
<1>7. (inits = curlInits /\ inits = Cardinality({u \in Hosts : host[u].in}))'
  <2>1. Inside' = Inside \cup {t} /\ t \notin Inside
    BY <1>1, <1>3 DEF Inside, Moves, Outside
  <2>2. Cardinality(Inside') = Cardinality(Inside) + 1
    BY <2>1, InsideFinite, FS_AddElement
  <2> QED BY <1>4, <2>2 DEF BindingInv, PoolSafe, Inside
<1>8. PoolInv' /\ PoolSafe'
  <2>1. CASE inits = 0
    <3>1. \A u \in Hosts : host'[u].at \notin {"alloc", "free"} /\ host'[u].set = NoSet
      <4>1. \A u \in Hosts : ~host[u].in
        BY <2>1, SomeInside
      <4>2. \A u \in Hosts : host[u] = Outside
        BY <4>1 DEF BindingInv, StepInv, Fits
      <4> QED BY <1>1, <1>3, <4>2 DEF Moves, Outside
    <3>2. pool'.it # 0 /\ pool'.free = <<>> /\ inits' > 0
      BY <1>4, <2>1 DEF BindingInv, BindingTypeOK, NewPool
    <3> QED BY <1>7, <3>1, <3>2 DEF PoolInv, PoolSafe, SetSafe
  <2>2. CASE inits # 0
    <3>1. pool' = pool /\ inits > 0 /\ inits' > 0
      BY <1>4, <2>2 DEF BindingInv, BindingTypeOK
    <3>2. PoolInv'
      BY <1>1, <1>3, <3>1 DEF BindingInv, PoolInv, Moves
    <3>3. ASSUME NEW u \in Hosts
          PROVE  SetSafe(u)'
      BY <1>1, <1>3, <3>1 DEF BindingInv, PoolSafe, SetSafe, Moves, NoSet, Outside
    <3> QED BY <1>7, <3>2, <3>3 DEF PoolSafe
  <2> QED BY <2>1, <2>2
<1>9. OwnInv' /\ ShareInv'
  BY <1>1, <1>3, <1>4, QuietFrame DEF native, Outside
<1>10. KeptInv' /\ DelegatesKept'
  BY <1>1, <1>3, <1>4, KeptFrame DEF native, Outside
<1> QED BY <1>5, <1>6, <1>8, <1>9, <1>10 DEF BindingInv

LEMMA LeaveKeeps ==
    ASSUME BindingInv, NEW t \in Hosts, Leave(t)
    PROVE  BindingInv'
<1>1. /\ host[t].at = "idle" /\ host[t].in /\ host[t].set = NoSet
      /\ host[t].mgr = 0 /\ host[t].share = 0 /\ inits > 0
  BY SomeInside DEF Leave, Idle, At, BindingInv, StepInv, Fits
<1>2. /\ Outside \in HostStates /\ Outside.at = "idle" /\ ~Outside.in /\ Outside.set = NoSet
      /\ Outside.mgr = 0 /\ Outside.share = 0
  BY DEF Outside, NoSet, HostStates, Steps
<1>3. Moves(t) /\ host'[t] = Outside
  BY <1>2, HostMoves DEF Leave, BindingInv
<1>4. /\ inits' = inits - 1 /\ curlInits' = curlInits - 1 /\ inits \in Nat
      /\ pool' = IF inits = 1 THEN NoPool ELSE pool
      /\ UNCHANGED <<shares, native, kept, managers, delegates>>
  BY <1>1 DEF Leave, GlobalCleanup, counts, BindingInv, BindingTypeOK
<1>5. BindingTypeOK'
  <2>1. pool' \in [it : Nat, made : Nat, sets : Nat, free : Seq(Nat \X Nat)]
    <3>1. pool \in [it : Nat, made : Nat, sets : Nat, free : Seq(Nat \X Nat)]
          /\ <<>> \in Seq(Nat \X Nat)
      BY DEF BindingInv, BindingTypeOK
    <3> QED BY <1>4, <3>1 DEF NoPool
  <2>2. inits - 1 \in Nat
    BY <1>1, <1>4
  <2>3. inits' \in Nat /\ curlInits' \in Nat
    BY <1>4, <2>2 DEF BindingInv, PoolSafe
  <2> QED BY <1>3, <1>4, <2>1, <2>3 DEF BindingInv, BindingTypeOK, shares, native, Moves
<1>6. StepInv'
  <2>1. Fits(host[t])'
    BY <1>2, <1>3 DEF Fits
  <2> QED BY <1>3, <1>4, <2>1, StepFrame DEF BindingInv, native
<1>7. (inits = curlInits /\ inits = Cardinality({u \in Hosts : host[u].in}))'
  <2>1. Inside' = Inside \ {t} /\ t \in Inside
    BY <1>1, <1>2, <1>3 DEF Inside, Moves
  <2>2. Cardinality(Inside') = Cardinality(Inside) - 1
    BY <2>1, InsideFinite, FS_RemoveElement
  <2> QED BY <1>4, <2>2 DEF BindingInv, PoolSafe, Inside
<1>8. PoolInv' /\ PoolSafe'
  <2>1. CASE inits = 1
    <3>1. \A u \in Hosts : host'[u] = Outside
      <4>1. \A u \in Hosts \ {t} : ~host[u].in
        BY <1>1, <2>1, SomeInside
      <4> QED BY <1>3, <4>1 DEF Moves, BindingInv, StepInv, Fits
    <3>2. pool'.it = 0 /\ pool'.free = <<>> /\ inits' = 0
      BY <1>4, <2>1 DEF BindingInv, BindingTypeOK, NoPool
    <3> QED BY <1>2, <1>7, <3>1, <3>2 DEF PoolInv, PoolSafe, SetSafe
  <2>2. CASE inits # 1
    <3>1. pool' = pool /\ inits > 0 /\ inits' > 0
      BY <1>1, <1>4, <2>2
    <3>2. PoolInv'
      BY <1>2, <1>3, <3>1 DEF BindingInv, PoolInv, Moves
    <3>3. ASSUME NEW u \in Hosts
          PROVE  SetSafe(u)'
      BY <1>1, <1>2, <1>3, <3>1 DEF BindingInv, PoolSafe, SetSafe, Moves, NoSet
    <3> QED BY <1>7, <3>2, <3>3 DEF PoolSafe
  <2> QED BY <2>1, <2>2
<1>9. OwnInv' /\ ShareInv'
  BY <1>1, <1>2, <1>3, <1>4, QuietFrame DEF native
<1>10. KeptInv' /\ DelegatesKept'
  BY <1>1, <1>2, <1>3, <1>4, KeptFrame DEF native
<1> QED BY <1>5, <1>6, <1>8, <1>9, <1>10 DEF BindingInv

\* A thread loads the pointer to the pool, which its own session keeps there.
LEMMA LoadPoolKeeps ==
    ASSUME BindingInv, NEW t \in Hosts, LoadPool(t)
    PROVE  BindingInv'
<1> DEFINE r == [host[t] EXCEPT !.at = IF host[t].set = NoSet THEN "alloc" ELSE "free",
                                !.ptr = pool.it]
<1>1. /\ host[t] \in HostStates /\ host[t].at = "idle" /\ host[t].in /\ pool.it \in Nat
      /\ host[t].share = 0
  BY DEF LoadPool, Idle, At, BindingInv, BindingTypeOK, StepInv, Fits
<1>2. /\ r \in HostStates /\ r.in /\ r.set = host[t].set /\ r.mgr = host[t].mgr
      /\ r.share = 0 /\ r.ptr = pool.it
      /\ r.at = IF host[t].set = NoSet THEN "alloc" ELSE "free"
  BY <1>1 DEF HostStates, Steps
<1>3. Becomes(t, r)
  BY DEF LoadPool
<1> HIDE DEF r
<1>4. Moves(t) /\ host'[t] = r
  BY <1>2, <1>3, HostMoves DEF BindingInv
<1>5. UNCHANGED <<curlwVars, native, kept, counts>>
  BY DEF LoadPool
<1>6. BindingTypeOK'
  BY <1>4, <1>5 DEF BindingInv, BindingTypeOK, curlwVars, globals, shares, native, counts, Moves
<1>7. StepInv'
  <2>1. Fits(host[t])'
    BY <1>2, <1>4 DEF Fits
  <2> QED BY <1>4, <1>5, <2>1, StepFrame DEF BindingInv, native
<1>8. PoolInv'
  BY <1>2, <1>4, <1>5 DEF BindingInv, PoolInv, Moves, curlwVars, globals
<1>9. PoolSafe'
  <2>1. Inside' = Inside
    BY <1>1, <1>2, <1>4 DEF Inside, Moves
  <2>2. (inits = curlInits /\ inits = Cardinality({u \in Hosts : host[u].in}))'
    BY <1>5, <2>1 DEF BindingInv, PoolSafe, Inside, curlwVars, globals
  <2>3. ASSUME NEW u \in Hosts
        PROVE  SetSafe(u)'
    <3>1. \A v \in Hosts : host'[v].set = host[v].set
      BY <1>2, <1>4 DEF Moves
    <3>2. UNCHANGED pool
      BY <1>5 DEF curlwVars, globals
    <3>3. host'[u].at \in {"alloc", "free"} => host'[u].ptr = pool.it
      BY <1>2, <1>4 DEF Moves, BindingInv, PoolSafe, SetSafe
    <3> QED BY <3>1, <3>2, <3>3 DEF BindingInv, PoolSafe, SetSafe, NoSet
  <2> QED BY <2>2, <2>3 DEF PoolSafe
<1>10. OwnInv' /\ ShareInv'
  BY <1>1, <1>2, <1>4, <1>5, QuietFrame DEF native, curlwVars
<1>11. KeptInv' /\ DelegatesKept'
  BY <1>1, <1>2, <1>4, <1>5, KeptFrame DEF native
<1> QED BY <1>6, <1>7, <1>8, <1>9, <1>10, <1>11 DEF BindingInv

\* The stock a set is taken from: sets of the pool there is, each once and none that
\* is out.
LEMMA StockIsFresh ==
    ASSUME BindingInv
    PROVE  /\ Stock \in [it : Nat, made : Nat, sets : Nat, free : Seq(Nat \X Nat)]
           /\ Stock.it = pool.it /\ Stock.made = pool.made /\ Stock.sets >= pool.sets
           /\ Len(Stock.free) \in Nat \ {0}
           /\ \A i \in 1 .. Len(Stock.free) :
                 /\ Stock.free[i] \in {pool.it} \X (1 .. Stock.sets)
                 /\ \A j \in 1 .. Len(Stock.free) : Stock.free[i] = Stock.free[j] => i = j
                 /\ \A u \in Hosts : host[u].set # Stock.free[i]
<1>1. /\ pool \in [it : Nat, made : Nat, sets : Nat, free : Seq(Nat \X Nat)]
      /\ \A u \in Hosts : host[u].set # NoSet => host[u].set \in {pool.it} \X (1 .. pool.sets)
      /\ Chunk \in Nat \ {0}
  BY CurlwAssumption DEF BindingInv, BindingTypeOK, PoolInv
<1>2. CASE pool.free # <<>>
  <2>1. Stock = pool /\ Len(pool.free) \in Nat \ {0}
    BY <1>1, <1>2 DEF Stock
  <2>2. ASSUME NEW i \in 1 .. Len(pool.free), NEW u \in Hosts
        PROVE  host[u].set # pool.free[i]
    <3>1. pool.free[i] \in {pool.it} \X (1 .. pool.sets)
      BY DEF BindingInv, PoolInv
    <3>2. host[u].set # NoSet => host[u].set # pool.free[i]
      BY DEF BindingInv, PoolSafe, SetSafe
    <3> QED BY <3>1, <3>2 DEF NoSet
  <2> QED BY <1>1, <2>1, <2>2 DEF BindingInv, PoolInv
<1>3. CASE pool.free = <<>>
  <2> DEFINE new == [i \in 1 .. Chunk |-> <<pool.it, pool.sets + i>>]
  <2>1. /\ new \in Seq(Nat \X Nat) /\ Len(new) = Chunk
        /\ \A i \in 1 .. Chunk : new[i] = <<pool.it, pool.sets + i>>
    BY <1>1
  <2>2. Stock = [pool EXCEPT !.sets = @ + Chunk, !.free = new]
    BY <1>3 DEF Stock
  <2> HIDE DEF new
  <2>3. /\ Stock \in [it : Nat, made : Nat, sets : Nat, free : Seq(Nat \X Nat)]
        /\ Stock.it = pool.it /\ Stock.made = pool.made /\ Stock.sets = pool.sets + Chunk
        /\ Stock.free = new
    <3>1. pool.sets + Chunk \in Nat /\ new \in Seq(Nat \X Nat)
      BY <1>1, <2>1
    <3>2. pool \in [it : Nat, made : Nat, sets : Nat, free : Seq(Nat \X Nat)]
      BY <1>1
    <3> QED BY <2>2, <3>1, <3>2
  <2>4. ASSUME NEW i \in 1 .. Chunk
        PROVE  /\ new[i] \in {pool.it} \X (1 .. (pool.sets + Chunk))
               /\ \A j \in 1 .. Chunk : new[i] = new[j] => i = j
               /\ \A u \in Hosts : host[u].set # new[i]
    <3>1. new[i] = <<pool.it, pool.sets + i>> /\ pool.sets \in Nat
      BY <1>1, <2>1
    <3>2. \A j \in 1 .. Chunk : new[i] = new[j] => i = j
      BY <1>1, <2>1, <3>1
    <3>3. ASSUME NEW u \in Hosts PROVE host[u].set # new[i]
      BY <1>1, <3>1 DEF NoSet
    <3>4. pool.sets + i \in 1 .. (pool.sets + Chunk)
      BY <1>1, <3>1
    <3> QED BY <3>1, <3>2, <3>3, <3>4
  <2> QED BY <1>1, <2>1, <2>3, <2>4
<1> QED BY <1>2, <1>3

LEMMA BelowLast ==
    ASSUME NEW n \in Nat \ {0}
    PROVE  n \in 1 .. n /\ \A i \in 1 .. n - 1 : i \in 1 .. n /\ i # n
OBVIOUS

LEMMA AllocFdsKeeps ==
    ASSUME BindingInv, NEW t \in Hosts, AllocFds(t)
    PROVE  BindingInv'
<1> DEFINE n == Len(Stock.free)
           r == [host[t] EXCEPT !.at = "idle", !.ptr = 0, !.set = Allocated]
<1>1. /\ host[t] \in HostStates /\ host[t].at = "alloc" /\ host[t].in
      /\ host[t].share = 0
  <2>1. host[t] \in HostStates /\ host[t].at = "alloc" /\ Fits(host[t])
    BY DEF AllocFds, At, BindingInv, BindingTypeOK, StepInv
  <2> QED BY <2>1 DEF Fits, Outside
<1>2. /\ n \in Nat \ {0} /\ Allocated = Stock.free[n] /\ Allocated # NoSet
      /\ Allocated \in {pool.it} \X (1 .. Stock.sets) /\ Allocated \in Nat \X Nat
      /\ Allocated[1] = pool.it
  <2>1. n \in Nat \ {0} /\ Allocated = Stock.free[n] /\ n \in 1 .. n
    BY StockIsFresh DEF Allocated
  <2>2. Allocated \in {pool.it} \X (1 .. Stock.sets)
    BY <2>1, StockIsFresh
  <2>3. Stock.sets \in Nat /\ pool.it \in Nat
    BY StockIsFresh DEF BindingInv, BindingTypeOK
  <2> QED BY <2>1, <2>2, <2>3 DEF NoSet
<1>3. /\ r \in HostStates /\ r.in /\ r.set = Allocated /\ r.mgr = host[t].mgr
      /\ r.share = 0 /\ r.at = "idle"
  BY <1>1, <1>2 DEF HostStates, Steps
<1>4. Becomes(t, r)
  BY DEF AllocFds
<1> HIDE DEF r
<1>5. Moves(t) /\ host'[t] = r
  BY <1>3, <1>4, HostMoves DEF BindingInv
<1>6. UNCHANGED <<inits, curlInits, shares, native, kept, counts>>
  BY DEF AllocFds, Allocate
<1>7. /\ pool' \in [it : Nat, made : Nat, sets : Nat, free : Seq(Nat \X Nat)]
      /\ pool'.it = pool.it /\ pool'.sets = Stock.sets /\ Len(pool'.free) = n - 1
      /\ \A i \in 1 .. n - 1 : pool'.free[i] = Stock.free[i]
  <2>1. pool' = [Stock EXCEPT !.free = SubSeq(Stock.free, 1, n - 1)]
    BY DEF AllocFds, Allocate
  <2>2. Stock.free \in Seq(Nat \X Nat)
    BY StockIsFresh
  <2>3. /\ SubSeq(Stock.free, 1, n - 1) \in Seq(Nat \X Nat)
        /\ Len(SubSeq(Stock.free, 1, n - 1)) = n - 1
        /\ \A i \in 1 .. n - 1 : SubSeq(Stock.free, 1, n - 1)[i] = Stock.free[i]
    BY <1>2, <2>2
  <2> QED BY <2>1, <2>3, StockIsFresh
<1>8. BindingTypeOK'
  BY <1>5, <1>6, <1>7 DEF BindingInv, BindingTypeOK, shares, native, counts, Moves
<1>9. StepInv'
  <2>1. Fits(host[t])'
    BY <1>3, <1>5 DEF Fits
  <2> QED BY <1>5, <1>6, <2>1, StepFrame DEF BindingInv, native
<1>10. PoolInv'
  <2>1. ASSUME NEW u \in Hosts, host'[u].set # NoSet
        PROVE  host'[u].set \in {pool.it} \X (1 .. Stock.sets)
    <3>1. CASE u = t
      BY <1>2, <1>3, <1>5, <3>1
    <3>2. CASE u # t
      <4>1. host[u].set \in {pool.it} \X (1 .. pool.sets)
        BY <1>5, <2>1, <3>2 DEF Moves, BindingInv, PoolInv
      <4>2. pool.sets \in Nat /\ Stock.sets \in Nat /\ Stock.sets >= pool.sets
        BY StockIsFresh DEF BindingInv, BindingTypeOK
      <4>3. 1 .. pool.sets \subseteq 1 .. Stock.sets
        BY <4>2
      <4> QED BY <1>5, <3>2, <4>1, <4>3 DEF Moves
    <3> QED BY <3>1, <3>2
  <2>2. \A i \in 1 .. n - 1 : i \in 1 .. Len(Stock.free)
    BY <1>2, BelowLast
  <2>3. \A i \in 1 .. n - 1 :
           /\ pool'.free[i] \in {pool.it} \X (1 .. Stock.sets)
           /\ \A j \in 1 .. n - 1 : pool'.free[i] = pool'.free[j] => i = j
    BY <1>7, <2>2, StockIsFresh
  <2> QED BY <1>6, <1>7, <2>1, <2>3 DEF BindingInv, PoolInv
<1>11. PoolSafe'
  <2>1. Inside' = Inside
    BY <1>1, <1>3, <1>5 DEF Inside, Moves
  <2>2. (inits = curlInits /\ inits = Cardinality({u \in Hosts : host[u].in}))'
    BY <1>6, <2>1 DEF BindingInv, PoolSafe, Inside
  <2>3. ASSUME NEW u \in Hosts PROVE SetSafe(u)'
    <3>1. n \in 1 .. n /\ \A i \in 1 .. n - 1 : i \in 1 .. n /\ i # n
      BY <1>2, BelowLast
    <3>2. \A v \in Hosts : host[v].set # Allocated
      <4>1. n \in 1 .. Len(Stock.free)
        BY <3>1
      <4> QED BY <1>2, <4>1, StockIsFresh
    <3>3. ASSUME NEW i \in 1 .. n - 1
          PROVE  pool'.free[i] # Allocated /\ \A v \in Hosts : host[v].set # pool'.free[i]
      <4>1. n \in 1 .. n /\ i \in 1 .. n /\ i # n
        BY <3>1
      <4>2. Stock.free[i] = Stock.free[n] => i = n
        BY <4>1, StockIsFresh
      <4>3. \A v \in Hosts : host[v].set # Stock.free[i]
        BY <4>1, StockIsFresh
      <4>4. pool'.free[i] = Stock.free[i]
        BY <1>7
      <4> QED BY <1>2, <4>1, <4>2, <4>3, <4>4
    <3>4. CASE u = t
      BY <1>2, <1>3, <1>5, <1>7, <3>2, <3>3, <3>4 DEF SetSafe, Moves
    <3>5. CASE u # t
      <4>1. host'[u] = host[u] /\ SetSafe(u)
        BY <1>5, <3>5 DEF Moves, BindingInv, PoolSafe
      <4>2. \A v \in Hosts : host'[v].set = IF v = t THEN Allocated ELSE host[v].set
        BY <1>3, <1>5 DEF Moves
      <4> QED BY <1>7, <3>2, <3>3, <4>1, <4>2 DEF SetSafe
    <3> QED BY <3>4, <3>5
  <2> QED BY <2>2, <2>3 DEF PoolSafe
<1>12. OwnInv' /\ ShareInv'
  BY <1>1, <1>3, <1>5, <1>6, QuietFrame DEF native
<1>13. KeptInv' /\ DelegatesKept'
  BY <1>1, <1>3, <1>5, <1>6, KeptFrame DEF native
<1> QED BY <1>8, <1>9, <1>10, <1>11, <1>12, <1>13 DEF BindingInv

LEMMA FreeFdsKeeps ==
    ASSUME BindingInv, NEW t \in Hosts, FreeFds(t)
    PROVE  BindingInv'
<1> DEFINE set == host[t].set
           n   == Len(pool.free)
           r   == [host[t] EXCEPT !.at = "idle", !.ptr = 0, !.set = NoSet]
<1>1. /\ host[t] \in HostStates /\ host[t].at = "free" /\ host[t].in
      /\ host[t].share = 0 /\ set # NoSet /\ set \in Nat \X Nat
  <2>1. host[t] \in HostStates /\ host[t].at = "free" /\ Fits(host[t])
    BY DEF FreeFds, At, BindingInv, BindingTypeOK, StepInv
  <2>2. host[t].in /\ host[t].share = 0 /\ set # NoSet
    BY <2>1 DEF Fits, Outside
  <2> QED BY <2>1, <2>2 DEF HostStates
<1>2. /\ r \in HostStates /\ r.in /\ r.set = NoSet /\ r.mgr = host[t].mgr
      /\ r.share = 0 /\ r.at = "idle"
  <2>1. NoSet \in Nat \X Nat
    BY DEF NoSet
  <2> QED BY <1>1, <2>1 DEF HostStates, Steps
<1>3. Becomes(t, r)
  BY DEF FreeFds
<1> HIDE DEF r
<1>4. Moves(t) /\ host'[t] = r
  BY <1>2, <1>3, HostMoves DEF BindingInv
<1>5. UNCHANGED <<inits, curlInits, shares, native, kept, counts>>
  BY DEF FreeFds, Deallocate
<1>6. /\ pool' \in [it : Nat, made : Nat, sets : Nat, free : Seq(Nat \X Nat)]
      /\ pool'.it = pool.it /\ pool'.sets = pool.sets /\ n \in Nat /\ Len(pool'.free) = n + 1
      /\ pool'.free[n + 1] = set /\ \A i \in 1 .. n : pool'.free[i] = pool.free[i]
  <2>1. pool' = [pool EXCEPT !.free = Append(pool.free, set)]
    BY DEF FreeFds, Deallocate
  <2>2. /\ pool \in [it : Nat, made : Nat, sets : Nat, free : Seq(Nat \X Nat)]
        /\ pool.free \in Seq(Nat \X Nat)
    BY DEF BindingInv, BindingTypeOK
  <2>3. /\ Append(pool.free, set) \in Seq(Nat \X Nat) /\ n \in Nat
        /\ Len(Append(pool.free, set)) = n + 1 /\ Append(pool.free, set)[n + 1] = set
        /\ \A i \in 1 .. n : Append(pool.free, set)[i] = pool.free[i]
    BY <1>1, <2>2
  <2> QED BY <2>1, <2>2, <2>3
<1>7. BindingTypeOK'
  BY <1>4, <1>5, <1>6 DEF BindingInv, BindingTypeOK, shares, native, counts, Moves
<1>8. StepInv'
  <2>1. Fits(host[t])'
    BY <1>2, <1>4 DEF Fits
  <2> QED BY <1>4, <1>5, <2>1, StepFrame DEF BindingInv, native
<1>9. set \in {pool.it} \X (1 .. pool.sets) /\ SetSafe(t)
  BY <1>1 DEF BindingInv, PoolInv, PoolSafe
<1>10. \A i \in 1 .. n + 1 : i \in 1 .. n \/ i = n + 1
  BY <1>6
<1>11. PoolInv'
  <2>1. ASSUME NEW i \in 1 .. n + 1
        PROVE  /\ pool'.free[i] \in {pool.it} \X (1 .. pool.sets)
               /\ \A j \in 1 .. n + 1 : pool'.free[i] = pool'.free[j] => i = j
    <3>1. \A j \in 1 .. n : pool.free[j] # set
      BY <1>1, <1>9 DEF SetSafe
    <3>2. \A j \in 1 .. n : /\ pool.free[j] \in {pool.it} \X (1 .. pool.sets)
                          /\ \A k \in 1 .. n : pool.free[j] = pool.free[k] => j = k
      BY DEF BindingInv, PoolInv
    <3>3. \A j \in 1 .. n + 1 : pool'.free[j] = IF j = n + 1 THEN set ELSE pool.free[j]
      BY <1>6, <1>10
    <3>4. \A j \in 1 .. n + 1 : pool'.free[i] = pool'.free[j] => i = j
      BY <1>10, <3>1, <3>2, <3>3
    <3> QED BY <1>9, <1>10, <3>2, <3>3, <3>4
  <2>2. ASSUME NEW u \in Hosts, host'[u].set # NoSet
        PROVE  host'[u].set \in {pool.it} \X (1 .. pool.sets)
    BY <1>2, <1>4, <2>2 DEF Moves, BindingInv, PoolInv
  <2> QED BY <1>5, <1>6, <2>1, <2>2 DEF BindingInv, PoolInv
<1>12. PoolSafe'
  <2>1. Inside' = Inside
    BY <1>1, <1>2, <1>4 DEF Inside, Moves
  <2>2. (inits = curlInits /\ inits = Cardinality({u \in Hosts : host[u].in}))'
    BY <1>5, <2>1 DEF BindingInv, PoolSafe, Inside
  <2>3. ASSUME NEW u \in Hosts PROVE SetSafe(u)'
    <3>1. CASE u = t
      BY <1>2, <1>4, <3>1 DEF SetSafe
    <3>2. CASE u # t
      <4>1. host'[u] = host[u] /\ SetSafe(u)
        BY <1>4, <3>2 DEF Moves, BindingInv, PoolSafe
      <4>2. \A v \in Hosts : host'[v].set = IF v = t THEN NoSet ELSE host[v].set
        BY <1>2, <1>4 DEF Moves
      <4> QED BY <1>6, <1>10, <3>2, <4>1, <4>2 DEF SetSafe
    <3> QED BY <3>1, <3>2
  <2> QED BY <2>2, <2>3 DEF PoolSafe
<1>13. OwnInv' /\ ShareInv'
  BY <1>1, <1>2, <1>4, <1>5, QuietFrame DEF native
<1>14. KeptInv' /\ DelegatesKept'
  BY <1>1, <1>2, <1>4, <1>5, KeptFrame DEF native
<1> QED BY <1>7, <1>8, <1>11, <1>12, <1>13, <1>14 DEF BindingInv

-----------------------------------------------------------------------------
(***************************************************************************)
(* Managers and their shares.                                              *)
(***************************************************************************)
\* While a worker is there, so is its manager, whose host has not cleaned up yet.
LEMMA WorkerHasHost ==
    ASSUME BindingInv, NEW a \in Addresses, worker[a].at # "none"
    PROVE  /\ manager[a].there /\ worker[a].share = manager[a].share /\ worker[a].share \in Shares
           /\ \E t \in Hosts : /\ Owns(t, a) /\ Holding(t) = worker[a].share
                              /\ host[t].at \notin {"cleanup", "erase", "drop", "remove"}
<1>1. manager[a].there /\ worker[a].share = manager[a].share /\ manager[a].share # 0
  BY DEF BindingInv, OwnInv, Manned, NoWorker
<1>2. PICK t \in Hosts : Owns(t, a)
  BY <1>1 DEF BindingInv, OwnInv, Manned
<1>3. host[t].at \notin {"cleanup", "erase", "drop", "remove"}
  BY <1>2 DEF BindingInv, OwnInv, Manned, NoWorker, Owns, At
<1>4. Holding(t) = worker[a].share
  BY <1>1, <1>2, <1>3, BindingAssumption DEF Holding, Owns, At
<1>5. worker[a].share \in Shares
  BY <1>1 DEF BindingInv, BindingTypeOK
<1> QED BY <1>1, <1>2, <1>3, <1>4, <1>5

\* So two of them do not share a share.
LEMMA WorkersApart ==
    ASSUME BindingInv, NEW a \in Addresses, NEW b \in Addresses,
           worker[a].at # "none", worker[b].at # "none", worker[a].share = worker[b].share
    PROVE  a = b
<1>1. PICK t \in Hosts : Owns(t, a) /\ Holding(t) = worker[a].share
  BY WorkerHasHost
<1>2. PICK u \in Hosts : Owns(u, b) /\ Holding(u) = worker[b].share
  BY WorkerHasHost
<1>3. worker[a].share # 0
  BY CurlwAssumption, WorkerHasHost
<1>4. t = u
  BY <1>1, <1>2, <1>3 DEF BindingInv, ShareInv
<1> QED BY <1>1, <1>2, <1>4 DEF Owns

LEMMA CreateKeeps ==
    ASSUME BindingInv, NEW t \in Hosts, Create(t)
    PROVE  BindingInv'
<1>1. /\ host[t] \in HostStates /\ host[t].at = "idle" /\ host[t].in
      /\ host[t].mgr = 0 /\ host[t].share = 0
  <2>1. host[t] \in HostStates /\ Fits(host[t])
    BY DEF BindingInv, BindingTypeOK, StepInv
  <2> QED BY <2>1 DEF Create, Idle, At, Fits
<1>2. PICK s \in Shares : /\ ShareInit(s)
                          /\ Becomes(t, [host[t] EXCEPT !.at = "enable", !.share = s])
  BY DEF Create
<1> DEFINE r == [host[t] EXCEPT !.at = "enable", !.share = s]
<1>3. /\ r \in HostStates /\ r.in /\ r.set = host[t].set /\ r.mgr = 0
      /\ r.share = s /\ s # 0 /\ r.at = "enable"
  BY <1>1, CurlwAssumption DEF HostStates, Steps
<1>4. Becomes(t, r)
  BY <1>2
<1> HIDE DEF r
<1>5. Moves(t) /\ host'[t] = r
  BY <1>3, <1>4, HostMoves DEF BindingInv
<1>6. /\ ~share[s].there /\ share' = [share EXCEPT ![s] = [NoShare EXCEPT !.there = TRUE]]
      /\ UNCHANGED <<globals, locks, mapHolder, lockSets, native, kept, sessions, delegates>>
  BY <1>2 DEF Create, ShareInit
<1>7. BindingTypeOK'
  BY <1>5, <1>6 DEF BindingInv, BindingTypeOK, globals, native, Moves, NoShare
<1>8. StepInv'
  <2>1. Fits(host[t])'
    BY <1>3, <1>5 DEF Fits
  <2> QED BY <1>5, <1>6, <2>1, StepFrame DEF BindingInv, native
<1>9. PoolInv' /\ PoolSafe'
  BY <1>1, <1>3, <1>5, <1>6, PoolFrame
<1>10. OwnInv'
  <2>1. \A a \in Addresses : Owns(t, a)' <=> Owns(t, a)
    BY <1>1, <1>3, <1>5, BindingAssumption DEF Owns
  <2> QED BY <1>3, <1>5, <1>6, <2>1, OwnFrame DEF native
<1>11. ShareInv'
  <2>1. /\ Holding(t)' = s /\ ~Locked(t)' /\ Holding(t) = 0 /\ ~Locked(t)
        /\ \A u \in Hosts \ {t} :
              /\ Holding(u)' = Holding(u) /\ (Locked(u)' <=> Locked(u)) /\ host'[u] = host[u]
    BY <1>1, <1>3, <1>5, <1>6 DEF Holding, Locked, At, Moves, native
  <2>2. \A u \in Hosts : Holding(u) # s
    BY <1>3, <1>6 DEF BindingInv, ShareInv
  <2>3. \A a \in Addresses : worker[a].at = "ready" => worker[a].share # s
    BY <2>2, WorkerHasHost
  <2>4. /\ share'[s].there /\ share'[s].users = 0 /\ ~share'[s].locking
        /\ \A x \in Shares \ {s} : share'[x] = share[x]
    BY <1>6 DEF BindingInv, BindingTypeOK, NoShare
  <2>5. UNCHANGED <<locks, mapHolder, worker>>
    BY <1>6 DEF native
  <2>6. ShareInv /\ \A u \in Hosts : Holding(u) # 0 => Holding(u) \in Shares
    BY DEF BindingInv, BindingTypeOK, HostStates, Holding, ShareInv
  <2>7. (/\ \A u \in Hosts : At(u, "erase") <=> mapHolder = u
         /\ \A u, v \in Hosts : Holding(u) # 0 /\ Holding(u) = Holding(v) => u = v
         /\ \A u, v \in Hosts : At(u, "erase") /\ Holding(v) = host[u].share => At(v, "enable"))'
    BY <1>1, <1>3, <1>5, <2>1, <2>2, <2>5, <2>6 DEF ShareInv, At
  <2>8. (\A u \in Hosts : Holding(u) # 0 => share[Holding(u)].there)'
    BY <1>3, <2>1, <2>2, <2>4, <2>6 DEF ShareInv
  <2>9. (\A u \in Hosts : Locked(u) =>
           share[Holding(u)].locking /\ locks[Holding(u)] # 0
           /\ share[Holding(u)].user = locks[Holding(u)])'
    BY <2>1, <2>2, <2>4, <2>5, <2>6 DEF ShareInv, Locked
  <2>10. ASSUME NEW x \in Shares
         PROVE  Accounted(x)'
    <3>1. Accounted(x)
      BY <2>6 DEF ShareInv
    <3>2. (share[x].there => \E u \in Hosts : Holding(u) = x)'
      BY <2>1, <2>4, <3>1, CurlwAssumption DEF Accounted
    <3>3. (locks[x] # 0 => \E u \in Hosts : \/ (Locked(u) /\ Holding(u) = x)
                                          \/ (At(u, "erase") /\ host[u].share = x))'
      BY <1>1, <2>1, <2>5, <3>1 DEF Accounted, At
    <3>4. (share[x].users = IF InUse(x) THEN 1 ELSE 0)'
      <4>1. InUse(x)' <=> InUse(x)
        BY <2>5 DEF InUse
      <4>2. CASE x = s
        BY <2>3, <2>4, <4>1, <4>2 DEF InUse
      <4>3. CASE x # s
        BY <2>4, <3>1, <4>1, <4>3 DEF Accounted
      <4> QED BY <4>2, <4>3
    <3> QED BY <3>2, <3>3, <3>4 DEF Accounted
  <2> QED BY <2>7, <2>8, <2>9, <2>10 DEF ShareInv
<1>12. KeptInv' /\ DelegatesKept'
  BY <1>1, <1>3, <1>5, <1>6, KeptFrame DEF native
<1> QED BY <1>7, <1>8, <1>9, <1>10, <1>11, <1>12 DEF BindingInv

\* The lock set of the share is entered: there is none at its address, or libcurl has
\* not cleaned up the share that had it.
LEMMA EnableKeeps ==
    ASSUME BindingInv, NEW t \in Hosts, EnableDefaultLocks(t)
    PROVE  BindingInv'
<1> DEFINE s == host[t].share
<1>1. /\ host[t] \in HostStates /\ host[t].at = "enable" /\ host[t].in
      /\ host[t].mgr = 0 /\ s \in Shares
  <2>1. host[t] \in HostStates /\ host[t].at = "enable" /\ Fits(host[t])
    BY DEF EnableDefaultLocks, At, BindingInv, BindingTypeOK, StepInv
  <2> QED BY <2>1 DEF Fits, Outside, HostStates
<1>2. Holding(t) = s /\ ~Locked(t)
  BY <1>1 DEF Holding, Locked, At
<1>3. ShareInv /\ s # 0 /\ \A u \in Hosts \ {t} : Holding(u) # s
  BY <1>1, <1>2, CurlwAssumption DEF BindingInv, ShareInv
<1>4. MapFree /\ \A u \in Hosts : host[u].at # "erase"
  BY BindingAssumption, <1>3
     DEF EnableDefaultLocks, AlreadyEnabled, EnableLocks, EnableFails, MapFree, ShareInv, At
<1>5. locks[s] = 0
  BY <1>1, <1>2, <1>3, <1>4 DEF ShareInv, Accounted, At
<1>6. PICK step \in {"make", "cleanup"} :
         /\ Becomes(t, [host[t] EXCEPT !.at = step])
         /\ step = "make" => EnableLocks(s)
         /\ step = "cleanup" => EnableFails(s)
  BY <1>5 DEF EnableDefaultLocks, AlreadyEnabled, Goto
<1> DEFINE r == [host[t] EXCEPT !.at = step]
<1>7. /\ r \in HostStates /\ r.in /\ r.set = host[t].set /\ r.mgr = 0
      /\ r.share = s /\ r.at = step
  BY <1>1 DEF HostStates, Steps
<1>8. Becomes(t, r)
  BY <1>6
<1> HIDE DEF r
<1>9. Moves(t) /\ host'[t] = r
  BY <1>7, <1>8, HostMoves DEF BindingInv
<1>10. UNCHANGED <<globals, mapHolder, native, kept, counts>>
  BY <1>6 DEF EnableDefaultLocks, EnableLocks, EnableFails
<1>11. /\ lockSets' \in Nat /\ locks' \in [Shares -> Nat]
       /\ share' \in [Shares -> [there : BOOLEAN, locking : BOOLEAN, user : Nat, users : Nat]]
       /\ \A x \in Shares : share'[x].there = share[x].there /\ share'[x].users = share[x].users
       /\ \A x \in Shares \ {s} : share'[x] = share[x] /\ locks'[x] = locks[x]
       /\ IF step = "make" THEN /\ share'[s].locking /\ locks'[s] # 0
                              /\ share'[s].user = locks'[s]
          ELSE locks'[s] = 0
  <2>1. /\ lockSets \in Nat /\ locks \in [Shares -> Nat]
        /\ share \in [Shares -> [there : BOOLEAN, locking : BOOLEAN, user : Nat, users : Nat]]
    BY DEF BindingInv, BindingTypeOK
  <2>2. CASE step = "make"
    BY <1>1, <1>6, <2>1, <2>2 DEF EnableLocks
  <2>3. CASE step = "cleanup"
    BY <1>1, <1>5, <1>6, <2>1, <2>3 DEF EnableFails
  <2> QED BY <2>2, <2>3
<1>12. BindingTypeOK'
  BY <1>9, <1>10, <1>11 DEF BindingInv, BindingTypeOK, globals, native, counts, Moves
<1>13. StepInv'
  <2>1. Fits(host[t])'
    BY <1>3, <1>7, <1>9 DEF Fits
  <2> QED BY <1>9, <1>10, <2>1, StepFrame DEF BindingInv, native
<1>14. PoolInv' /\ PoolSafe'
  BY <1>1, <1>7, <1>9, <1>10, PoolFrame
<1>15. OwnInv'
  <2>1. \A a \in Addresses : Owns(t, a)' <=> Owns(t, a)
    BY <1>1, <1>7, <1>9, BindingAssumption DEF Owns
  <2> QED BY <1>7, <1>9, <1>10, <2>1, OwnFrame DEF native
<1>16. ShareInv'
  <2>1. /\ Holding(t)' = s /\ (Locked(t)' <=> step = "make")
        /\ \A u \in Hosts \ {t} :
              /\ Holding(u)' = Holding(u) /\ (Locked(u)' <=> Locked(u)) /\ host'[u] = host[u]
    BY <1>3, <1>7, <1>9, <1>10 DEF Holding, Locked, At, Moves, native
  <2>2. \A u \in Hosts : Holding(u)' = Holding(u) /\ host'[u].at # "erase"
    BY <1>2, <1>4, <1>7, <1>9, <2>1
  <2>3. (/\ \A u \in Hosts : At(u, "erase") <=> mapHolder = u
         /\ \A u, v \in Hosts : Holding(u) # 0 /\ Holding(u) = Holding(v) => u = v
         /\ \A u, v \in Hosts : At(u, "erase") /\ Holding(v) = host[u].share => At(v, "enable"))'
    BY <1>3, <1>4, <1>10, <2>2 DEF ShareInv, At
  <2>4. \A u \in Hosts : Holding(u) # 0 => Holding(u) \in Shares
    BY DEF BindingInv, BindingTypeOK, HostStates, Holding
  <2>5. (\A u \in Hosts : Holding(u) # 0 => share[Holding(u)].there)'
    BY <1>3, <1>11, <2>2, <2>4 DEF ShareInv
  <2>6. (\A u \in Hosts : Locked(u) =>
           share[Holding(u)].locking /\ locks[Holding(u)] # 0
           /\ share[Holding(u)].user = locks[Holding(u)])'
    BY <1>3, <1>11, <2>1, <2>4 DEF ShareInv, Locked
  <2>7. ASSUME NEW x \in Shares PROVE Accounted(x)'
    <3>1. Accounted(x)
      BY <1>3 DEF ShareInv
    <3>2. (share[x].there => \E u \in Hosts : Holding(u) = x)'
      BY <1>11, <2>2, <3>1 DEF Accounted
    <3>3. (locks[x] # 0 => \E u \in Hosts : \/ (Locked(u) /\ Holding(u) = x)
                                          \/ (At(u, "erase") /\ host[u].share = x))'
      BY <1>2, <1>4, <1>11, <2>1, <3>1 DEF Accounted, At
    <3>4. UNCHANGED worker /\ share'[x].users = share[x].users
      BY <1>10, <1>11 DEF native
    <3> QED BY <3>1, <3>2, <3>3, <3>4 DEF Accounted, InUse
  <2> QED BY <2>3, <2>5, <2>6, <2>7 DEF ShareInv
<1>17. KeptInv' /\ DelegatesKept'
  BY <1>1, <1>7, <1>9, <1>10, KeptFrame DEF native
<1> QED BY <1>12, <1>13, <1>14, <1>15, <1>16, <1>17 DEF BindingInv

LEMMA MakeKeeps ==
    ASSUME BindingInv, NEW t \in Hosts, Make(t)
    PROVE  BindingInv'
<1> DEFINE s == host[t].share
<1>1. /\ host[t] \in HostStates /\ host[t].at = "make" /\ host[t].in
      /\ host[t].mgr = 0 /\ s \in Shares
  <2>1. host[t] \in HostStates /\ host[t].at = "make" /\ Fits(host[t])
    BY DEF Make, At, BindingInv, BindingTypeOK, StepInv
  <2> QED BY <2>1 DEF Fits, Outside, HostStates
<1>2. PICK a \in Addresses :
         /\ ~manager[a].there
         /\ manager' = [manager EXCEPT ![a] = [there |-> TRUE, share |-> s, slot |-> 0]]
         /\ Becomes(t, [host[t] EXCEPT !.at = "idle", !.mgr = a, !.share = 0])
         /\ overtaken' = IF Removing(a) # {} THEN overtaken \cup {a} ELSE overtaken
  BY DEF Make
<1> DEFINE r == [host[t] EXCEPT !.at = "idle", !.mgr = a, !.share = 0]
<1>3. /\ r \in HostStates /\ r.in /\ r.set = host[t].set /\ r.mgr = a /\ a # 0
      /\ r.share = 0 /\ r.at = "idle"
  BY <1>1, BindingAssumption DEF HostStates, Steps
<1>4. Becomes(t, r)
  BY <1>2
<1> HIDE DEF r
<1>5. Moves(t) /\ host'[t] = r
  BY <1>3, <1>4, HostMoves DEF BindingInv
<1>6. UNCHANGED <<curlwVars, reporter, worker, kept, sessions, managers, delegates>>
  BY DEF Make, counts
<1>7. /\ manager' \in [Addresses -> [there : BOOLEAN, share : Shares \cup {0}, slot : Nat]]
      /\ manager'[a] = [there |-> TRUE, share |-> s, slot |-> 0]
      /\ \A b \in Addresses \ {a} : manager'[b] = manager[b]
  BY <1>1, <1>2 DEF BindingInv, BindingTypeOK
<1>8. OwnInv /\ \A u \in Hosts : ~Owns(u, a)
  BY <1>2 DEF BindingInv, OwnInv, Manned
<1>9. BindingTypeOK'
  <2>1. overtaken' \subseteq Addresses
    BY <1>2 DEF BindingInv, BindingTypeOK
  <2> QED BY <1>5, <1>6, <1>7, <2>1
          DEF BindingInv, BindingTypeOK, curlwVars, globals, shares, Moves
<1>10. StepInv'
  <2>1. Fits(host[t])'
    BY <1>3, <1>5 DEF Fits
  <2>2. ASSUME NEW u \in Hosts \ {t}, host[u].mgr # 0, host[u].share # 0
        PROVE  manager'[host[u].mgr].share = manager[host[u].mgr].share
    <3>1. host[u].mgr \in Addresses /\ host[u].at # "remove"
      BY <2>2 DEF BindingInv, BindingTypeOK, HostStates, StepInv, Fits
    <3>2. host[u].mgr # a
      BY <1>8, <3>1 DEF Owns, At
    <3> QED BY <1>7, <3>1, <3>2
  <2> QED BY <1>5, <2>1, <2>2, StepFrame DEF BindingInv
<1>11. PoolInv' /\ PoolSafe'
  BY <1>1, <1>3, <1>5, <1>6, PoolFrame DEF curlwVars
<1>12. \A u \in Hosts, b \in Addresses : Owns(u, b)' <=> Owns(u, b) \/ (u = t /\ b = a)
  BY <1>1, <1>3, <1>5, BindingAssumption DEF Owns, At, Moves
<1>13. OwnInv'
  <2>1. (\A u, v \in Hosts, b \in Addresses : Owns(u, b) /\ Owns(v, b) => u = v)'
    BY <1>8, <1>12 DEF OwnInv, Manned
  <2>2. ASSUME NEW b \in Addresses
        PROVE  Manned(b)'
    <3>1. CASE b = a
      BY <1>1, <1>2, <1>6, <1>7, <1>8, <1>12, <3>1, CurlwAssumption
         DEF OwnInv, Manned, NoThread, NoWorker
    <3>2. CASE b # a
      BY <1>6, <1>7, <1>8, <1>12, <3>2 DEF OwnInv, Manned, NoThread, NoWorker, NoManager
    <3> QED BY <3>1, <3>2
  <2>3. ASSUME NEW u \in Hosts, NEW b \in Addresses, Owns(u, b)'
        PROVE  (/\ manager[b].there
                /\ host[u].at \in {"cleanup", "erase", "drop"} =>
                      reporter[b] = NoThread /\ worker[b] = NoWorker)'
    <3>1. CASE u = t
      BY <1>1, <1>3, <1>5, <1>7, <2>3, <3>1 DEF Owns
    <3>2. CASE u # t
      BY <1>5, <1>6, <1>7, <1>8, <1>12, <2>3, <3>2 DEF OwnInv, Manned, Moves, NoThread, NoWorker
    <3> QED BY <3>1, <3>2
  <2> QED BY <2>1, <2>2, <2>3 DEF OwnInv, Manned
<1>14. ShareInv'
  <2>1. Holding(t)' = Holding(t) /\ (Locked(t)' <=> Locked(t))
    BY <1>1, <1>3, <1>5, <1>7 DEF Holding, Locked, At
  <2>2. ASSUME NEW u \in Hosts \ {t}
        PROVE  Holding(u)' = Holding(u) /\ (Locked(u)' <=> Locked(u))
    <3>1. host'[u] = host[u] /\ (host[u].mgr = a => host[u].at = "remove")
      BY <1>5, <1>8 DEF Moves, Owns, At
    <3>2. host[u].mgr # 0 /\ host[u].mgr # a => manager'[host[u].mgr] = manager[host[u].mgr]
      BY <1>7 DEF BindingInv, BindingTypeOK, HostStates
    <3> QED BY <3>1, <3>2 DEF Holding, Locked, At
  <2>3. SameHolding
    BY <1>1, <1>3, <1>5, <2>1, <2>2 DEF SameHolding, Moves
  <2> QED BY <1>6, <2>3, ShareFrame DEF curlwVars, shares, InUse
<1>15. KeptInv' /\ DelegatesKept'
  <2>1. \A b \in Addresses : Removing(b)' = Removing(b)
    BY <1>1, <1>3, <1>5 DEF Removing, At, Moves
  <2>2. overtaken \subseteq overtaken' /\ \A b \in Addresses \ {a} : b \in overtaken' <=> b \in overtaken
    BY <1>2
  <2>3. KeptInv'
    BY <1>1, <1>2, <1>3, <1>5, <1>6, <1>7, <2>1, <2>2 DEF BindingInv, KeptInv, Moves, At
  <2>4. DelegatesKept'
    <3>1. reporter[a].cb = 0
      BY <1>2, <1>8 DEF OwnInv, Manned, NoThread
    <3> QED BY <1>6, <1>7, <2>1, <2>2, <3>1 DEF BindingInv, DelegatesKept
  <2> QED BY <2>3, <2>4
<1> QED BY <1>9, <1>10, <1>11, <1>13, <1>14, <1>15 DEF BindingInv

LEMMA StartKeeps ==
    ASSUME BindingInv, NEW t \in Hosts, Start(t)
    PROVE  BindingInv'
<1> DEFINE m == host[t].mgr
<1>1. m \in Addresses /\ Owns(t, m) /\ host[t].at = "idle" /\ reporter[m].at = "none"
  BY DEF Start, Idle, At, Owns, BindingInv, BindingTypeOK, HostStates
<1>2. /\ manager[m].there /\ worker[m] = NoWorker
      /\ manager[m].share \in Shares /\ OwnInv
  BY <1>1 DEF BindingInv, BindingTypeOK, OwnInv, Manned
<1>3. /\ reporter' = [reporter EXCEPT ![m] = [at |-> "sleep", cb |-> 0]]
      /\ worker' = [worker EXCEPT ![m] = [at |-> "new", share |-> manager[m].share]]
      /\ UNCHANGED <<curlwVars, host, manager, overtaken, kept, counts>>
  BY DEF Start
<1>4. BindingTypeOK'
  <2>1. /\ reporter' \in [Addresses -> [at : {"none", "sleep", "call"}, cb : Nat]]
        /\ worker' \in [Addresses -> [at : {"none", "new", "ready", "bare"},
                                     share : Shares \cup {0}]]
    BY <1>1, <1>2, <1>3 DEF BindingInv, BindingTypeOK
  <2> QED BY <1>3, <2>1 DEF BindingInv, BindingTypeOK, curlwVars, globals, shares, counts
<1>5. /\ StepInv' /\ PoolInv' /\ PoolSafe' /\ SameHolding
      /\ \A u \in Hosts, a \in Addresses : Owns(u, a)' <=> Owns(u, a)
      /\ \A a \in Addresses : Removing(a)' = Removing(a)
  BY <1>3, StillFrame DEF curlwVars
<1>6. /\ reporter'[m] = [at |-> "sleep", cb |-> 0]
      /\ worker'[m] = [at |-> "new", share |-> manager[m].share]
      /\ \A a \in Addresses \ {m} : reporter'[a] = reporter[a] /\ worker'[a] = worker[a]
  BY <1>1, <1>3 DEF BindingInv, BindingTypeOK
<1>7. OwnInv'
  <2>1. (\A u, v \in Hosts, a \in Addresses : Owns(u, a) /\ Owns(v, a) => u = v)'
    BY <1>2, <1>5 DEF OwnInv
  <2>2. ASSUME NEW a \in Addresses PROVE Manned(a)'
    <3>1. UNCHANGED manager
      BY <1>3
    <3>2. CASE a = m
      BY <1>2, <1>5, <1>6, <3>1, <3>2 DEF OwnInv, Manned
    <3>3. CASE a # m
      BY <1>2, <1>5, <1>6, <3>1, <3>3 DEF OwnInv, Manned, NoManager, NoThread, NoWorker
    <3> QED BY <3>2, <3>3
  <2>3. ASSUME NEW u \in Hosts, NEW a \in Addresses, Owns(u, a)'
        PROVE  (/\ manager[a].there
                /\ host[u].at \in {"cleanup", "erase", "drop"} =>
                      reporter[a] = NoThread /\ worker[a] = NoWorker)'
    BY <1>1, <1>2, <1>3, <1>5, <1>6, <2>3 DEF OwnInv, NoThread, NoWorker
  <2> QED BY <2>1, <2>2, <2>3 DEF OwnInv
<1>8. ShareInv'
  <2>1. \A x \in Shares : InUse(x)' <=> InUse(x)
    BY <1>1, <1>2, <1>6 DEF InUse, NoWorker
  <2>2. UNCHANGED <<share, locks, mapHolder>>
    BY <1>3 DEF curlwVars, shares
  <2> QED BY <1>5, <2>1, <2>2, ShareFrame
<1>9. KeptInv' /\ DelegatesKept'
  <2>1. KeptInv'
    BY <1>3, <1>5 DEF BindingInv, KeptInv, At
  <2>2. \A a \in Addresses : reporter'[a].cb = reporter[a].cb
    BY <1>1, <1>2, <1>6 DEF OwnInv, Manned, NoThread
  <2> QED BY <1>3, <1>5, <2>1, <2>2 DEF BindingInv, DelegatesKept
<1> QED BY <1>4, <1>5, <1>7, <1>8, <1>9 DEF BindingInv

-----------------------------------------------------------------------------
(***************************************************************************)
(* Callbacks.                                                              *)
(***************************************************************************)
LEMMA SetCallbackKeeps ==
    ASSUME BindingInv, NEW t \in Hosts, SetCallback(t)
    PROVE  BindingInv'
<1> DEFINE m == host[t].mgr
           d == delegates + 1
           r == [host[t] EXCEPT !.at = "set", !.cb = d]
<1>1. /\ host[t] \in HostStates /\ host[t].at = "idle" /\ host[t].in
      /\ m \in Addresses /\ m # 0 /\ host[t].share = 0 /\ d \in Nat
  <2>1. host[t] \in HostStates /\ host[t].at = "idle" /\ Fits(host[t]) /\ delegates \in Nat
    BY DEF SetCallback, Idle, At, BindingInv, BindingTypeOK, StepInv
  <2> QED BY <2>1 DEF SetCallback, Idle, Fits, HostStates
<1>2. /\ r \in HostStates /\ r.in /\ r.set = host[t].set /\ r.mgr = m
      /\ r.share = 0 /\ r.at = "set" /\ r.cb = d
  BY <1>1 DEF HostStates, Steps
<1>3. /\ Becomes(t, r) /\ kept' = [kept EXCEPT ![m] = @ \cup {d}] /\ delegates' = d
      /\ UNCHANGED <<curlwVars, native, sessions, managers>>
  BY DEF SetCallback, KeepAlive
<1> HIDE DEF r
<1>4. Moves(t) /\ host'[t] = r
  BY <1>2, <1>3, HostMoves DEF BindingInv
<1>5. /\ kept' \in [Addresses -> SUBSET Nat] /\ kept'[m] = kept[m] \cup {d}
      /\ \A a \in Addresses \ {m} : kept'[a] = kept[a]
  BY <1>1, <1>3 DEF BindingInv, BindingTypeOK
<1>6. BindingTypeOK'
  BY <1>1, <1>3, <1>4, <1>5 DEF BindingInv, BindingTypeOK, curlwVars, globals, shares, native, Moves
<1>7. StepInv'
  <2>1. Fits(host[t])'
    BY <1>1, <1>2, <1>4 DEF Fits
  <2> QED BY <1>3, <1>4, <2>1, StepFrame DEF BindingInv, native
<1>8. PoolInv' /\ PoolSafe'
  BY <1>1, <1>2, <1>3, <1>4, PoolFrame DEF curlwVars
<1>9. OwnInv' /\ ShareInv'
  BY <1>1, <1>2, <1>3, <1>4, QuietFrame DEF native, curlwVars
<1>10. \A a \in Addresses : Removing(a)' = Removing(a)
  BY <1>1, <1>2, <1>4 DEF Removing, At, Moves
<1>11. KeptInv'
  <2>1. UNCHANGED <<manager, overtaken>> /\ KeptInv
    BY <1>3 DEF BindingInv, native
  <2>2. ASSUME NEW u \in Hosts, host'[u].at = "set", host'[u].mgr \notin overtaken
        PROVE  host'[u].cb \in kept'[host'[u].mgr]
    <3>1. CASE u = t
      BY <1>2, <1>4, <1>5, <3>1
    <3>2. CASE u # t
      <4>1. host'[u] = host[u] /\ host[u].mgr \in Addresses
        BY <1>4, <2>2, <3>2 DEF Moves, BindingInv, BindingTypeOK, HostStates, StepInv, Fits
      <4> QED BY <1>5, <2>1, <2>2, <4>1 DEF KeptInv, At
    <3> QED BY <3>1, <3>2
  <2> QED BY <1>10, <2>1, <2>2 DEF KeptInv, At
<1>12. DelegatesKept'
  <2>1. manager[m].there
    BY <1>1 DEF BindingInv, OwnInv, Owns, At
  <2> QED BY <1>3, <1>5, <1>10, <2>1 DEF BindingInv, DelegatesKept, native
<1> QED BY <1>6, <1>7, <1>8, <1>9, <1>11, <1>12 DEF BindingInv

LEMMA SetSlotKeeps ==
    ASSUME BindingInv, NEW t \in Hosts, SetSlot(t)
    PROVE  BindingInv'
<1> DEFINE m == host[t].mgr
           d == host[t].cb
           r == [host[t] EXCEPT !.at = "idle", !.cb = 0]
<1>1. /\ host[t] \in HostStates /\ host[t].at = "set" /\ host[t].in
      /\ m \in Addresses /\ m # 0 /\ host[t].share = 0 /\ d \in Nat
  <2>1. host[t] \in HostStates /\ host[t].at = "set" /\ Fits(host[t])
    BY DEF SetSlot, At, BindingInv, BindingTypeOK, StepInv
  <2> QED BY <2>1 DEF Fits, Outside, HostStates
<1>2. /\ r \in HostStates /\ r.in /\ r.set = host[t].set /\ r.mgr = m
      /\ r.share = 0 /\ r.at = "idle"
  BY <1>1 DEF HostStates, Steps
<1>3. /\ Becomes(t, r) /\ manager' = [manager EXCEPT ![m].slot = d]
      /\ UNCHANGED <<curlwVars, reporter, worker, overtaken, kept, counts>>
  BY DEF SetSlot
<1> HIDE DEF r
<1>4. Moves(t) /\ host'[t] = r
  BY <1>2, <1>3, HostMoves DEF BindingInv
<1>5. /\ manager' \in [Addresses -> [there : BOOLEAN, share : Shares \cup {0}, slot : Nat]]
      /\ manager'[m] = [manager[m] EXCEPT !.slot = d] /\ manager[m].there
      /\ \A a \in Addresses \ {m} : manager'[a] = manager[a]
      /\ \A a \in Addresses : manager'[a].there = manager[a].there
                            /\ manager'[a].share = manager[a].share
      /\ manager'[m].slot = d
  <2>1. manager \in [Addresses -> [there : BOOLEAN, share : Shares \cup {0}, slot : Nat]]
    BY DEF BindingInv, BindingTypeOK
  <2>2. manager[m].there
    BY <1>1 DEF BindingInv, OwnInv, Owns, At
  <2> QED BY <1>1, <1>3, <2>1, <2>2
<1>6. BindingTypeOK'
  BY <1>3, <1>4, <1>5 DEF BindingInv, BindingTypeOK, curlwVars, globals, shares, counts, Moves
<1>7. StepInv'
  <2>1. Fits(host[t])'
    BY <1>1, <1>2, <1>4 DEF Fits
  <2>2. \A u \in Hosts : host[u].mgr # 0 => host[u].mgr \in Addresses
    BY DEF BindingInv, BindingTypeOK, HostStates
  <2> QED BY <1>4, <1>5, <2>1, <2>2, StepFrame DEF BindingInv
<1>8. PoolInv' /\ PoolSafe'
  BY <1>1, <1>2, <1>3, <1>4, PoolFrame DEF curlwVars
<1>9. OwnInv' /\ ShareInv'
  BY <1>1, <1>2, <1>3, <1>4, <1>5, QuietFrame DEF curlwVars
<1>10. \A a \in Addresses : Removing(a)' = Removing(a)
  BY <1>1, <1>2, <1>4 DEF Removing, At, Moves
<1>11. KeptInv'
  BY <1>2, <1>3, <1>4, <1>5, <1>10 DEF BindingInv, KeptInv, Moves, At
<1>12. DelegatesKept'
  <2>1. m \notin overtaken => d \in kept[m]
    BY <1>1 DEF BindingInv, KeptInv, At
  <2> QED BY <1>3, <1>5, <1>10, <2>1 DEF BindingInv, DelegatesKept
<1> QED BY <1>6, <1>7, <1>8, <1>9, <1>11, <1>12 DEF BindingInv

LEMMA ClearCallbackKeeps ==
    ASSUME BindingInv, NEW t \in Hosts, ClearCallback(t)
    PROVE  BindingInv'
<1> DEFINE m == host[t].mgr
<1>1. m \in Addresses /\ host[t].at = "idle"
  BY DEF ClearCallback, Idle, At, BindingInv, BindingTypeOK, HostStates
<1>2. /\ manager' = [manager EXCEPT ![m].slot = 0]
      /\ UNCHANGED <<curlwVars, host, reporter, worker, overtaken, kept, counts>>
  BY DEF ClearCallback
<1>3. /\ manager' \in [Addresses -> [there : BOOLEAN, share : Shares \cup {0}, slot : Nat]]
      /\ manager[m].there /\ \A a \in Addresses \ {m} : manager'[a] = manager[a]
      /\ \A a \in Addresses : manager'[a].there = manager[a].there
                            /\ manager'[a].share = manager[a].share
      /\ manager'[m].slot = 0
  <2>1. manager \in [Addresses -> [there : BOOLEAN, share : Shares \cup {0}, slot : Nat]]
    BY DEF BindingInv, BindingTypeOK
  <2>2. manager[m].there
    BY <1>1 DEF BindingInv, OwnInv, Owns, At
  <2> QED BY <1>1, <1>2, <2>1, <2>2
<1>4. BindingTypeOK'
  BY <1>2, <1>3 DEF BindingInv, BindingTypeOK, curlwVars, globals, shares, counts
<1>5. /\ StepInv' /\ PoolInv' /\ PoolSafe' /\ SameHolding
      /\ \A u \in Hosts, a \in Addresses : Owns(u, a)' <=> Owns(u, a)
      /\ \A a \in Addresses : Removing(a)' = Removing(a)
  BY <1>2, <1>3, StillFrame DEF curlwVars
<1>6. OwnInv' /\ ShareInv'
  <2>1. Moves(t)
    BY <1>2 DEF Moves, BindingInv, BindingTypeOK
  <2>2. host[t].share = 0
    BY <1>1 DEF BindingInv, StepInv, Fits
  <2> QED BY <1>1, <1>2, <1>3, <2>1, <2>2, QuietFrame DEF curlwVars
<1>7. KeptInv' /\ DelegatesKept'
  BY <1>2, <1>3, <1>5 DEF BindingInv, KeptInv, DelegatesKept, At
<1> QED BY <1>4, <1>5, <1>6, <1>7 DEF BindingInv

-----------------------------------------------------------------------------
(***************************************************************************)
(* Shutting down.                                                          *)
(***************************************************************************)
LEMMA ShutdownKeeps ==
    ASSUME BindingInv, NEW t \in Hosts, Shutdown(t)
    PROVE  BindingInv'
<1> DEFINE m == host[t].mgr
           s == manager[m].share
           r == [host[t] EXCEPT !.at = "join", !.share = s]
<1>1. /\ host[t] \in HostStates /\ host[t].at = "idle" /\ host[t].in
      /\ m \in Addresses /\ m # 0 /\ Owns(t, m)
  BY DEF Shutdown, Idle, At, Owns, BindingInv, BindingTypeOK, HostStates
<1>2. s \in Shares /\ s # 0
  <2>1. s # 0
    BY <1>1 DEF BindingInv, OwnInv, Manned
  <2> QED BY <1>1, <2>1 DEF BindingInv, BindingTypeOK
<1>3. /\ r \in HostStates /\ r.in /\ r.set = host[t].set /\ r.mgr = m
      /\ r.share = s /\ r.at = "join"
  BY <1>1, <1>2 DEF HostStates, Steps
<1>4. Becomes(t, r) /\ UNCHANGED <<curlwVars, native, kept, counts>>
  BY DEF Shutdown
<1> HIDE DEF r
<1>5. Moves(t) /\ host'[t] = r
  BY <1>3, <1>4, HostMoves DEF BindingInv
<1>6. BindingTypeOK'
  BY <1>4, <1>5 DEF BindingInv, BindingTypeOK, curlwVars, globals, shares, native, counts, Moves
<1>7. StepInv'
  <2>1. Fits(host[t])'
    BY <1>1, <1>2, <1>3, <1>4, <1>5 DEF Fits, native
  <2> QED BY <1>4, <1>5, <2>1, StepFrame DEF BindingInv, native
<1>8. PoolInv' /\ PoolSafe'
  BY <1>1, <1>3, <1>4, <1>5, PoolFrame DEF curlwVars
<1>9. OwnInv'
  <2>1. \A a \in Addresses : Owns(t, a)' <=> Owns(t, a)
    BY <1>1, <1>3, <1>5 DEF Owns, At
  <2> QED BY <1>3, <1>4, <1>5, <2>1, OwnFrame DEF native
<1>10. ShareInv'
  <2>1. SameHolding
    BY <1>1, <1>3, <1>4, <1>5 DEF SameHolding, Holding, Locked, At, Moves, native
  <2> QED BY <1>4, <2>1, ShareFrame DEF curlwVars, shares, native, InUse
<1>11. KeptInv' /\ DelegatesKept'
  BY <1>1, <1>3, <1>4, <1>5, KeptFrame DEF native
<1> QED BY <1>6, <1>7, <1>8, <1>9, <1>10, <1>11 DEF BindingInv

LEMMA JoinKeeps ==
    ASSUME BindingInv, NEW t \in Hosts, Join(t)
    PROVE  BindingInv'
<1> DEFINE m == host[t].mgr
           r == [host[t] EXCEPT !.at = "cleanup"]
<1>1. /\ host[t] \in HostStates /\ host[t].at = "join" /\ host[t].in
      /\ m \in Addresses /\ m # 0 /\ host[t].share # 0 /\ Owns(t, m) /\ Fits(host[t])
  <2>1. host[t] \in HostStates /\ host[t].at = "join" /\ Fits(host[t])
    BY DEF Join, At, BindingInv, BindingTypeOK, StepInv
  <2> QED BY <2>1 DEF Fits, Outside, HostStates, Owns, At
<1>2. /\ r \in HostStates /\ r.in /\ r.set = host[t].set /\ r.mgr = m
      /\ r.share = host[t].share /\ r.at = "cleanup"
  BY <1>1 DEF HostStates, Steps
<1>3. /\ Becomes(t, r) /\ worker[m] = NoWorker /\ reporter' = [reporter EXCEPT ![m] = NoThread]
      /\ UNCHANGED <<curlwVars, manager, worker, overtaken, kept, counts>>
  BY DEF Join, Goto
<1> HIDE DEF r
<1>4. Moves(t) /\ host'[t] = r
  BY <1>2, <1>3, HostMoves DEF BindingInv
<1>5. /\ reporter' \in [Addresses -> [at : {"none", "sleep", "call"}, cb : Nat]]
      /\ reporter'[m] = NoThread /\ \A a \in Addresses \ {m} : reporter'[a] = reporter[a]
  BY <1>1, <1>3 DEF BindingInv, BindingTypeOK, NoThread
<1>6. BindingTypeOK'
  BY <1>3, <1>4, <1>5 DEF BindingInv, BindingTypeOK, curlwVars, globals, shares, counts, Moves
<1>7. StepInv'
  <2>1. Fits(host[t])'
    BY <1>1, <1>2, <1>3, <1>4 DEF Fits
  <2> QED BY <1>3, <1>4, <2>1, StepFrame DEF BindingInv
<1>8. PoolInv' /\ PoolSafe'
  BY <1>1, <1>2, <1>3, <1>4, PoolFrame DEF curlwVars
<1>9. OwnInv'
  <2>1. \A u \in Hosts, a \in Addresses : Owns(u, a)' <=> Owns(u, a)
    BY <1>1, <1>2, <1>4 DEF Owns, At, Moves
  <2>2. OwnInv
    BY DEF BindingInv
  <2>3. (\A u, v \in Hosts, a \in Addresses : Owns(u, a) /\ Owns(v, a) => u = v)'
    BY <2>1, <2>2 DEF OwnInv
  <2>4. ASSUME NEW a \in Addresses PROVE Manned(a)'
    <3>1. CASE a = m
      BY <1>3, <1>5, <2>1, <2>2, <3>1 DEF OwnInv, Manned, NoWorker, NoManager
    <3>2. CASE a # m
      BY <1>3, <1>5, <2>1, <2>2, <3>2 DEF OwnInv, Manned, NoThread, NoWorker, NoManager
    <3> QED BY <3>1, <3>2
  <2>5. ASSUME NEW u \in Hosts, NEW a \in Addresses, Owns(u, a)'
        PROVE  (/\ manager[a].there
                /\ host[u].at \in {"cleanup", "erase", "drop"} =>
                      reporter[a] = NoThread /\ worker[a] = NoWorker)'
    <3>1. CASE a = m
      BY <1>3, <1>5, <2>1, <2>2, <2>5, <3>1 DEF OwnInv, NoThread, NoWorker
    <3>2. CASE a # m
      <4>1. u # t
        BY <1>1, <2>1, <2>5, <3>2 DEF Owns
      <4> QED BY <1>3, <1>4, <1>5, <2>1, <2>2, <2>5, <3>2, <4>1 DEF OwnInv, Moves, NoThread, NoWorker
    <3> QED BY <3>1, <3>2
  <2> QED BY <2>3, <2>4, <2>5 DEF OwnInv
<1>10. ShareInv'
  <2>1. SameHolding
    BY <1>1, <1>2, <1>3, <1>4 DEF SameHolding, Holding, Locked, At, Moves
  <2> QED BY <1>3, <2>1, ShareFrame DEF curlwVars, shares, InUse
<1>11. KeptInv' /\ DelegatesKept'
  <2>1. \A a \in Addresses : Removing(a)' = Removing(a)
    BY <1>1, <1>2, <1>4 DEF Removing, At, Moves
  <2>2. KeptInv'
    BY <1>1, <1>2, <1>3, <1>4, <2>1 DEF BindingInv, KeptInv, Moves, At
  <2>3. \A a \in Addresses : reporter'[a].cb \in {reporter[a].cb, 0}
    BY <1>5 DEF NoThread
  <2> QED BY <1>3, <2>1, <2>2, <2>3 DEF BindingInv, DelegatesKept
<1> QED BY <1>6, <1>7, <1>8, <1>9, <1>10, <1>11 DEF BindingInv

\* When a share is cleaned up its last handle is gone.
LEMMA NoLateHandle ==
    ASSUME BindingInv, NEW t \in Hosts, host[t].at = "cleanup"
    PROVE  /\ host[t].share \in Shares /\ Holding(t) = host[t].share
           /\ ~InUse(host[t].share) /\ share[host[t].share].users = 0
<1>1. host[t] \in HostStates /\ Fits(host[t])
  BY DEF BindingInv, BindingTypeOK, StepInv
<1>2. host[t].share \in Shares /\ Holding(t) = host[t].share /\ host[t].share # 0
  BY <1>1 DEF Fits, HostStates, Holding, At
<1>3. ASSUME NEW a \in Addresses, worker[a].at = "ready", worker[a].share = host[t].share
      PROVE  FALSE
  <2>1. PICK u \in Hosts : /\ Holding(u) = host[t].share
                           /\ host[u].at \notin {"cleanup", "erase", "drop", "remove"}
    BY <1>3, WorkerHasHost
  <2>2. u = t
    BY <1>2, <2>1 DEF BindingInv, ShareInv
  <2> QED BY <2>1, <2>2
<1>4. ~InUse(host[t].share)
  BY <1>3 DEF InUse
<1> QED BY <1>2, <1>4 DEF BindingInv, ShareInv, Accounted

LEMMA CleanupKeeps ==
    ASSUME BindingInv, NEW t \in Hosts, Cleanup(t)
    PROVE  BindingInv'
<1> DEFINE s == host[t].share
           r == [host[t] EXCEPT !.at = "erase"]
<1>1. /\ host[t] \in HostStates /\ host[t].at = "cleanup" /\ host[t].in
      /\ s \in Shares /\ s # 0 /\ Holding(t) = s /\ Fits(host[t])
      /\ ~InUse(s) /\ share[s].users = 0
  <2>1. host[t] \in HostStates /\ host[t].at = "cleanup" /\ Fits(host[t])
    BY DEF Cleanup, At, BindingInv, BindingTypeOK, StepInv
  <2> QED BY <2>1, NoLateHandle DEF Fits, Outside
<1>2. /\ r \in HostStates /\ r.in /\ r.set = host[t].set /\ r.mgr = host[t].mgr
      /\ r.share = s /\ r.at = "erase"
  BY <1>1 DEF HostStates, Steps
<1>3. /\ Becomes(t, r) /\ mapHolder = Nobody /\ mapHolder' = t
      /\ share' = [share EXCEPT ![s] = NoShare]
      /\ UNCHANGED <<globals, locks, lockSets, native, kept, counts>>
  BY <1>1 DEF Cleanup, ShareCleanup, MapFree
<1> HIDE DEF r
<1>4. Moves(t) /\ host'[t] = r
  BY <1>2, <1>3, HostMoves DEF BindingInv
<1>5. BindingTypeOK'
  BY <1>3, <1>4 DEF BindingInv, BindingTypeOK, globals, native, counts, Moves, NoShare
<1>6. StepInv'
  <2>1. Fits(host[t])'
    BY <1>1, <1>2, <1>3, <1>4 DEF Fits, native
  <2> QED BY <1>3, <1>4, <2>1, StepFrame DEF BindingInv, native
<1>7. PoolInv' /\ PoolSafe'
  BY <1>1, <1>2, <1>3, <1>4, PoolFrame
<1>8. OwnInv'
  <2>1. \A a \in Addresses : Owns(t, a)' <=> Owns(t, a)
    BY <1>1, <1>2, <1>4 DEF Owns, At
  <2> QED BY <1>1, <1>2, <1>3, <1>4, <2>1, OwnFrame DEF native
<1>9. ShareInv'
  <2>1. /\ Holding(t)' = 0 /\ ~Locked(t)'
        /\ \A u \in Hosts \ {t} :
              /\ Holding(u)' = Holding(u) /\ (Locked(u)' <=> Locked(u)) /\ host'[u] = host[u]
    BY <1>2, <1>3, <1>4 DEF Holding, Locked, At, Moves, native
  <2>2. ShareInv /\ (\A u \in Hosts \ {t} : Holding(u) # s) /\ \A u \in Hosts : host[u].at # "erase"
    BY <1>1, <1>3, BindingAssumption DEF BindingInv, ShareInv, At
  <2>3. /\ ~share'[s].there /\ share'[s].users = 0
        /\ \A x \in Shares \ {s} : share'[x] = share[x]
    BY <1>1, <1>3 DEF BindingInv, BindingTypeOK, NoShare
  <2>4. (/\ \A u \in Hosts : At(u, "erase") <=> mapHolder = u
         /\ \A u, v \in Hosts : Holding(u) # 0 /\ Holding(u) = Holding(v) => u = v
         /\ \A u, v \in Hosts : At(u, "erase") /\ Holding(v) = host[u].share => At(v, "enable"))'
    <3>1. (\A u \in Hosts : At(u, "erase") <=> mapHolder = u)'
      BY <1>2, <1>3, <1>4, <2>1, <2>2 DEF At
    <3>2. (\A u, v \in Hosts : Holding(u) # 0 /\ Holding(u) = Holding(v) => u = v)'
      BY <2>1, <2>2 DEF ShareInv
    <3>3. (\A u, v \in Hosts : At(u, "erase") /\ Holding(v) = host[u].share => At(v, "enable"))'
      BY <1>1, <1>2, <1>4, <2>1, <2>2 DEF At
    <3> QED BY <3>1, <3>2, <3>3
  <2>5. \A u \in Hosts \ {t} : Holding(u) # 0 => Holding(u) \in Shares \ {s}
    BY <2>2 DEF BindingInv, BindingTypeOK, HostStates, Holding
  <2>6. (\A u \in Hosts : Holding(u) # 0 => share[Holding(u)].there)'
    BY <2>1, <2>2, <2>3, <2>5 DEF ShareInv
  <2>7. (\A u \in Hosts : Locked(u) =>
           share[Holding(u)].locking /\ locks[Holding(u)] # 0
           /\ share[Holding(u)].user = locks[Holding(u)])'
    BY <1>3, <2>1, <2>2, <2>3, <2>5 DEF ShareInv, Locked
  <2>8. ASSUME NEW x \in Shares PROVE Accounted(x)'
    <3>1. Accounted(x)
      BY <2>2 DEF ShareInv
    <3>2. (share[x].there => \E u \in Hosts : Holding(u) = x)'
      BY <1>1, <2>1, <2>3, <3>1 DEF Accounted
    <3>3. (locks[x] # 0 => \E u \in Hosts : \/ (Locked(u) /\ Holding(u) = x)
                                          \/ (At(u, "erase") /\ host[u].share = x))'
      BY <1>1, <1>2, <1>3, <1>4, <2>1, <2>2, <3>1 DEF Accounted, At
    <3>4. (share[x].users = IF InUse(x) THEN 1 ELSE 0)'
      BY <1>1, <1>3, <2>3, <3>1 DEF Accounted, InUse, native
    <3> QED BY <3>2, <3>3, <3>4 DEF Accounted
  <2> QED BY <2>4, <2>6, <2>7, <2>8 DEF ShareInv
<1>10. KeptInv' /\ DelegatesKept'
  BY <1>1, <1>2, <1>3, <1>4, KeptFrame DEF native
<1> QED BY <1>5, <1>6, <1>7, <1>8, <1>9, <1>10 DEF BindingInv

LEMMA EraseKeeps ==
    ASSUME BindingInv, NEW t \in Hosts, Erase(t)
    PROVE  BindingInv'
<1> DEFINE s == host[t].share
           step == IF host[t].mgr = 0 THEN "idle" ELSE "drop"
           r == [host[t] EXCEPT !.at = step, !.share = 0]
<1>1. /\ host[t] \in HostStates /\ host[t].at = "erase" /\ host[t].in
      /\ s \in Shares /\ s # 0 /\ Holding(t) = 0
  <2>1. host[t] \in HostStates /\ host[t].at = "erase" /\ Fits(host[t])
    BY DEF Erase, At, BindingInv, BindingTypeOK, StepInv
  <2> QED BY <2>1 DEF Fits, Outside, HostStates, Holding, At
<1>2. /\ r \in HostStates /\ r.in /\ r.set = host[t].set /\ r.mgr = host[t].mgr
      /\ r.share = 0 /\ r.at = step /\ r.at \in {"idle", "drop"}
      /\ (r.at = "drop" => r.mgr # 0) /\ (r.mgr # 0 => r.at = "drop")
  BY <1>1 DEF HostStates, Steps
<1>3. /\ Becomes(t, r) /\ mapHolder' = Nobody /\ locks' = [locks EXCEPT ![s] = 0]
      /\ UNCHANGED <<globals, share, lockSets, native, kept, counts>>
  BY DEF Erase, ShareErase, Freed
<1> HIDE DEF r, step
<1>4. Moves(t) /\ host'[t] = r
  BY <1>2, <1>3, HostMoves DEF BindingInv
<1>5. BindingTypeOK'
  BY <1>3, <1>4 DEF BindingInv, BindingTypeOK, globals, native, counts, Moves
<1>6. StepInv'
  <2>1. Fits(host[t])'
    BY <1>2, <1>4 DEF Fits
  <2> QED BY <1>3, <1>4, <2>1, StepFrame DEF BindingInv, native
<1>7. PoolInv' /\ PoolSafe'
  BY <1>1, <1>2, <1>3, <1>4, PoolFrame
<1>8. OwnInv'
  <2>1. \A a \in Addresses : Owns(t, a)' <=> Owns(t, a)
    BY <1>1, <1>2, <1>4 DEF Owns, At
  <2> QED BY <1>1, <1>2, <1>3, <1>4, <2>1, OwnFrame DEF native
<1>9. ShareInv'
  <2>1. /\ Holding(t)' = 0 /\ ~Locked(t)' /\ ~Locked(t)
        /\ \A u \in Hosts \ {t} :
              /\ Holding(u)' = Holding(u) /\ (Locked(u)' <=> Locked(u)) /\ host'[u] = host[u]
    BY <1>1, <1>2, <1>3, <1>4 DEF Holding, Locked, At, Moves, native
  <2>2. /\ ShareInv /\ mapHolder = t /\ (\A u \in Hosts \ {t} : host[u].at # "erase")
        /\ \A u \in Hosts \ {t} : Holding(u) = s => host[u].at = "enable"
    BY <1>1 DEF BindingInv, ShareInv, At
  <2>3. \A u \in Hosts \ {t} : Locked(u) => Holding(u) # s
    <3>1. \A u \in Hosts : host[u].at = "enable" => host[u].mgr = 0
      BY DEF BindingInv, StepInv, Fits
    <3> QED BY <2>2, <3>1 DEF Locked, At
  <2>4. locks'[s] = 0 /\ \A x \in Shares \ {s} : locks'[x] = locks[x]
    BY <1>1, <1>3 DEF BindingInv, BindingTypeOK
  <2>5. (/\ \A u \in Hosts : At(u, "erase") <=> mapHolder = u
         /\ \A u, v \in Hosts : Holding(u) # 0 /\ Holding(u) = Holding(v) => u = v
         /\ \A u, v \in Hosts : At(u, "erase") /\ Holding(v) = host[u].share => At(v, "enable"))'
    <3>1. \A u \in Hosts : host'[u].at # "erase"
      BY <1>2, <1>4, <2>1, <2>2
    <3>2. (\A u, v \in Hosts : Holding(u) # 0 /\ Holding(u) = Holding(v) => u = v)'
      BY <2>1, <2>2 DEF ShareInv
    <3> QED BY <1>3, <3>1, <3>2, BindingAssumption DEF At
  <2>6. (\A u \in Hosts : Holding(u) # 0 => share[Holding(u)].there)'
    BY <1>3, <2>1, <2>2 DEF ShareInv
  <2>7. (\A u \in Hosts : Locked(u) =>
           share[Holding(u)].locking /\ locks[Holding(u)] # 0
           /\ share[Holding(u)].user = locks[Holding(u)])'
    <3>1. \A u \in Hosts : Locked(u) => Holding(u) \in Shares
      BY DEF BindingInv, BindingTypeOK, HostStates, Holding, Locked
    <3> QED BY <1>3, <2>1, <2>2, <2>3, <2>4, <3>1 DEF ShareInv
  <2>8. ASSUME NEW x \in Shares PROVE Accounted(x)'
    <3>1. Accounted(x)
      BY <2>2 DEF ShareInv
    <3>2. (share[x].there => \E u \in Hosts : Holding(u) = x)'
      BY <1>1, <1>3, <2>1, <3>1, CurlwAssumption DEF Accounted
    <3>3. (locks[x] # 0 => \E u \in Hosts : \/ (Locked(u) /\ Holding(u) = x)
                                          \/ (At(u, "erase") /\ host[u].share = x))'
      BY <1>1, <2>1, <2>2, <2>4, <3>1 DEF Accounted, At
    <3>4. (share[x].users = IF InUse(x) THEN 1 ELSE 0)'
      BY <1>3, <3>1 DEF Accounted, InUse, native
    <3> QED BY <3>2, <3>3, <3>4 DEF Accounted
  <2> QED BY <2>5, <2>6, <2>7, <2>8 DEF ShareInv
<1>10. KeptInv' /\ DelegatesKept'
  BY <1>1, <1>2, <1>3, <1>4, KeptFrame DEF native
<1> QED BY <1>5, <1>6, <1>7, <1>8, <1>9, <1>10 DEF BindingInv

\* The manager is freed with the last of its threads gone; what was kept for it is not
\* dropped yet.
LEMMA DropKeeps ==
    ASSUME BindingInv, NEW t \in Hosts, Drop(t)
    PROVE  BindingInv'
<1> DEFINE m == host[t].mgr
           r == [host[t] EXCEPT !.at = "remove"]
<1>1. /\ host[t] \in HostStates /\ host[t].at = "drop" /\ host[t].in
      /\ m \in Addresses /\ m # 0 /\ host[t].share = 0 /\ Owns(t, m)
  <2>1. host[t] \in HostStates /\ host[t].at = "drop" /\ Fits(host[t])
    BY DEF Drop, At, BindingInv, BindingTypeOK, StepInv
  <2> QED BY <2>1 DEF Fits, Outside, HostStates, Owns, At
<1>2. /\ r \in HostStates /\ r.in /\ r.set = host[t].set /\ r.mgr = m
      /\ r.share = 0 /\ r.at = "remove"
  BY <1>1 DEF HostStates, Steps
<1>3. /\ Becomes(t, r) /\ manager' = [manager EXCEPT ![m] = NoManager]
      /\ overtaken' = overtaken \ {m}
      /\ UNCHANGED <<curlwVars, reporter, worker, kept, counts>>
  BY DEF Drop, Goto
<1> HIDE DEF r
<1>4. Moves(t) /\ host'[t] = r
  BY <1>2, <1>3, HostMoves DEF BindingInv
<1>5. /\ manager' \in [Addresses -> [there : BOOLEAN, share : Shares \cup {0}, slot : Nat]]
      /\ manager'[m] = NoManager /\ \A a \in Addresses \ {m} : manager'[a] = manager[a]
  BY <1>1, <1>3 DEF BindingInv, BindingTypeOK, NoManager
<1>6. /\ OwnInv /\ reporter[m] = NoThread /\ worker[m] = NoWorker
      /\ \A u \in Hosts \ {t} : ~Owns(u, m)
  BY <1>1 DEF BindingInv, OwnInv
<1>7. BindingTypeOK'
  <2>1. overtaken' \subseteq Addresses
    BY <1>3 DEF BindingInv, BindingTypeOK
  <2> QED BY <1>3, <1>4, <1>5, <2>1
          DEF BindingInv, BindingTypeOK, curlwVars, globals, shares, counts, Moves
<1>8. \A u \in Hosts \ {t} : host[u].mgr = m => host[u].at = "remove"
  BY <1>6 DEF Owns, At
<1>9. \A u \in Hosts \ {t} : host[u].mgr # 0 /\ host[u].at # "remove" =>
          manager'[host[u].mgr] = manager[host[u].mgr]
  BY <1>5, <1>8 DEF BindingInv, BindingTypeOK, HostStates
<1>10. StepInv'
  <2>1. Fits(host[t])'
    BY <1>1, <1>2, <1>4 DEF Fits
  <2>2. \A u \in Hosts : host[u].share # 0 => host[u].at # "remove"
    BY DEF BindingInv, StepInv, Fits
  <2> QED BY <1>4, <1>9, <2>1, <2>2, StepFrame DEF BindingInv
<1>11. PoolInv' /\ PoolSafe'
  BY <1>1, <1>2, <1>3, <1>4, PoolFrame DEF curlwVars
<1>12. OwnInv'
  <2>1. \A u \in Hosts, a \in Addresses : Owns(u, a)' <=> Owns(u, a) /\ a # m
    BY <1>1, <1>2, <1>4, <1>6 DEF Owns, At, Moves
  <2>2. (\A u, v \in Hosts, a \in Addresses : Owns(u, a) /\ Owns(v, a) => u = v)'
    BY <1>6, <2>1 DEF OwnInv
  <2>3. ASSUME NEW a \in Addresses PROVE Manned(a)'
    <3>1. CASE a = m
      BY <1>3, <1>5, <1>6, <3>1 DEF Manned, NoManager, NoWorker
    <3>2. CASE a # m
      BY <1>3, <1>5, <1>6, <2>1, <3>2 DEF OwnInv, Manned, NoThread, NoWorker, NoManager
    <3> QED BY <3>1, <3>2
  <2>4. ASSUME NEW u \in Hosts, NEW a \in Addresses, Owns(u, a)'
        PROVE  (/\ manager[a].there
                /\ host[u].at \in {"cleanup", "erase", "drop"} =>
                      reporter[a] = NoThread /\ worker[a] = NoWorker)'
    <3>1. u # t /\ a # m
      BY <1>1, <2>1, <2>4 DEF Owns
    <3> QED BY <1>3, <1>4, <1>5, <1>6, <2>1, <2>4, <3>1 DEF OwnInv, Moves, NoThread, NoWorker
  <2> QED BY <2>2, <2>3, <2>4 DEF OwnInv
<1>13. ShareInv'
  <2>1. Holding(t)' = 0 /\ Holding(t) = 0
    BY <1>1, <1>2, <1>4 DEF Holding, At
  <2>2. ASSUME NEW u \in Hosts \ {t}
        PROVE  Holding(u)' = Holding(u) /\ (Locked(u)' <=> Locked(u)) /\ host'[u] = host[u]
    BY <1>4, <1>9 DEF Holding, Locked, At, Moves
  <2>3. SameHolding
    BY <1>1, <1>2, <1>4, <2>1, <2>2 DEF SameHolding, Locked
  <2> QED BY <1>3, <2>3, ShareFrame DEF curlwVars, shares, InUse
<1>14. KeptInv' /\ DelegatesKept'
  <2>1. \A a \in Addresses : Removing(a)' = IF a = m THEN Removing(a) \cup {t} ELSE Removing(a)
    BY <1>1, <1>2, <1>4 DEF Removing, At, Moves
  <2>2. ASSUME NEW u \in Hosts, host'[u].at = "set", host'[u].mgr \notin overtaken'
        PROVE  host'[u].cb \in kept'[host'[u].mgr]
    <3>1. u # t /\ host'[u] = host[u]
      BY <1>2, <1>4, <2>2 DEF Moves
    <3>2. host[u].mgr # m
      BY <1>8, <2>2, <3>1
    <3> QED BY <1>3, <2>2, <3>1, <3>2 DEF BindingInv, KeptInv, At
  <2>3. KeptInv'
    BY <1>3, <1>5, <2>1, <2>2 DEF BindingInv, KeptInv, At, NoManager
  <2>4. ASSUME NEW a \in Addresses
        PROVE  (/\ a \notin overtaken => {manager[a].slot, reporter[a].cb} \ {0} \subseteq kept[a]
                /\ ~manager[a].there /\ Removing(a) = {} => kept[a] = {})'
    <3>1. CASE a = m
      BY <1>3, <1>5, <1>6, <2>1, <3>1 DEF NoManager, NoThread
    <3>2. CASE a # m
      BY <1>3, <1>5, <2>1, <3>2 DEF BindingInv, DelegatesKept
    <3> QED BY <3>1, <3>2
  <2> QED BY <2>3, <2>4 DEF DelegatesKept
<1> QED BY <1>7, <1>10, <1>11, <1>12, <1>13, <1>14 DEF BindingInv

LEMMA RemoveKeeps ==
    ASSUME BindingInv, NEW t \in Hosts, Remove(t)
    PROVE  BindingInv'
<1> DEFINE m == host[t].mgr
           r == [host[t] EXCEPT !.at = "idle", !.mgr = 0]
<1>1. /\ host[t] \in HostStates /\ host[t].at = "remove" /\ host[t].in
      /\ m \in Addresses /\ host[t].share = 0 /\ t \in Removing(m)
  <2>1. host[t] \in HostStates /\ host[t].at = "remove" /\ Fits(host[t])
    BY DEF Remove, At, BindingInv, BindingTypeOK, StepInv
  <2> QED BY <2>1 DEF Fits, Outside, HostStates, Removing, At
<1>2. /\ r \in HostStates /\ r.in /\ r.set = host[t].set /\ r.mgr = 0
      /\ r.share = 0 /\ r.at = "idle"
  BY <1>1 DEF HostStates, Steps
<1>3. /\ Becomes(t, r) /\ kept' = [kept EXCEPT ![m] = {}]
      /\ UNCHANGED <<curlwVars, native, counts>>
  BY DEF Remove
<1> HIDE DEF r
<1>4. Moves(t) /\ host'[t] = r
  BY <1>2, <1>3, HostMoves DEF BindingInv
<1>5. /\ kept' \in [Addresses -> SUBSET Nat] /\ kept'[m] = {}
      /\ \A a \in Addresses \ {m} : kept'[a] = kept[a]
  BY <1>1, <1>3 DEF BindingInv, BindingTypeOK
<1>6. BindingTypeOK'
  BY <1>3, <1>4, <1>5 DEF BindingInv, BindingTypeOK, curlwVars, globals, shares, native, counts, Moves
<1>7. StepInv'
  <2>1. Fits(host[t])'
    BY <1>2, <1>4 DEF Fits
  <2> QED BY <1>3, <1>4, <2>1, StepFrame DEF BindingInv, native
<1>8. PoolInv' /\ PoolSafe'
  BY <1>1, <1>2, <1>3, <1>4, PoolFrame DEF curlwVars
<1>9. OwnInv'
  <2>1. \A a \in Addresses : Owns(t, a)' <=> Owns(t, a)
    BY <1>1, <1>2, <1>4, BindingAssumption DEF Owns, At
  <2> QED BY <1>2, <1>3, <1>4, <2>1, OwnFrame DEF native
<1>10. ShareInv'
  <2>1. SameHolding
    BY <1>1, <1>2, <1>3, <1>4 DEF SameHolding, Holding, Locked, At, Moves, native
  <2> QED BY <1>3, <2>1, ShareFrame DEF curlwVars, shares, native, InUse
<1>11. UNCHANGED <<manager, reporter, overtaken>>
  BY <1>3 DEF native
<1>12. manager[m].there => m \in overtaken
  BY <1>1 DEF BindingInv, KeptInv
<1>13. \A a \in Addresses : Removing(a)' \subseteq Removing(a)
                          /\ (a # m => Removing(a)' = Removing(a))
  BY <1>1, <1>2, <1>4 DEF Removing, At, Moves
<1>14. KeptInv'
  <2>1. ASSUME NEW u \in Hosts, host'[u].at = "set", host'[u].mgr \notin overtaken
        PROVE  host'[u].cb \in kept'[host'[u].mgr]
    <3>1. u # t /\ host'[u] = host[u]
      BY <1>2, <1>4, <2>1 DEF Moves
    <3>2. host[u].mgr \in Addresses /\ manager[host[u].mgr].there
      BY <2>1, <3>1 DEF BindingInv, BindingTypeOK, HostStates, StepInv, Fits, OwnInv, Owns, At
    <3>3. host[u].mgr # m
      BY <1>12, <2>1, <3>1, <3>2
    <3> QED BY <1>5, <2>1, <3>1, <3>2, <3>3 DEF BindingInv, KeptInv, At
  <2> QED BY <1>11, <1>13, <2>1 DEF BindingInv, KeptInv, At
<1>15. DelegatesKept'
  <2>1. ASSUME NEW a \in Addresses
        PROVE  (/\ a \notin overtaken => {manager[a].slot, reporter[a].cb} \ {0} \subseteq kept[a]
                /\ ~manager[a].there /\ Removing(a) = {} => kept[a] = {})'
    <3>1. CASE a = m
      <4>1. ~manager[m].there => manager[m].slot = 0 /\ reporter[m].cb = 0
        BY <1>1 DEF BindingInv, OwnInv, Manned, NoManager, NoThread
      <4> QED BY <1>5, <1>11, <1>12, <3>1, <4>1
    <3>2. CASE a # m
      BY <1>5, <1>11, <1>13, <3>2 DEF BindingInv, DelegatesKept
    <3> QED BY <3>1, <3>2
  <2> QED BY <2>1 DEF DelegatesKept
<1> QED BY <1>6, <1>7, <1>8, <1>9, <1>10, <1>14, <1>15 DEF BindingInv

-----------------------------------------------------------------------------
(***************************************************************************)
(* The manager's threads.                                                  *)
(***************************************************************************)
\* A worker that stays there with its share, and the other workers as they were.
LEMMA WorkerOwn ==
    ASSUME BindingInv, NEW a \in Addresses, UNCHANGED <<host, manager, reporter>>,
           worker[a].at # "none",
           \A b \in Addresses \ {a} : worker'[b] = worker[b],
           \/ worker'[a].at # "none" /\ worker'[a].share = worker[a].share
           \/ worker'[a] = NoWorker
    PROVE  OwnInv'
<1>1. OwnInv
  BY DEF BindingInv
<1>2. \A t \in Hosts, b \in Addresses : Owns(t, b)' <=> Owns(t, b)
  BY DEF Owns, At
<1>3. (\A t, u \in Hosts, b \in Addresses : Owns(t, b) /\ Owns(u, b) => t = u)'
  BY <1>1, <1>2 DEF OwnInv
<1>4. manager[a].there /\ worker[a].share = manager[a].share /\ reporter[a].at # "none"
      /\ worker[a] # NoWorker
  BY <1>1 DEF OwnInv, Manned, NoWorker
<1>5. ASSUME NEW b \in Addresses PROVE Manned(b)'
  <2>1. CASE b = a
    BY <1>1, <1>2, <1>4, <2>1 DEF OwnInv, Manned, NoWorker
  <2>2. CASE b # a
    BY <1>1, <1>2, <2>2 DEF OwnInv, Manned, NoManager, NoThread, NoWorker
  <2> QED BY <2>1, <2>2
<1>6. ASSUME NEW t \in Hosts, NEW b \in Addresses, Owns(t, b)'
      PROVE  (/\ manager[b].there
              /\ host[t].at \in {"cleanup", "erase", "drop"} =>
                    reporter[b] = NoThread /\ worker[b] = NoWorker)'
  BY <1>1, <1>2, <1>4, <1>6 DEF OwnInv, NoThread, NoWorker
<1> QED BY <1>3, <1>5, <1>6 DEF OwnInv

\* The handles that use a share are counted.
LEMMA HandleShare ==
    ASSUME BindingInv, UNCHANGED <<locks, mapHolder>>, SameHolding,
           \A x \in Shares :
              /\ share'[x].there = share[x].there /\ share'[x].locking = share[x].locking
              /\ share'[x].user = share[x].user
              /\ share'[x].users = IF InUse(x)' THEN 1 ELSE 0
    PROVE  ShareInv'
<1>1. ShareInv /\ \A t \in Hosts : Holding(t) # 0 => Holding(t) \in Shares
  BY DEF BindingInv, BindingTypeOK, HostStates, Holding
<1>2. (/\ \A t \in Hosts : At(t, "erase") <=> mapHolder = t
       /\ \A t, u \in Hosts : Holding(t) # 0 /\ Holding(t) = Holding(u) => t = u
       /\ \A t, u \in Hosts : At(t, "erase") /\ Holding(u) = host[t].share => At(u, "enable"))'
  BY <1>1 DEF ShareInv, SameHolding, At
<1>3. (/\ \A t \in Hosts : Holding(t) # 0 => share[Holding(t)].there
       /\ \A t \in Hosts : Locked(t) =>
              share[Holding(t)].locking /\ locks[Holding(t)] # 0
              /\ share[Holding(t)].user = locks[Holding(t)])'
  BY <1>1 DEF ShareInv, SameHolding, Locked
<1>4. ASSUME NEW x \in Shares PROVE Accounted(x)'
  BY <1>1 DEF ShareInv, Accounted, SameHolding, At
<1> QED BY <1>2, <1>3, <1>4 DEF ShareInv

LEMMA ConfigureKeeps ==
    ASSUME BindingInv, NEW a \in Addresses, Configure(a)
    PROVE  BindingInv'
<1> DEFINE s == worker[a].share
<1>1. /\ worker[a].at = "new" /\ s \in Shares
      /\ UNCHANGED <<host, globals, locks, mapHolder, lockSets, manager, reporter, overtaken,
                     kept, counts>>
  BY WorkerHasHost DEF Configure, Attach, curlwVars, shares
<1>2. PICK step \in {"ready", "bare"} :
         /\ worker' = [worker EXCEPT ![a].at = step]
         /\ share' = IF step = "ready" THEN [share EXCEPT ![s].users = @ + 1] ELSE share
  BY DEF Configure, Attach, curlwVars, shares
<1>3. /\ worker \in [Addresses -> [at : {"none", "new", "ready", "bare"}, share : Shares \cup {0}]]
      /\ share \in [Shares -> [there : BOOLEAN, locking : BOOLEAN, user : Nat, users : Nat]]
  BY DEF BindingInv, BindingTypeOK
<1>4. worker'[a].at = step /\ worker'[a].share = s /\ \A b \in Addresses \ {a} : worker'[b] = worker[b]
  BY <1>2, <1>3
<1>5. BindingTypeOK'
  <2>1. /\ worker' \in [Addresses -> [at : {"none", "new", "ready", "bare"}, share : Shares \cup {0}]]
        /\ share' \in [Shares -> [there : BOOLEAN, locking : BOOLEAN, user : Nat, users : Nat]]
    BY <1>1, <1>2, <1>3
  <2> QED BY <1>1, <2>1 DEF BindingInv, BindingTypeOK, globals, counts
<1>6. /\ StepInv' /\ PoolInv' /\ PoolSafe' /\ SameHolding
      /\ \A b \in Addresses : Removing(b)' = Removing(b)
  BY <1>1, StillFrame
<1>7. OwnInv'
  BY <1>1, <1>4, WorkerOwn
<1>8. ShareInv'
  <2>1. ~InUse(s)
    BY <1>1, WorkersApart DEF InUse
  <2>2. \A x \in Shares : share[x].users = IF InUse(x) THEN 1 ELSE 0
    BY DEF BindingInv, ShareInv, Accounted
  <2>3. \A x \in Shares : InUse(x)' <=> InUse(x) \/ (x = s /\ step = "ready")
    BY <1>1, <1>4 DEF InUse
  <2>4. \A x \in Shares :
           /\ share'[x].there = share[x].there /\ share'[x].locking = share[x].locking
           /\ share'[x].user = share[x].user
           /\ share'[x].users = IF x = s /\ step = "ready" THEN share[x].users + 1 ELSE share[x].users
    BY <1>1, <1>2, <1>3
  <2>5. \A x \in Shares : share'[x].users = IF InUse(x)' THEN 1 ELSE 0
    BY <2>1, <2>2, <2>3, <2>4
  <2> QED BY <1>1, <1>6, <2>4, <2>5, HandleShare
<1>9. KeptInv' /\ DelegatesKept'
  BY <1>1, <1>6 DEF BindingInv, KeptInv, DelegatesKept, At
<1> QED BY <1>5, <1>6, <1>7, <1>8, <1>9 DEF BindingInv

LEMMA WorkerEndsKeeps ==
    ASSUME BindingInv, NEW a \in Addresses, WorkerEnds(a)
    PROVE  BindingInv'
<1> DEFINE s == worker[a].share
           was == worker[a].at
<1>1. /\ was \in {"ready", "bare"} /\ s \in Shares /\ worker' = [worker EXCEPT ![a] = NoWorker]
      /\ share' = IF was = "ready" THEN [share EXCEPT ![s].users = @ - 1] ELSE share
      /\ UNCHANGED <<host, globals, locks, mapHolder, lockSets, manager, reporter, overtaken,
                     kept, counts>>
  BY WorkerHasHost DEF WorkerEnds, Detach, curlwVars, shares
<1>2. /\ worker \in [Addresses -> [at : {"none", "new", "ready", "bare"}, share : Shares \cup {0}]]
      /\ share \in [Shares -> [there : BOOLEAN, locking : BOOLEAN, user : Nat, users : Nat]]
  BY DEF BindingInv, BindingTypeOK
<1>3. worker'[a] = NoWorker /\ \A b \in Addresses \ {a} : worker'[b] = worker[b]
  BY <1>1, <1>2
<1>4. /\ \A x \in Shares : share[x].users = IF InUse(x) THEN 1 ELSE 0
      /\ was = "ready" => InUse(s)
  BY DEF BindingInv, ShareInv, Accounted, InUse
<1>5. BindingTypeOK'
  <2>1. worker' \in [Addresses -> [at : {"none", "new", "ready", "bare"}, share : Shares \cup {0}]]
    BY <1>1, <1>2 DEF NoWorker
  <2>2. share' \in [Shares -> [there : BOOLEAN, locking : BOOLEAN, user : Nat, users : Nat]]
    <3>1. was = "ready" => share[s].users - 1 \in Nat
      BY <1>1, <1>4
    <3> QED BY <1>1, <1>2, <3>1
  <2> QED BY <1>1, <2>1, <2>2 DEF BindingInv, BindingTypeOK, globals, counts
<1>6. /\ StepInv' /\ PoolInv' /\ PoolSafe' /\ SameHolding
      /\ \A b \in Addresses : Removing(b)' = Removing(b)
  BY <1>1, StillFrame
<1>7. OwnInv'
  BY <1>1, <1>3, WorkerOwn
<1>8. ShareInv'
  <2>1. \A b \in Addresses \ {a} : worker[b].at = "ready" => worker[b].share # s
    BY <1>1, WorkersApart
  <2>2. \A x \in Shares : InUse(x)' <=> InUse(x) /\ ~(x = s /\ was = "ready")
    BY <1>1, <1>3, <2>1 DEF InUse, NoWorker
  <2>3. \A x \in Shares :
           /\ share'[x].there = share[x].there /\ share'[x].locking = share[x].locking
           /\ share'[x].user = share[x].user
           /\ share'[x].users = IF x = s /\ was = "ready" THEN share[x].users - 1 ELSE share[x].users
    BY <1>1, <1>2
  <2>4. \A x \in Shares : share'[x].users = IF InUse(x)' THEN 1 ELSE 0
    BY <1>4, <2>2, <2>3
  <2> QED BY <1>1, <1>6, <2>3, <2>4, HandleShare
<1>9. KeptInv' /\ DelegatesKept'
  BY <1>1, <1>6 DEF BindingInv, KeptInv, DelegatesKept, At
<1> QED BY <1>5, <1>6, <1>7, <1>8, <1>9 DEF BindingInv

\* The reporter reads the slot, or has called what it read.
LEMMA ReporterKeeps ==
    ASSUME BindingInv, NEW a \in Addresses, ReadSlot(a) \/ CallBack(a)
    PROVE  BindingInv'
<1>1. PICK r \in [at : {"none", "sleep", "call"}, cb : Nat] :
         /\ reporter' = [reporter EXCEPT ![a] = r] /\ r.at # "none"
         /\ r.cb \in {manager[a].slot, 0}
  <2>1. manager[a].slot \in Nat
    BY DEF BindingInv, BindingTypeOK
  <2> DEFINE read == [at |-> "call", cb |-> manager[a].slot]
             rest == [at |-> "sleep", cb |-> 0]
  <2>2. /\ read \in [at : {"none", "sleep", "call"}, cb : Nat]
        /\ read.at # "none" /\ read.cb = manager[a].slot
        /\ rest \in [at : {"none", "sleep", "call"}, cb : Nat]
        /\ rest.at # "none" /\ rest.cb = 0
    BY <2>1
  <2>3. reporter' = [reporter EXCEPT ![a] = read] \/ reporter' = [reporter EXCEPT ![a] = rest]
    BY DEF ReadSlot, CallBack
  <2> HIDE DEF read, rest
  <2> QED BY <2>2, <2>3
<1>2. /\ reporter[a].at # "none"
      /\ UNCHANGED <<curlwVars, host, manager, worker, overtaken, kept, counts>>
  BY DEF ReadSlot, CallBack
<1>3. /\ reporter' \in [Addresses -> [at : {"none", "sleep", "call"}, cb : Nat]]
      /\ reporter'[a] = r /\ \A b \in Addresses \ {a} : reporter'[b] = reporter[b]
  BY <1>1 DEF BindingInv, BindingTypeOK
<1>4. BindingTypeOK'
  BY <1>2, <1>3 DEF BindingInv, BindingTypeOK, curlwVars, globals, shares, counts
<1>5. /\ StepInv' /\ PoolInv' /\ PoolSafe' /\ SameHolding
      /\ \A t \in Hosts, b \in Addresses : Owns(t, b)' <=> Owns(t, b)
      /\ \A b \in Addresses : Removing(b)' = Removing(b)
  BY <1>2, StillFrame DEF curlwVars
<1>6. OwnInv'
  <2>1. OwnInv /\ reporter[a] # NoThread
    BY <1>2 DEF BindingInv, NoThread
  <2>2. (\A t, u \in Hosts, b \in Addresses : Owns(t, b) /\ Owns(u, b) => t = u)'
    BY <1>5, <2>1 DEF OwnInv
  <2>3. ASSUME NEW b \in Addresses PROVE Manned(b)'
    <3>1. CASE b = a
      BY <1>1, <1>2, <1>3, <1>5, <2>1, <3>1 DEF OwnInv, Manned, NoWorker
    <3>2. CASE b # a
      BY <1>2, <1>3, <1>5, <2>1, <3>2 DEF OwnInv, Manned, NoManager, NoThread, NoWorker
    <3> QED BY <3>1, <3>2
  <2>4. ASSUME NEW t \in Hosts, NEW b \in Addresses, Owns(t, b)'
        PROVE  (/\ manager[b].there
                /\ host[t].at \in {"cleanup", "erase", "drop"} =>
                      reporter[b] = NoThread /\ worker[b] = NoWorker)'
    BY <1>2, <1>3, <1>5, <2>1, <2>4 DEF OwnInv, NoThread, NoWorker
  <2> QED BY <2>2, <2>3, <2>4 DEF OwnInv
<1>7. ShareInv'
  BY <1>2, <1>5, ShareFrame DEF curlwVars, shares, InUse
<1>8. KeptInv'
  BY <1>2, <1>5 DEF BindingInv, KeptInv, At
<1>9. DelegatesKept'
  <2>1. \A b \in Addresses : reporter'[b].cb \in {reporter[b].cb, manager[b].slot, 0}
    BY <1>1, <1>3
  <2> QED BY <1>2, <1>5, <2>1 DEF BindingInv, DelegatesKept
<1> QED BY <1>4, <1>5, <1>6, <1>7, <1>8, <1>9 DEF BindingInv

-----------------------------------------------------------------------------
(***************************************************************************)
(* The theorems.                                                           *)
(***************************************************************************)
\* The process before the first session.
LEMMA InvInit == Init => BindingInv
<1> SUFFICES ASSUME Init PROVE BindingInv
  OBVIOUS
<1>1. BindingTypeOK
  <2>1. Outside \in HostStates
    BY DEF Outside, NoSet, HostStates, Steps
  <2>2. pool \in [it : Nat, made : Nat, sets : Nat, free : Seq(Nat \X Nat)]
    <3>1. <<>> \in Seq(Nat \X Nat)
      OBVIOUS
    <3> QED BY <3>1 DEF Init, CurlwInit
  <2> QED BY <2>1, <2>2 DEF Init, CurlwInit, BindingTypeOK, NoShare, NoManager, NoThread, NoWorker
<1>2. \A t \in Hosts : host[t] = Outside
  BY DEF Init
<1>3. Outside.at = "idle" /\ ~Outside.in /\ Outside.set = NoSet /\ Outside.mgr = 0 /\ Outside.share = 0
  BY DEF Outside
<1>4. StepInv
  BY <1>2, <1>3 DEF StepInv, Fits
<1>5. PoolInv /\ PoolSafe
  <2>1. Inside = {}
    BY <1>2, <1>3 DEF Inside
  <2>2. inits = 0 /\ curlInits = 0 /\ pool.it = 0 /\ pool.free = <<>>
    BY DEF Init, CurlwInit
  <2>3. inits = Cardinality({t \in Hosts : host[t].in})
    BY <2>1, <2>2, FS_EmptySet DEF Inside
  <2> QED BY <1>2, <1>3, <2>2, <2>3 DEF PoolInv, PoolSafe, SetSafe
<1>6. OwnInv
  BY <1>2, <1>3, BindingAssumption DEF Init, OwnInv, Owns, Manned, NoManager, NoThread, NoWorker
<1>7. ShareInv
  BY <1>2, <1>3, BindingAssumption
     DEF Init, CurlwInit, ShareInv, Accounted, InUse, Holding, Locked, At, NoShare, NoWorker
<1>8. KeptInv /\ DelegatesKept
  BY <1>2, <1>3 DEF Init, KeptInv, DelegatesKept, At, NoManager, NoThread
<1> QED BY <1>1, <1>4, <1>5, <1>6, <1>7, <1>8 DEF BindingInv

LEMMA InvNext == BindingInv /\ [Next]_vars => BindingInv'
<1> SUFFICES ASSUME BindingInv, [Next]_vars PROVE BindingInv'
  OBVIOUS
<1>1. ASSUME NEW t \in Hosts, Enter(t) \/ Leave(t) PROVE BindingInv'
  BY <1>1, EnterKeeps, LeaveKeeps
<1>2. ASSUME NEW t \in Hosts, LoadPool(t) \/ AllocFds(t) \/ FreeFds(t) PROVE BindingInv'
  BY <1>2, LoadPoolKeeps, AllocFdsKeeps, FreeFdsKeeps
<1>3. ASSUME NEW t \in Hosts, Create(t) \/ EnableDefaultLocks(t) \/ Make(t) \/ Start(t)
      PROVE  BindingInv'
  BY <1>3, CreateKeeps, EnableKeeps, MakeKeeps, StartKeeps
<1>4. ASSUME NEW t \in Hosts, SetCallback(t) \/ SetSlot(t) \/ ClearCallback(t) PROVE BindingInv'
  BY <1>4, SetCallbackKeeps, SetSlotKeeps, ClearCallbackKeeps
<1>5. ASSUME NEW t \in Hosts,
             Shutdown(t) \/ Join(t) \/ Cleanup(t) \/ Erase(t) \/ Drop(t) \/ Remove(t)
      PROVE  BindingInv'
  BY <1>5, ShutdownKeeps, JoinKeeps, CleanupKeeps, EraseKeeps, DropKeeps, RemoveKeeps
<1>6. ASSUME NEW a \in Addresses, ReadSlot(a) \/ CallBack(a) \/ Configure(a) \/ WorkerEnds(a)
      PROVE  BindingInv'
  BY <1>6, ReporterKeeps, ConfigureKeeps, WorkerEndsKeeps
<1>7. CASE UNCHANGED vars
  <2>1. /\ UNCHANGED <<inits, curlInits, pool, share, locks, mapHolder, lockSets, host>>
        /\ UNCHANGED <<manager, reporter, worker, overtaken, kept, delegates>>
    BY <1>7 DEF vars, curlwVars, globals, shares, native, counts
  <2>2. BindingTypeOK' /\ StepInv' /\ PoolInv' /\ PoolSafe'
    BY <2>1 DEF BindingInv, BindingTypeOK, StepInv, Fits, PoolInv, PoolSafe, SetSafe
  <2>3. OwnInv' /\ ShareInv'
    BY <2>1 DEF BindingInv, OwnInv, Owns, Manned, ShareInv, Accounted, InUse, Holding, Locked, At
  <2>4. KeptInv' /\ DelegatesKept'
    BY <2>1 DEF BindingInv, KeptInv, DelegatesKept, Removing, At
  <2> QED BY <2>2, <2>3, <2>4 DEF BindingInv
<1> QED BY <1>1, <1>2, <1>3, <1>4, <1>5, <1>6, <1>7 DEF Next

\* Every set, share, lock set, manager and thread has one owner, which is as far with
\* it as its step says (curlw/mod.rs:180, 952; dlmgr/mod.rs:412).
THEOREM BindingInvHolds == Spec => []BindingInv
BY InvInit, InvNext, PTL DEF Spec

\* No session sees the pool of another, and no set is two threads' (curlw/mod.rs:180,
\* platform.rs:144).
THEOREM PoolStaysSafe == Spec => []PoolSafe
<1>1. BindingInv => PoolSafe
  BY DEF BindingInv
<1> QED BY <1>1, BindingInvHolds, PTL

\* A share a manager or a handle uses is there and locks with its own lock set, however
\* addresses are handed out again (curlw/mod.rs:952).
THEOREM LocksAlwaysLive == Spec => []LocksLive
<1>1. BindingInv => LocksLive
  <2> SUFFICES ASSUME BindingInv PROVE LocksLive
    OBVIOUS
  <2>1. ASSUME NEW a \in Addresses, manager[a].there,
               ~\E t \in Hosts : host[t].mgr = a /\ host[t].at \in {"erase", "drop"}
        PROVE  LET s == manager[a].share IN
               share[s].there /\ share[s].locking /\ locks[s] # 0 /\ share[s].user = locks[s]
    <3>1. PICK t \in Hosts : Owns(t, a)
      BY <2>1 DEF BindingInv, OwnInv, Manned
    <3>2. /\ manager[a].share # 0 /\ host[t].mgr = a /\ a # 0
          /\ host[t].at \notin {"erase", "drop", "remove"}
      BY <2>1, <3>1, BindingAssumption DEF BindingInv, OwnInv, Manned, Owns, At
    <3>3. Holding(t) = manager[a].share /\ Locked(t)
      BY <3>2 DEF Holding, Locked, At
    <3> QED BY <3>2, <3>3 DEF BindingInv, ShareInv
  <2>2. \A a \in Addresses :
           worker[a].at = "ready" => manager[a].there /\ worker[a].share = manager[a].share
    BY WorkerHasHost
  <2>3. ASSUME NEW s \in Shares, share[s].there
        PROVE  \/ \E a \in Addresses : manager[a].there /\ manager[a].share = s
               \/ \E t \in Hosts : host[t].share = s
    <3>1. PICK t \in Hosts : Holding(t) = s
      BY <2>3 DEF BindingInv, ShareInv, Accounted
    <3>2. s # 0 /\ host[t].mgr \in Addresses \cup {0}
      BY CurlwAssumption DEF BindingInv, BindingTypeOK, HostStates
    <3>3. CASE host[t].mgr = 0
      BY <3>1, <3>2, <3>3 DEF Holding
    <3>4. CASE host[t].mgr # 0
      <4>1. manager[host[t].mgr].share = s
        BY <3>1, <3>2, <3>4 DEF Holding
      <4>2. manager[host[t].mgr].there
        BY <3>2, <3>4, <4>1 DEF BindingInv, OwnInv, Manned, NoManager
      <4> QED BY <3>2, <3>4, <4>1, <4>2
    <3> QED BY <3>3, <3>4
  <2> QED BY <2>1, <2>2, <2>3 DEF LocksLive
<1> QED BY <1>1, BindingInvHolds, PTL

\* No delegate is collected that native code may call, except after an entry was removed
\* late (DownloadManager.cs:196).
THEOREM DelegatesAlwaysKept == Spec => []DelegatesKept
<1>1. BindingInv => DelegatesKept
  BY DEF BindingInv
<1> QED BY <1>1, BindingInvHolds, PTL
=============================================================================
