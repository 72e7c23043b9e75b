--------------------------- MODULE VfsIndexProofs ---------------------------
(***************************************************************************)
(* Theorems about VfsIndex, for any names, any compactions and any handles *)
(* that fail to open.                                                      *)
(***************************************************************************)
EXTENDS VfsIndex, FiniteSetTheorems, TLAPS

-----------------------------------------------------------------------------
(***************************************************************************)
(* Counting.                                                               *)
(***************************************************************************)
LEMMA AtMostOne ==
    ASSUME NEW S, IsFiniteSet(S)
    PROVE  Cardinality(S) <= 1 <=> \A x, y \in S : x = y
<1>1. Cardinality(S) \in Nat
  BY FS_CardinalityType
<1>2. ASSUME Cardinality(S) <= 1, NEW x \in S, NEW y \in S
      PROVE  x = y
  <2>1. Cardinality(S) = 0 \/ Cardinality(S) = 1
    BY <1>1, <1>2
  <2>2. CASE Cardinality(S) = 0
    BY <1>2, <2>2, FS_EmptySet
  <2>3. CASE Cardinality(S) = 1
    <3>1. PICK z : S = {z}
      BY <2>3, FS_Singleton
    <3> QED BY <1>2, <3>1
  <2> QED BY <2>1, <2>2, <2>3
<1>3. ASSUME \A x, y \in S : x = y
      PROVE  Cardinality(S) <= 1
  <2>1. CASE S = {}
    BY <2>1, FS_EmptySet
  <2>2. CASE S # {}
    <3>1. PICK z \in S : TRUE
      BY <2>2
    <3>2. S = {z}
      BY <1>3, <3>1
    <3>3. Cardinality(S) = 1
      BY <3>2, FS_Singleton
    <3> QED BY <3>3
  <2> QED BY <2>1, <2>2
<1> QED BY <1>2, <1>3

\* The entries that are Downloading are counted as one comes, goes or none does.
LEMMA OneMore ==
    ASSUME NEW f \in Names, NEW S \in SUBSET Names, f \notin S
    PROVE  Cardinality(S \cup {f}) = Cardinality(S) + 1
<1>1. IsFiniteSet(S)
  BY IndexAssumption, FS_Subset
<1> QED BY <1>1, FS_AddElement

LEMMA OneLess ==
    ASSUME NEW f \in Names, NEW S \in SUBSET Names, f \in S
    PROVE  /\ Cardinality(S \ {f}) = Cardinality(S) - 1
           /\ Cardinality(S) \in Nat \ {0}
<1>1. IsFiniteSet(S)
  BY IndexAssumption, FS_Subset
<1>2. Cardinality(S) \in Nat
  BY <1>1, FS_CardinalityType
<1>3. Cardinality(S) # 0
  BY <1>1, FS_EmptySet
<1> QED BY <1>1, <1>2, <1>3, FS_RemoveElement

LEMMA NoneDownloading ==
    ASSUME TypeOK, WritersCounted, writers = 0
    PROVE  \A f \in Names : writer[f] = "none" /\ state[f] # "downloading"
<1>1. Downloading \in SUBSET Names
  BY DEF Downloading
<1>2. IsFiniteSet(Downloading)
  BY <1>1, IndexAssumption, FS_Subset
<1>3. Downloading = {}
  BY <1>2, FS_EmptySet DEF WritersCounted
<1>4. \A f \in Names : state[f] # "downloading"
  BY <1>3 DEF Downloading
<1> QED BY <1>4 DEF WritersCounted

-----------------------------------------------------------------------------
(***************************************************************************)
(* A compaction at work, without counting.                                 *)
(***************************************************************************)
AtWork == {"locked", "scan", "move", "finalize", "over"}

Alone ==
    /\ \A r, s \in Runs : run[r] \in AtWork /\ run[s] \in AtWork => r = s
    /\ compacting <=> \E r \in Runs : run[r] \in AtWork
    /\ compacting => \A f \in Names : writer[f] = "none"

LEMMA AloneIs == TypeOK => (CompactionAlone <=> Alone)
<1> SUFFICES ASSUME TypeOK PROVE CompactionAlone <=> Alone
  OBVIOUS
<1>1. Working = {r \in Runs : run[r] \in AtWork}
  BY DEF Working, AtWork
<1>2. IsFiniteSet(Working)
  BY <1>1, IndexAssumption, FS_Subset
<1>3. Cardinality(Working) <= 1 <=> \A r, s \in Working : r = s
  BY <1>2, AtMostOne
<1>4. Working # {} <=> \E r \in Runs : run[r] \in AtWork
  BY <1>1
<1> QED BY <1>1, <1>3, <1>4 DEF CompactionAlone, Alone

\* The index of a store that was just opened (mod.rs, Store::new).
LEMMA InvInit == Init => IndexInv
<1> SUFFICES ASSUME Init PROVE IndexInv
  OBVIOUS
<1>1. TypeOK
  BY DEF Init, TypeOK, States, Idle
<1>2. WritersCounted
  <2>1. Downloading = {}
    BY DEF Init, Downloading
  <2> QED BY <2>1, FS_EmptySet DEF Init, WritersCounted
<1>3. Alone
  BY DEF Init, Alone, AtWork
<1> QED BY <1>1, <1>2, <1>3, AloneIs DEF IndexInv

-----------------------------------------------------------------------------
(***************************************************************************)
(* The steps.  Those of writers move one name between Downloading and the  *)
(* rest; those of a compaction move it between being at work and not.      *)
(***************************************************************************)
LEMMA WriterComes ==
    ASSUME TypeOK, WritersCounted, NEW f \in Names, writer[f] = "none",
           NEW w \in {"opening", "open", "full"},
           Become(f, "downloading"), Writer(f, w), writers' = writers + 1
    PROVE  WritersCounted'
<1>1. Downloading \in SUBSET Names /\ f \notin Downloading
  BY DEF Downloading, WritersCounted
<1>2. Downloading' = Downloading \cup {f}
  BY DEF Downloading, Become, TypeOK
<1>3. Cardinality(Downloading') = Cardinality(Downloading) + 1
  BY <1>1, <1>2, OneMore
<1>4. \A g \in Names : writer'[g] # "none" <=> state'[g] = "downloading"
  BY DEF WritersCounted, Become, Writer, TypeOK
<1> QED BY <1>3, <1>4 DEF WritersCounted

LEMMA WriterGoes ==
    ASSUME TypeOK, WritersCounted, NEW f \in Names, writer[f] # "none",
           NEW st \in {"none", "active"}, Become(f, st), Writer(f, "none"),
           writers' \in {writers - 1, IF writers = 0 THEN 0 ELSE writers - 1}
    PROVE  WritersCounted' /\ writers' \in Nat
<1>1. Downloading \in SUBSET Names /\ f \in Downloading
  BY DEF Downloading, WritersCounted
<1>2. Downloading' = Downloading \ {f}
  BY DEF Downloading, Become, TypeOK
<1>3. /\ Cardinality(Downloading') = Cardinality(Downloading) - 1
      /\ Cardinality(Downloading) \in Nat \ {0}
  BY <1>1, <1>2, OneLess
<1>4. \A g \in Names : writer'[g] # "none" <=> state'[g] = "downloading"
  BY DEF WritersCounted, Become, Writer, TypeOK
<1>5. writers' = writers - 1 /\ writers \in Nat \ {0}
  BY <1>3 DEF WritersCounted
<1> QED BY <1>3, <1>4, <1>5 DEF WritersCounted

\* What neither begins nor ends a download leaves the count right.
LEMMA CountStays ==
    ASSUME WritersCounted, writers' = writers,
           \A g \in Names : /\ writer'[g] # "none" <=> writer[g] # "none"
                            /\ state'[g] = "downloading" <=> state[g] = "downloading"
    PROVE  WritersCounted'
<1>1. Downloading' = Downloading
  BY DEF Downloading
<1> QED BY <1>1 DEF WritersCounted

LEMMA CompactionStays ==
    ASSUME Alone, UNCHANGED <<run, compacting>>,
           \A f \in Names : compacting => writer'[f] = "none"
    PROVE  Alone'
BY DEF Alone

LEMMA AllocKeeps ==
    ASSUME IndexInv, Alone, NEW f \in Names, Alloc(f)
    PROVE  TypeOK' /\ WritersCounted' /\ Alone'
<1> USE DEF IndexInv
<1>1. writer[f] = "none"
  BY DEF Alloc, WritersCounted
<1>2. gen' \in Nat
  BY DEF Alloc, Bump, TypeOK
<1>3. CASE Become(f, "downloading") /\ Writer(f, "opening") /\ writers' = writers + 1
  <2>1. WritersCounted'
    BY <1>1, <1>3, WriterComes
  <2>2. TypeOK'
    BY <1>2, <1>3 DEF Alloc, TypeOK, Become, Writer, States, compactVars
  <2>3. Alone'
    BY <1>3, CompactionStays DEF Alloc, compactVars
  <2> QED BY <2>1, <2>2, <2>3
<1>4. CASE Become(f, "none") /\ UNCHANGED <<writer, writers>>
  <2>1. \A g \in Names : state'[g] = "downloading" <=> state[g] = "downloading"
    BY <1>4 DEF Alloc, Become, TypeOK
  <2>2. WritersCounted'
    BY <1>4, <2>1, CountStays
  <2>3. TypeOK'
    BY <1>2, <1>4 DEF Alloc, TypeOK, Become, States, compactVars
  <2>4. Alone'
    BY <1>4, CompactionStays DEF Alloc, compactVars
  <2> QED BY <2>2, <2>3, <2>4
<1> QED BY <1>3, <1>4 DEF Alloc

LEMMA HandleKeeps ==
    ASSUME IndexInv, Alone, NEW f \in Names, OpenHandle(f) \/ WriteAll(f)
    PROVE  TypeOK' /\ WritersCounted' /\ Alone'
<1> USE DEF IndexInv
<1>1. /\ writer[f] \in {"opening", "open"}
      /\ \E w \in {"open", "full"} : writer' = [writer EXCEPT ![f] = w]
      /\ UNCHANGED <<state, gen, writers, compactVars, query>>
  BY DEF OpenHandle, WriteAll, Writer
<1>2. TypeOK'
  BY <1>1 DEF TypeOK, compactVars
<1>3. WritersCounted'
  <2>1. \A g \in Names : writer'[g] # "none" <=> writer[g] # "none"
    BY <1>1 DEF TypeOK
  <2> QED BY <1>1, <2>1, CountStays
<1>4. Alone'
  <2>1. ~compacting
    BY <1>1 DEF Alone
  <2> QED BY <1>1, <2>1, CompactionStays DEF compactVars
<1> QED BY <1>2, <1>3, <1>4

LEMMA EndKeeps ==
    ASSUME IndexInv, Alone, NEW f \in Names, OpenFailed(f) \/ Committed(f) \/ Aborted(f)
    PROVE  TypeOK' /\ WritersCounted' /\ Alone'
<1> USE DEF IndexInv
<1>1. /\ writer[f] # "none"
      /\ \E st \in {"none", "active"} : Become(f, st)
      /\ Writer(f, "none")
      /\ writers' \in {writers - 1, IF writers = 0 THEN 0 ELSE writers - 1}
      /\ gen' \in Nat
      /\ UNCHANGED <<compactVars, query>>
  BY DEF OpenFailed, Committed, Aborted, Bump, TypeOK
<1>2. WritersCounted' /\ writers' \in Nat
  BY <1>1, WriterGoes
<1>3. TypeOK'
  BY <1>1, <1>2 DEF TypeOK, Become, Writer, States, compactVars
<1>4. Alone'
  BY <1>1, CompactionStays DEF compactVars, Writer, TypeOK, Alone
<1> QED BY <1>2, <1>3, <1>4

LEMMA DeleteKeeps ==
    ASSUME IndexInv, Alone, NEW f \in Names, Delete(f)
    PROVE  TypeOK' /\ WritersCounted' /\ Alone'
<1> USE DEF IndexInv, Delete
<1>1. TypeOK'
  BY DEF TypeOK, Become, Bump, States, compactVars
<1>2. WritersCounted'
  <2>1. \A g \in Names : state'[g] = "downloading" <=> state[g] = "downloading"
    BY DEF Become, TypeOK
  <2> QED BY <2>1, CountStays
<1>3. Alone'
  BY CompactionStays DEF compactVars
<1> QED BY <1>1, <1>2, <1>3

LEMMA CallKeeps ==
    ASSUME IndexInv, Alone, NEW r \in Runs, CompactCall(r)
    PROVE  TypeOK' /\ WritersCounted' /\ Alone'
<1> USE DEF IndexInv, CompactCall, At
<1>1. TypeOK'
  BY DEF TypeOK
<1>2. WritersCounted'
  BY CountStays
<1>3. \A f \in Names : writer[f] = "none"
  BY NoneDownloading
<1>4. \A s \in Runs : run[s] \notin AtWork
  BY DEF Alone
<1>5. \A s \in Runs : run'[s] \in AtWork <=> s = r
  BY <1>4 DEF AtWork, TypeOK
<1>6. Alone'
  BY <1>3, <1>5 DEF Alone
<1> QED BY <1>1, <1>2, <1>6

\* A step that stays at work, and one that unlocks.
LEMMA WorkStays ==
    ASSUME TypeOK, Alone, NEW r \in Runs, run[r] \in AtWork,
           NEW step \in AtWork, run' = [run EXCEPT ![r] = step],
           UNCHANGED <<compacting, writer>>
    PROVE  Alone'
<1>1. \A s \in Runs : run'[s] \in AtWork <=> run[s] \in AtWork
  BY DEF TypeOK
<1> QED BY <1>1 DEF Alone

LEMMA WorkEnds ==
    ASSUME TypeOK, Alone, NEW r \in Runs, run[r] \in AtWork,
           NEW step, step \notin AtWork, run' = [run EXCEPT ![r] = step],
           compacting' = FALSE
    PROVE  Alone'
<1>1. \A s \in Runs : run'[s] \notin AtWork
  BY DEF Alone, TypeOK
<1> QED BY <1>1 DEF Alone

LEMMA StartKeeps ==
    ASSUME IndexInv, Alone, NEW r \in Runs, CompactStart(r)
    PROVE  TypeOK' /\ WritersCounted' /\ Alone'
<1> USE DEF IndexInv, CompactStart, At
<1>1. TypeOK'
  BY DEF TypeOK
<1>2. WritersCounted'
  BY CountStays
<1>3. Alone'
  <2> USE DEF AtWork
  <2>1. CASE At(r, "locked", "scan") /\ UNCHANGED compacting
    BY <2>1, WorkStays
  <2>2. CASE At(r, "locked", "ended") /\ compacting' = FALSE
    BY <2>2, WorkEnds
  <2> QED BY <2>1, <2>2
<1> QED BY <1>1, <1>2, <1>3

\* While a compaction is at work nothing is Downloading.
LEMMA RoundKeeps ==
    ASSUME IndexInv, Alone, NEW r \in Runs, Scan(r) \/ Move(r) \/ Finalize(r)
    PROVE  TypeOK' /\ WritersCounted' /\ Alone'
<1> USE DEF IndexInv
<1>1. /\ run[r] \in AtWork
      /\ \E step \in AtWork : run' = [run EXCEPT ![r] = step]
      /\ UNCHANGED <<writers, writer, compacting, dones, query>>
  BY DEF Scan, Move, Finalize, At, AtWork
<1>2. Alone'
  BY <1>1, WorkStays
<1>3. \A f \in Names : writer[f] = "none" /\ state[f] # "downloading"
  BY <1>1 DEF Alone, WritersCounted
<1>4. state' \in [Names -> States] /\ \A f \in Names : state'[f] # "downloading"
  BY <1>3 DEF Scan, Move, Finalize, TypeOK, States
<1>5. WritersCounted'
  BY <1>1, <1>3, <1>4, CountStays
<1>6. gen' \in Nat /\ status' \in {"idle", "scan", "move", "finalize"}
  BY DEF Scan, Move, Finalize, Bump, TypeOK
<1>7. TypeOK'
  BY <1>1, <1>4, <1>6 DEF TypeOK, AtWork
<1> QED BY <1>2, <1>5, <1>7

LEMMA OverKeeps ==
    ASSUME IndexInv, Alone, NEW r \in Runs, Unlock(r) \/ ShowIdle(r) \/ CallDone(r)
    PROVE  TypeOK' /\ WritersCounted' /\ Alone'
<1> USE DEF IndexInv
<1>1. TypeOK'
  <2>1. CASE Unlock(r)
    BY <2>1 DEF Unlock, At, TypeOK
  <2>2. CASE ShowIdle(r)
    BY <2>2 DEF ShowIdle, At, TypeOK
  <2>3. CASE CallDone(r)
    <3>1. dones' \in [Runs -> Nat]
      BY <2>3 DEF CallDone, TypeOK
    <3> QED BY <2>3, <3>1 DEF CallDone, At, TypeOK
  <2> QED BY <2>1, <2>2, <2>3
<1>2. WritersCounted'
  BY CountStays DEF Unlock, ShowIdle, CallDone
<1>3. CASE Unlock(r)
  BY <1>1, <1>2, <1>3, WorkEnds DEF Unlock, At, AtWork
<1>4. CASE ShowIdle(r) \/ CallDone(r)
  <2>1. \A s \in Runs : run'[s] \in AtWork <=> run[s] \in AtWork
    BY <1>4 DEF ShowIdle, CallDone, At, AtWork, TypeOK
  <2>2. UNCHANGED <<compacting, writer>>
    BY <1>4 DEF ShowIdle, CallDone
  <2> QED BY <1>1, <1>2, <2>1, <2>2 DEF Alone
<1> QED BY <1>3, <1>4

LEMMA ClientKeeps ==
    ASSUME IndexInv, Alone, Query \/ Check \/ Read
    PROVE  TypeOK' /\ WritersCounted' /\ Alone'
<1> USE DEF IndexInv
<1>1. UNCHANGED <<state, gen, writers, writer, compactVars>>
  BY DEF Query, Check, Read
<1>2. query' \in [step : {"idle", "asked", "checked", "read"}, gen : Nat,
                 asked : SUBSET Names, got : [Names -> States]]
  <2>1. Idle \in [step : {"idle", "asked", "checked", "read"}, gen : Nat,
                 asked : SUBSET Names, got : [Names -> States]]
    BY DEF Idle, States
  <2>2. Present(state) \in SUBSET Names /\ Idle.got \in [Names -> States]
    BY DEF Present, Idle, States
  <2>3. CASE Query
    BY <2>2, <2>3 DEF Query, TypeOK
  <2>4. CASE Check
    BY <2>1, <2>4 DEF Check, TypeOK
  <2>5. CASE Read
    BY <2>1, <2>5 DEF Read, TypeOK
  <2> QED BY <2>3, <2>4, <2>5
<1>3. TypeOK'
  BY <1>1, <1>2 DEF TypeOK, compactVars
<1>4. WritersCounted'
  BY <1>1, CountStays
<1>5. Alone'
  BY <1>1 DEF Alone, compactVars
<1> QED BY <1>3, <1>4, <1>5

LEMMA InvNext == IndexInv /\ [Next]_vars => IndexInv'
<1> SUFFICES ASSUME IndexInv, [Next]_vars PROVE IndexInv'
  OBVIOUS
<1>1. Alone
  BY AloneIs DEF IndexInv
<1>2. TypeOK' /\ WritersCounted' /\ Alone'
  <2>1. CASE UNCHANGED vars
    <3>1. TypeOK' /\ Alone'
      BY <1>1, <2>1 DEF IndexInv, TypeOK, Alone, vars
    <3>2. WritersCounted'
      BY <2>1, CountStays DEF IndexInv, vars
    <3> QED BY <3>1, <3>2
  <2>2. ASSUME NEW f \in Names, Alloc(f) PROVE TypeOK' /\ WritersCounted' /\ Alone'
    BY <1>1, <2>2, AllocKeeps
  <2>3. ASSUME NEW f \in Names, OpenHandle(f) \/ WriteAll(f)
        PROVE  TypeOK' /\ WritersCounted' /\ Alone'
    BY <1>1, <2>3, HandleKeeps
  <2>4. ASSUME NEW f \in Names, OpenFailed(f) \/ Committed(f) \/ Aborted(f)
        PROVE  TypeOK' /\ WritersCounted' /\ Alone'
    BY <1>1, <2>4, EndKeeps
  <2>5. ASSUME NEW f \in Names, Delete(f) PROVE TypeOK' /\ WritersCounted' /\ Alone'
    BY <1>1, <2>5, DeleteKeeps
  <2>6. ASSUME NEW r \in Runs, CompactCall(r) PROVE TypeOK' /\ WritersCounted' /\ Alone'
    BY <1>1, <2>6, CallKeeps
  <2>7. ASSUME NEW r \in Runs, CompactStart(r) PROVE TypeOK' /\ WritersCounted' /\ Alone'
    BY <1>1, <2>7, StartKeeps
  <2>8. ASSUME NEW r \in Runs, Scan(r) \/ Move(r) \/ Finalize(r)
        PROVE  TypeOK' /\ WritersCounted' /\ Alone'
    BY <1>1, <2>8, RoundKeeps
  <2>9. ASSUME NEW r \in Runs, Unlock(r) \/ ShowIdle(r) \/ CallDone(r)
        PROVE  TypeOK' /\ WritersCounted' /\ Alone'
    BY <1>1, <2>9, OverKeeps
  <2>10. CASE Query \/ Check \/ Read
    BY <1>1, <2>10, ClientKeeps
  <2> QED BY <2>1, <2>2, <2>3, <2>4, <2>5, <2>6, <2>7, <2>8, <2>9, <2>10
          DEF Next, CompactStep
<1>3. TypeOK' => (CompactionAlone' <=> Alone')
  BY AloneIs, PTL
<1> QED BY <1>2, <1>3 DEF IndexInv

\* The writer count is that of the writers there are, and a compaction has the index
\* to itself, for any number of files and compactions (mod.rs:418, mod.rs:586).
THEOREM IndexInvHolds == Spec => []IndexInv
<1>1. Init => IndexInv
  BY InvInit
<1>2. IndexInv /\ [Next]_vars => IndexInv'
  BY InvNext
<1> QED BY <1>1, <1>2, PTL DEF Spec

-----------------------------------------------------------------------------
(***************************************************************************)
(* The status.                                                             *)
(***************************************************************************)
\* When no compaction is at work or has yet to show that it is not, the status is
\* Idle, whatever order their threads end in (compact.rs:119).
THEOREM StatusAlwaysSettles == Spec => []StatusSettles
<1>1. Init => StatusSettles
  BY DEF Init, StatusSettles
<1>2. IndexInv /\ StatusSettles /\ [Next]_vars => StatusSettles'
  <2> SUFFICES ASSUME TypeOK, StatusSettles, [Next]_vars PROVE StatusSettles'
    BY DEF IndexInv
  <2>1. CASE UNCHANGED <<run, status>>
    BY <2>1 DEF StatusSettles
  <2>2. ASSUME NEW r \in Runs, CompactCall(r) \/ CompactStep(r) PROVE StatusSettles'
    <3>1. status' = "idle" \/ run'[r] \notin {"new", "calling", "ended"}
             \/ (status' = status /\ run[r] = "calling")
      BY <2>2 DEF CompactCall, CompactStep, CompactStart, Scan, Move, Finalize, Unlock,
                  ShowIdle, CallDone, At, TypeOK
    <3>2. \A s \in Runs \ {r} : run'[s] = run[s]
      BY <2>2 DEF CompactCall, CompactStep, CompactStart, Scan, Move, Finalize, Unlock,
                  ShowIdle, CallDone, At, TypeOK
    <3> QED BY <3>1, <3>2 DEF StatusSettles
  <2> QED
    BY <2>1, <2>2 DEF Next, vars, compactVars, Alloc, OpenHandle, OpenFailed, WriteAll, Committed,
                      Aborted, Delete, Query, Check, Read
<1> QED BY <1>1, <1>2, IndexInvHolds, PTL DEF Spec

-----------------------------------------------------------------------------
(***************************************************************************)
(* Generations.  No change of the entries that keeps the generation makes  *)
(* one appear or go, but for a handle that fails to open; and none but the *)
(* marks of a compaction alters one.                                       *)
(***************************************************************************)
Sure == Names \ OpenFails

Known ==
    /\ query.step # "idle" => query.gen <= gen
    /\ query.step # "idle" /\ query.gen = gen =>
           \A f \in Sure : f \in query.asked <=> state[f] # "none"
    /\ query.step = "read" /\ query.gen = gen =>
           \A f \in Sure : query.got[f] = state[f]
                           \/ (query.got[f] = "active" /\ state[f] = "bad")
    /\ query.step = "read" => Present(query.got) \cap Sure = query.asked \cap Sure

LEMMA KnownOld ==
    ASSUME TypeOK, Known, gen' = gen + 1, UNCHANGED query
    PROVE  Known'
<1>1. gen \in Nat /\ query.gen \in Nat
  BY DEF TypeOK
<1> QED BY <1>1 DEF Known, Present

LEMMA KnownStill ==
    ASSUME TypeOK, Known, UNCHANGED <<gen, query>>,
           \A f \in Sure : state'[f] = state[f] \/ (state[f] = "active" /\ state'[f] = "bad")
    PROVE  Known'
BY DEF Known, Present

LEMMA KnownRefreshed ==
    ASSUME TypeOK, Known, Query \/ Check \/ Read
    PROVE  Known'
<1>1. gen \in Nat /\ UNCHANGED <<gen, state>>
  BY DEF Query, Check, Read, TypeOK
<1>2. CASE Query
  BY <1>1, <1>2 DEF Query, Known, Present, Sure
<1>3. CASE Check
  BY <1>1, <1>3 DEF Check, Fresh, Known, Idle, TypeOK
<1>4. CASE Read
  <2>1. CASE Fresh
    <3>1. query' = [query EXCEPT !.step = "read", !.got = state] /\ query.gen = gen
      BY <1>4, <2>1 DEF Read, Fresh
    <3>2. query'.asked = query.asked /\ query'.got = state /\ query'.gen = gen
      BY <3>1 DEF TypeOK
    <3>3. \A f \in Sure : f \in query.asked <=> state[f] # "none"
      BY <1>4, <3>1 DEF Read, Known
    <3>4. Present(state) \cap Sure = query.asked \cap Sure
      BY <3>3 DEF Present, Sure
    <3> QED BY <1>1, <3>2, <3>3, <3>4 DEF Known, Present
  <2>2. CASE ~Fresh
    BY <1>1, <1>4, <2>2 DEF Read, Known, Idle
  <2> QED BY <2>1, <2>2
<1> QED BY <1>2, <1>3, <1>4

LEMMA KnownNext == IndexInv /\ Known /\ [Next]_vars => Known'
<1> SUFFICES ASSUME TypeOK, Known, [Next]_vars PROVE Known'
  BY DEF IndexInv
<1>1. ASSUME NEW f \in Names, Alloc(f) \/ Committed(f) \/ Aborted(f) \/ Delete(f)
      PROVE  Known'
  BY <1>1, KnownOld DEF Alloc, Committed, Aborted, Delete, Bump
<1>2. ASSUME NEW f \in Names, OpenHandle(f) \/ WriteAll(f) PROVE Known'
  BY <1>2, KnownStill DEF OpenHandle, WriteAll
<1>3. ASSUME NEW f \in Names, OpenFailed(f) PROVE Known'
  BY <1>3, KnownStill DEF OpenFailed, Become, Sure, TypeOK
<1>4. ASSUME NEW r \in Runs, Move(r) PROVE Known'
  <2>1. \A f \in Sure : state'[f] = state[f] \/ (state[f] = "active" /\ state'[f] = "bad")
    BY <1>4 DEF Move, Sure
  <2> QED BY <1>4, <2>1, KnownStill DEF Move
<1>5. ASSUME NEW r \in Runs, Finalize(r) PROVE Known'
  <2>1. CASE Bump
    BY <1>5, <2>1, KnownOld DEF Finalize, Bump
  <2>2. CASE UNCHANGED <<gen, state>>
    BY <1>5, <2>2, KnownStill DEF Finalize
  <2> QED BY <1>5, <2>1, <2>2 DEF Finalize
<1>6. ASSUME NEW r \in Runs,
             CompactCall(r) \/ CompactStart(r) \/ Scan(r) \/ Unlock(r) \/ ShowIdle(r) \/ CallDone(r)
      PROVE  Known'
  BY <1>6, KnownStill DEF CompactCall, CompactStart, Scan, Unlock, ShowIdle, CallDone
<1>7. CASE Query \/ Check \/ Read
  BY <1>7, KnownRefreshed
<1>8. CASE UNCHANGED vars
  BY <1>8, KnownStill DEF vars
<1> QED BY <1>1, <1>2, <1>3, <1>4, <1>5, <1>6, <1>7, <1>8 DEF Next, CompactStep

\* What a client has seen always holds under the generation it saw.
LEMMA KnownHolds == Spec => []Known
<1>1. Init => Known
  BY DEF Init, Known, Idle
<1>2. IndexInv /\ Known /\ [Next]_vars => Known'
  BY KnownNext
<1> QED BY <1>1, <1>2, IndexInvHolds, PTL DEF Spec

\* A client whose generation is the store's knows every entry, but for those whose
\* handle failed to open and the marks of a compaction that failed (Vfs.cs:419).
THEOREM GenerationAlwaysTells == Spec => []GenerationTells
<1>1. Known => GenerationTells
  BY DEF Known, Sure, GenerationTells
<1> QED BY <1>1, KnownHolds, PTL

\* Were it not for handles that fail to open, an enumeration that succeeds would
\* return the entries it made room for, as mod.rs:396 has it: the rollback of alloc
\* (mod.rs:420) is all that breaks it.
THEOREM EnumerationExactWithoutRollback ==
    ASSUME OpenFails = {}
    PROVE  Spec => []EnumerationExact
<1>1. TypeOK /\ Known => EnumerationExact
  BY DEF Known, Sure, EnumerationExact, Present, TypeOK
<1>2. IndexInv => TypeOK
  BY DEF IndexInv
<1> QED BY <1>1, <1>2, KnownHolds, IndexInvHolds, PTL
=============================================================================
