------------------------------ MODULE StoreProofs ------------------------------
(***************************************************************************)
(* Concurrent calls on one index entry, in all four adapters, for every     *)
(* number of callers, calls, retries and stops of the process: updates do   *)
(* not overwrite each other, increments are not lost, and the file adapter  *)
(* saves what memory has.                                                   *)
(***************************************************************************)
EXTENDS StoreData, FiniteSetTheorems, TLAPS

\* Patches of updates leave the counter to increment().
CounterIsFree == \A patch \in Patches : \A q \in DOMAIN patch : q # Counter /\ Counter \notin Under(q)

Counts == CounterIsFree => Counted

IInv ==
  /\ TypeOK /\ StepsOfBackend /\ Counts /\ WholeEntries /\ FileFollows

-----------------------------------------------------------------------------
(* Documents, entries and calls. *)

LEMMA IdleFacts == Idle.pc = "idle" /\ \A k : IsCall(k) => k.pc # "idle" /\ k # Idle
BY DEF Idle, IsCall, PCs

LEMMA GoneFacts == IsDoc(NoDoc) /\ IsEntry(Gone) /\ ~Gone.listed
BY DEF Gone, NoDoc, IsDoc, IsEntry

LEMMA EntryFacts ==
  ASSUME NEW e, IsEntry(e)
  PROVE  /\ e.listed \in BOOLEAN /\ e.version \in Nat /\ IsDoc(e.doc)
         /\ \A d : IsDoc(d) =>
              /\ IsEntry([e EXCEPT !.doc = d])
              /\ \A n \in Nat : IsEntry([e EXCEPT !.doc = d, !.version = n])
         /\ \A n \in Nat : IsEntry([e EXCEPT !.version = n])
         /\ \A b \in BOOLEAN : IsEntry([e EXCEPT !.listed = b])
BY DEF IsEntry, IsDoc

LEMMA EntryTypes ==
  ASSUME NEW e, IsEntry(e)
  PROVE  e.listed \in BOOLEAN /\ e.version \in Nat /\ e.version + 1 \in Nat /\ IsDoc(e.doc)
BY DEF IsEntry

LEMMA EntryChange ==
  ASSUME NEW e, IsEntry(e), NEW d, IsDoc(d), NEW n \in Nat
  PROVE  IsEntry([e EXCEPT !.doc = d, !.version = n])
BY DEF IsEntry, IsDoc

LEMMA NewEntry ==
  ASSUME NEW b \in BOOLEAN, NEW d, IsDoc(d), NEW n \in Nat
  PROVE  IsEntry([listed |-> b, doc |-> d, version |-> n])
BY DEF IsEntry, IsDoc

LEMMA OverlayFacts ==
  ASSUME NEW d, IsDoc(d), NEW S
  PROVE  /\ IsDoc(Overlay(d, S)) /\ DOMAIN Overlay(d, S) = DOMAIN d \cup S
         /\ \A p \in DOMAIN d \ S : Overlay(d, S)[p] = d[p]
         /\ IsDoc(Without(d, S)) /\ DOMAIN Without(d, S) = DOMAIN d \ S
         /\ \A p \in DOMAIN d \ S : Without(d, S)[p] = d[p]
BY DEF IsDoc, Overlay, Without

LEMMA CountingFacts ==
  ASSUME NEW n \in Nat, NEW d, IsDoc(d)
  PROVE  /\ IsDoc(Counting(n, d)) /\ DOMAIN Counting(n, d) = {Counter} \cup DOMAIN d
         /\ Counting(n, d)[Counter] = n
         /\ \A r \in DOMAIN d : r # Counter => Counting(n, d)[r] = d[r]
BY DEF IsDoc, Onto, Counting

LEMMA AddedFacts ==
  ASSUME backend \in Backends, NEW d, IsDoc(d)
  PROVE  Added(d) \in Nat /\ (Counter \in DOMAIN d => Added(d) = d[Counter] + 1) /\ IsDoc(AddedDoc(d))
<1>1. Added(d) \in Nat /\ (Counter \in DOMAIN d => Added(d) = d[Counter] + 1)
  BY DEF IsDoc, Added
<1>2. ASSUME NEW S, NEW new, new = [p \in S |-> 0] PROVE IsDoc(new) /\ IsDoc(Onto(new, d))
  BY <1>2 DEF IsDoc, Onto
<1>3. IsDoc(AddedDoc(d))
  BY <1>2, StoreAssumption DEF AddedDoc, Fresh, Local
<1> QED BY <1>1, <1>3

\* What an update leaves alone, and what it removes.
LEMMA MergeFacts ==
  ASSUME backend \in Backends, NEW d, IsDoc(d), NEW patch \in Patches \cup {NoDoc}
  PROVE  /\ IsDoc(Merge(d, patch))
         /\ \A p \in Paths : p \notin UNION {Under(q) : q \in DOMAIN patch} =>
              /\ p \in DOMAIN Merge(d, patch) <=> p \in DOMAIN d
              /\ p \in DOMAIN d => Merge(d, patch)[p] = d[p]
         /\ CounterIsFree /\ Counter \in DOMAIN d =>
              Counter \in DOMAIN Merge(d, patch) /\ Merge(d, patch)[Counter] = d[Counter]
         /\ backend # "redis" => \A q \in Nulls(patch) : Under(q) \cap DOMAIN Merge(d, patch) = {}
<1> DEFINE below == UNION {Under(q) : q \in Nulls(patch)}
           mapped == Mapped(Sets(patch))
<1>0. \A p \in Paths : p \in Under(p)
  BY StoreAssumption DEF Under, IsPrefix
<1>1. \/ Merge(d, patch) = Without(Overlay(d, Sets(patch)), below) /\ backend # "redis"
      \/ Merge(d, patch) = Without(Overlay(d, Sets(patch)), Nulls(patch)) /\ backend = "redis"
      \/ Merge(d, patch) = Without(Overlay(d, mapped), below) /\ backend # "redis"
  BY StoreAssumption DEF Merge, MemoryMerge, RedisMerge, PostgresMerge, Local
<1>2. /\ \A q \in Sets(patch) : q \in DOMAIN patch
      /\ \A q \in Nulls(patch) : q \in DOMAIN patch
      /\ mapped \subseteq Sets(patch)
  BY DEF Sets, Nulls, Mapped
<1>3. /\ \A q \in Nulls(patch) : Under(q) \subseteq below
      /\ \A p : p \in below => \E q \in Nulls(patch) : p \in Under(q)
  OBVIOUS
<1> HIDE DEF below, mapped
<1>4. PICK S, R : /\ Merge(d, patch) = Without(Overlay(d, S), R) /\ S \subseteq DOMAIN patch
                  /\ R \in {below, Nulls(patch)} /\ (backend # "redis" => R = below)
  BY <1>1, <1>2
<1>5. /\ IsDoc(Merge(d, patch)) /\ DOMAIN Merge(d, patch) = (DOMAIN d \cup S) \ R
      /\ \A p \in DOMAIN d \ (S \cup R) : Merge(d, patch)[p] = d[p]
  <2> DEFINE o == Overlay(d, S)
  <2>1. IsDoc(o) /\ DOMAIN o = DOMAIN d \cup S /\ \A p \in DOMAIN d \ S : o[p] = d[p]
    BY OverlayFacts
  <2> HIDE DEF o
  <2>2. /\ IsDoc(Without(o, R)) /\ DOMAIN Without(o, R) = DOMAIN o \ R
        /\ \A p \in DOMAIN o \ R : Without(o, R)[p] = o[p]
    BY <2>1, OverlayFacts
  <2> QED BY <1>4, <2>1, <2>2 DEF o
<1>6. ASSUME NEW p \in Paths, p \notin UNION {Under(q) : q \in DOMAIN patch}
      PROVE  p \notin S /\ p \notin R
  BY <1>0, <1>2, <1>3, <1>4, <1>6
<1>7. CounterIsFree => Counter \notin S /\ Counter \notin R
  <2>1. DOMAIN NoDoc = {}
    BY DEF NoDoc
  <2> QED BY <1>2, <1>3, <1>4, <2>1 DEF CounterIsFree
<1> QED BY <1>3, <1>4, <1>5, <1>6, <1>7

\* A call goes on.
LEMMA CallFacts ==
  ASSUME NEW k, IsCall(k)
  PROVE  /\ k.pc \in PCs /\ k.op \in Ops /\ k.patch \in Patches \cup {NoDoc} /\ IsEntry(k.snapshot)
         /\ k.tries \in Nat /\ k.version \in Nat
         /\ \A p \in PCs : IsCall([k EXCEPT !.pc = p])
         /\ \A p \in PCs, n \in Nat : IsCall([k EXCEPT !.pc = p, !.tries = n])
         /\ \A p \in PCs, n \in Nat : IsCall([k EXCEPT !.pc = p, !.version = n])
         /\ \A e : IsEntry(e) => \A p \in PCs : IsCall([k EXCEPT !.pc = p, !.snapshot = e])
BY DEF IsCall

\* Only the call of c changes, to p, or it ends.
Moves(c, p) ==
  /\ DOMAIN call' = Clients /\ IsCall(call'[c]) /\ call'[c].pc = p
  /\ call'[c].op = call[c].op /\ call'[c].patch = call[c].patch
  /\ \A d \in Clients : d # c => call'[d] = call[d]

LEMMA StepFacts ==
  ASSUME TypeOK, NEW c \in Clients, Busy(c), NEW p \in PCs, Step(c, p)
  PROVE  Moves(c, p) /\ call'[c].snapshot = call[c].snapshot
<1>1. IsCall(call[c]) /\ DOMAIN call = Clients
  BY DEF TypeOK, Busy
<1>2. IsCall([call[c] EXCEPT !.pc = p]) /\ call' = [call EXCEPT ![c] = [call[c] EXCEPT !.pc = p]]
  BY <1>1, CallFacts DEF Step
<1>3. /\ [call[c] EXCEPT !.pc = p].pc = p /\ [call[c] EXCEPT !.pc = p].op = call[c].op
      /\ [call[c] EXCEPT !.pc = p].patch = call[c].patch
      /\ [call[c] EXCEPT !.pc = p].snapshot = call[c].snapshot
  BY <1>1 DEF IsCall
<1> QED BY <1>1, <1>2, <1>3 DEF Moves

LEMMA RetryFacts ==
  ASSUME TypeOK, NEW c \in Clients, Busy(c), Retry(c)
  PROVE  \E p \in {"thrown", IF Local THEN "lock" ELSE "apply"} :
           Moves(c, p) /\ call'[c].snapshot = call[c].snapshot
<1> DEFINE again == IF Local THEN "lock" ELSE "apply"
           n == call[c].tries + 1
           p == IF n < MaxRetries THEN again ELSE "thrown"
           k == [call[c] EXCEPT !.pc = p, !.tries = n]
<1>1. IsCall(call[c]) /\ DOMAIN call = Clients
  BY DEF TypeOK, Busy
<1>2. n \in Nat
  BY <1>1 DEF IsCall
<1>3. p \in {"thrown", again} /\ p \in PCs
  BY DEF PCs
<1>4. call' = [call EXCEPT ![c] = k]
  BY DEF Retry
<1> HIDE DEF p, n
<1>5. IsCall(k) /\ k.pc = p /\ k.op = call[c].op /\ k.patch = call[c].patch
      /\ k.snapshot = call[c].snapshot
  <2>1. IsCall(k)
    BY <1>1, <1>2, <1>3, CallFacts
  <2> QED BY <1>1, <2>1 DEF IsCall
<1> HIDE DEF k
<1>6. Moves(c, p) /\ call'[c].snapshot = call[c].snapshot
  BY <1>1, <1>4, <1>5 DEF Moves
<1> QED BY <1>3, <1>6

-----------------------------------------------------------------------------
(* How many increments have counted. *)

LEMMA AppliedFacts ==
  /\ Applied \subseteq Clients /\ IsFiniteSet(Applied) /\ Cardinality(Applied) \in Nat
  /\ \A c \in Clients : c \in Applied <=>
       Busy(c) /\ call[c].op = "increment" /\ call[c].pc \in {"open", "write", "bump", "return"}
<1>1. Applied \subseteq Clients
  BY DEF Applied
<1>2. IsFiniteSet(Applied) /\ Cardinality(Applied) \in Nat
  BY <1>1, StoreAssumption, FS_Subset, FS_CardinalityType
<1> QED BY <1>1, <1>2 DEF Applied

\* The call of c, alone, may come to have counted, or to have returned.
LEMMA AppliedMoves ==
  ASSUME NEW c \in Clients, \A d \in Clients : d # c => call'[d] = call[d]
  PROVE  /\ (c \in Applied <=> c \in Applied') => Cardinality(Applied') = Cardinality(Applied)
         /\ c \notin Applied /\ c \in Applied' => Cardinality(Applied') = Cardinality(Applied) + 1
         /\ c \in Applied /\ c \notin Applied' => Cardinality(Applied') = Cardinality(Applied) - 1
<1>1. \A d \in Clients : d # c => (d \in Applied <=> d \in Applied')
  BY DEF Applied, Busy
<1>2. Applied \subseteq Clients /\ Applied' \subseteq Clients
  BY DEF Applied
<1>3. IsFiniteSet(Applied) /\ IsFiniteSet(Applied')
  BY <1>2, StoreAssumption, FS_Subset
<1>4. ASSUME c \in Applied <=> c \in Applied' PROVE Cardinality(Applied') = Cardinality(Applied)
  <2>1. Applied' = Applied
    BY <1>1, <1>2, <1>4
  <2> QED BY <2>1
<1>5. ASSUME c \notin Applied, c \in Applied' PROVE Cardinality(Applied') = Cardinality(Applied) + 1
  <2>1. Applied' = Applied \cup {c}
    BY <1>1, <1>2, <1>5
  <2> QED BY <1>3, <1>5, <2>1, FS_AddElement
<1>6. ASSUME c \in Applied, c \notin Applied' PROVE Cardinality(Applied') = Cardinality(Applied) - 1
  <2>1. Applied' = Applied \ {c}
    BY <1>1, <1>2, <1>6
  <2> QED BY <1>3, <1>6, <2>1, FS_RemoveElement
<1> QED BY <1>4, <1>5, <1>6

LEMMA InitInv == Init => IInv
<1> SUFFICES ASSUME Init PROVE IInv
  OBVIOUS
<1>0. /\ backend \in Backends /\ \A c \in Clients : call[c] = Idle /\ ~Busy(c)
      /\ entry = [listed |-> TRUE, doc |-> Fresh, version |-> 0] /\ returned = 0
      /\ disk = [torn |-> FALSE, entry |-> entry]
  BY DEF Init, Busy, OnDisk
<1>1. IsDoc(Fresh) /\ Counter \in DOMAIN Fresh /\ Fresh[Counter] = 0
  BY StoreAssumption DEF IsDoc, Fresh
<1>2. IsEntry(entry) /\ entry.listed /\ entry.doc = Fresh
  BY <1>0, <1>1, NewEntry
<1>3. TypeOK
  <2>1. disk \in [torn : BOOLEAN, entry : {disk.entry}] /\ IsEntry(disk.entry)
    BY <1>0, <1>2
  <2>2. DOMAIN call = Clients /\ returned \in Nat /\ crashes \in Nat
        /\ reset \in BOOLEAN /\ overlapped \in BOOLEAN
    BY DEF Init
  <2> QED BY <1>0, <1>2, <2>1, <2>2 DEF TypeOK
<1>4. StepsOfBackend /\ WholeEntries /\ FileFollows
  BY <1>0, <1>2 DEF StepsOfBackend, WholeEntries, WholeEntry, FileFollows, LoadFromDisk, At
<1>5. Cardinality(Applied) = 0
  <2>1. Applied = {}
    BY <1>0 DEF Applied
  <2> QED BY <2>1, FS_EmptySet
<1>6. Counts
  BY <1>0, <1>1, <1>2, <1>5 DEF Counts, Counted
<1> QED BY <1>3, <1>4, <1>6 DEF IInv

-----------------------------------------------------------------------------
(* One call moves. *)

\* The call of c moves to p, which is a step of its adapter.
Legal(c, p) ==
  /\ Busy(c) /\ p \in PCs /\ Moves(c, p) /\ backend' = backend
  /\ p \in {"lock", "locked"} => Local
  /\ p \in {"open", "write"} => backend = "file"
  /\ p = "cas" => ~Local /\ call[c].op = "update"

LEMMA LegalMove ==
  ASSUME IInv, NEW c \in Clients, NEW p, Legal(c, p)
  PROVE  /\ DOMAIN call' = Clients /\ \A d \in Clients : call'[d] = Idle \/ IsCall(call'[d])
         /\ \A d \in Clients : d # c => \A x : At(d, x)' <=> At(d, x)
         /\ Busy(c)' /\ \A x : At(c, x)' <=> x = p
         /\ StepsOfBackend' /\ Local' = Local
<1>1. /\ DOMAIN call' = Clients /\ \A d \in Clients : call'[d] = Idle \/ IsCall(call'[d])
  BY DEF IInv, TypeOK, Legal, Moves
<1>2. ASSUME NEW d \in Clients, d # c, NEW x PROVE At(d, x)' <=> At(d, x)
  BY <1>2 DEF Legal, Moves, At, Busy
<1>3. Busy(c)' /\ call'[c].pc = p
  BY IdleFacts DEF Legal, Moves, Busy
<1>4. ASSUME NEW x PROVE At(c, x)' <=> x = p
  BY <1>3 DEF At
<1>5. Local' = Local
  BY DEF Legal, Local
<1>6. StepsOfBackend'
  <2> SUFFICES ASSUME NEW d \in Clients
               PROVE  /\ At(d, "lock")' \/ At(d, "locked")' => Local
                      /\ At(d, "open")' \/ At(d, "write")' => backend = "file"
                      /\ At(d, "cas")' => ~Local /\ call'[d].op = "update"
    BY <1>5 DEF StepsOfBackend, Legal
  <2>1. CASE d = c
    BY <2>1, <1>4 DEF Legal, Moves
  <2>2. CASE d # c
    BY <2>2, <1>2 DEF IInv, StepsOfBackend, Legal, Moves
  <2> QED BY <2>1, <2>2
<1> QED BY <1>1, <1>2, <1>3, <1>4, <1>5, <1>6

\* An increment has counted when its call is on one of these.
Past == {"open", "write", "bump", "return"}

LEMMA CountKeeps ==
  ASSUME IInv, NEW c \in Clients, NEW p, Legal(c, p), returned' = returned,
         reset' = TRUE \/
           /\ reset' = reset
           /\ CounterIsFree /\ entry.listed /\ Counter \in DOMAIN entry.doc =>
                /\ entry'.listed /\ Counter \in DOMAIN entry'.doc
                /\ \/ /\ entry'.doc[Counter] = entry.doc[Counter]
                      /\ call[c].op = "increment" => (call[c].pc \in Past <=> p \in Past)
                   \/ /\ entry'.doc[Counter] = entry.doc[Counter] + 1
                      /\ call[c].op = "increment" /\ call[c].pc \notin Past /\ p \in Past
  PROVE  Counts'
<1> SUFFICES ASSUME ~reset', CounterIsFree
             PROVE  /\ entry'.listed /\ Counter \in DOMAIN entry'.doc
                    /\ entry'.doc[Counter] = returned + Cardinality(Applied')
  BY DEF Counts, Counted
<1>1. /\ entry.listed /\ Counter \in DOMAIN entry.doc
      /\ entry.doc[Counter] = returned + Cardinality(Applied) /\ returned \in Nat
  BY DEF IInv, Counts, Counted, TypeOK
<1>2. c \in Applied <=> call[c].op = "increment" /\ call[c].pc \in Past
  BY DEF Applied, Legal, Past
<1>3. c \in Applied' <=> call[c].op = "increment" /\ p \in Past
  BY LegalMove DEF Applied, Past, Legal, Moves
<1>4. \A d \in Clients : d # c => call'[d] = call[d]
  BY DEF Legal, Moves
<1>5. Cardinality(Applied) \in Nat
  BY AppliedFacts
<1>6. CASE entry'.doc[Counter] = entry.doc[Counter] /\ (c \in Applied <=> c \in Applied')
  <2>1. Cardinality(Applied') = Cardinality(Applied)
    BY <1>4, <1>6, AppliedMoves
  <2> QED BY <1>1, <1>6, <2>1
<1>7. CASE entry'.doc[Counter] = entry.doc[Counter] + 1 /\ c \notin Applied /\ c \in Applied'
  <2>1. Cardinality(Applied') = Cardinality(Applied) + 1
    BY <1>4, <1>7, AppliedMoves
  <2> QED BY <1>1, <1>5, <1>7, <2>1
<1> QED BY <1>1, <1>2, <1>3, <1>6, <1>7

\* Of a step that leaves the entry and the file as they are.
LEMMA QuietKeeps ==
  ASSUME IInv, NEW c \in Clients, NEW p, Legal(c, p),
         UNCHANGED <<entry, disk, returned, crashes, overlapped>>,
         call'[c].snapshot = call[c].snapshot,
         call[c].pc \notin {"open", "write"}, p \notin {"open", "write"},
         \/ reset' = reset /\ (call[c].op = "increment" => (call[c].pc \in Past <=> p \in Past))
         \/ reset' = TRUE
  PROVE  IInv'
<1>1. TypeOK'
  BY LegalMove DEF IInv, TypeOK, Legal
<1>2. Counts'
  BY CountKeeps
<1>3. WholeEntries'
  BY LegalMove, IdleFacts DEF IInv, WholeEntries, WholeEntry, Legal, Moves, Busy
<1>4. FileFollows'
  <2>1. \A d \in Clients, x \in {"open", "write"} : At(d, x)' <=> At(d, x)
    BY LegalMove DEF At
  <2>2. \A d \in Clients : Saving(d)' <=> Saving(d)
    BY <2>1 DEF Saving, Legal, Moves
  <2>3. LoadFromDisk' = LoadFromDisk
    BY DEF LoadFromDisk
  <2> QED BY <2>1, <2>2, <2>3 DEF IInv, FileFollows, Legal
<1> QED BY <1>1, <1>2, <1>3, <1>4, LegalMove DEF IInv

\* Of a step that changes the entry and, on the file adapter, leaves the file to write.
LEMMA ChangeKeeps ==
  ASSUME IInv, NEW c \in Clients, NEW p, Legal(c, p),
         UNCHANGED <<disk, returned, crashes, overlapped>>, IsEntry(entry'), reset' \in BOOLEAN,
         call'[c].snapshot = call[c].snapshot, call[c].pc \notin {"open", "write"},
         backend = "file" => p = "open", p # "write",
         WholeEntry(entry'), Counts'
  PROVE  IInv'
<1>1. TypeOK'
  BY LegalMove DEF IInv, TypeOK, Legal
<1>3. WholeEntries'
  <2>1. \A d \in Clients : d # c => (Busy(d)' <=> Busy(d)) /\ call'[d] = call[d]
    BY DEF Legal, Moves, Busy
  <2>2. Busy(c) /\ call'[c].snapshot = call[c].snapshot
    BY DEF Legal
  <2>3. WholeEntry(entry)' /\ WholeEntry(disk.entry)'
    BY LegalMove DEF IInv, WholeEntries, WholeEntry
  <2> QED BY <2>1, <2>2, <2>3, LegalMove DEF IInv, WholeEntries, WholeEntry
<1>4. FileFollows'
  <2> SUFFICES ASSUME backend = "file", ~overlapped PROVE
                 /\ \A d, e \in Clients : At(d, "write")' /\ At(e, "write")' => d = e
                 /\ At(c, "open")'
    BY DEF FileFollows, Legal
  <2>1. \A d \in Clients : At(d, "write")' <=> At(d, "write")
    BY LegalMove DEF At
  <2> QED BY <2>1, LegalMove DEF IInv, FileFollows
<1> QED BY <1>1, <1>3, <1>4, LegalMove DEF IInv

-----------------------------------------------------------------------------
(* What each step does to the entry and to the call, from the invariant.  The *)
(* properties rest on the same facts.                                         *)

LEMMA BusyCall ==
  ASSUME IInv, NEW c \in Clients, Busy(c)
  PROVE  /\ IsCall(call[c]) /\ call[c].pc \in PCs /\ call[c].op \in Ops /\ DOMAIN call = Clients
         /\ call[c].patch \in Patches \cup {NoDoc} /\ IsEntry(call[c].snapshot)
         /\ IsEntry(entry) /\ backend \in {"memory", "file", "redis", "postgres"}
BY CallFacts, StoreAssumption DEF IInv, TypeOK, Busy

\* A step to p of c, in one go.
LEMMA StepIsLegal ==
  ASSUME IInv, NEW c \in Clients, Busy(c), NEW p \in PCs, Step(c, p), backend' = backend,
         p \in {"lock", "locked"} => Local,
         p \in {"open", "write"} => backend = "file", p # "cas"
  PROVE  Legal(c, p) /\ call'[c].snapshot = call[c].snapshot
BY StepFacts DEF IInv, Legal

LEMMA RetryIsLegal ==
  ASSUME IInv, NEW c \in Clients, Busy(c), Retry(c), backend' = backend
  PROVE  /\ \E p \in {"thrown", "lock", "apply"} : Legal(c, p)
         /\ call'[c].snapshot = call[c].snapshot
<1>1. PICK p \in {"thrown", IF Local THEN "lock" ELSE "apply"} :
        Moves(c, p) /\ call'[c].snapshot = call[c].snapshot
  BY RetryFacts DEF IInv
<1>2. p \in PCs /\ (p = "lock" => Local) /\ p \in {"thrown", "lock", "apply"}
  BY DEF PCs
<1> QED BY <1>1, <1>2 DEF Legal

\* A retry leaves all as it was.
LEMMA RetryKeeps ==
  ASSUME IInv, NEW c \in Clients, Retry(c), call[c].op = "update",
         Busy(c), call[c].pc \notin {"open", "write"},
         UNCHANGED <<backend, disk, returned, crashes, overlapped>>
  PROVE  IInv'
<1>1. PICK p \in {"thrown", "lock", "apply"} : Legal(c, p)
  BY RetryIsLegal
<1>2. p \notin {"open", "write"} /\ call[c].op # "increment" /\ UNCHANGED <<entry, reset>>
      /\ call'[c].snapshot = call[c].snapshot
  BY <1>1, RetryIsLegal DEF Retry
<1> QED BY <1>1, <1>2, QuietKeeps

\* The entry that an update and an increment leave.
LEMMA MergedFacts ==
  ASSUME IInv, NEW patch \in Patches \cup {NoDoc}
  PROVE  /\ IsEntry(Merged(entry, patch)) /\ Merged(entry, patch).listed = entry.listed
         /\ Merged(entry, patch).doc = Merge(entry.doc, patch)
         /\ Merged(entry, patch).version = entry.version + 1
<1>1. IsDoc(Merge(entry.doc, patch)) /\ IsEntry(entry) /\ IsDoc(entry.doc)
  BY MergeFacts, EntryFacts DEF IInv, TypeOK
<1> HIDE DEF Merge
<1>2. entry.version + 1 \in Nat
  BY <1>1, EntryTypes
<1>3. Merged(entry, patch) = [entry EXCEPT !.doc = Merge(entry.doc, patch), !.version = entry.version + 1]
  BY <1>1 DEF Merged, IsEntry
<1>4. IsEntry(Merged(entry, patch))
  <2>1. IsEntry([entry EXCEPT !.doc = Merge(entry.doc, patch), !.version = entry.version + 1])
    BY <1>1, <1>2, EntryChange
  <2> QED BY <1>3, <2>1
<1> QED BY <1>1, <1>3, <1>4 DEF IsEntry

LEMMA IncrementedFacts ==
  ASSUME IInv
  PROVE  /\ IsEntry(Incremented(entry)) /\ Incremented(entry).listed = entry.listed
         /\ Incremented(entry).doc = Counting(Added(entry.doc), entry.doc)
         /\ Incremented(entry).version = entry.version + 1
<1> DEFINE d == Counting(Added(entry.doc), entry.doc)
<1>1. IsDoc(d) /\ IsEntry(entry) /\ IsDoc(entry.doc)
  BY CountingFacts, AddedFacts, EntryFacts DEF IInv, TypeOK
<1>2. Incremented(entry) = [entry EXCEPT !.doc = d, !.version = entry.version + 1]
  BY <1>1 DEF Incremented, IsEntry
<1> HIDE DEF d
<1>3. entry.version + 1 \in Nat
  BY <1>1, EntryTypes
<1>4. IsEntry(Incremented(entry))
  <2>1. IsEntry([entry EXCEPT !.doc = d, !.version = entry.version + 1])
    BY <1>1, <1>3, EntryChange
  <2> QED BY <1>2, <2>1
<1> QED BY <1>1, <1>2, <1>4 DEF IsEntry, d

LEMMA AddedEntry ==
  ASSUME IInv
  PROVE  AddedVersion \in Nat /\ IsDoc(AddedDoc(entry.doc))
<1>1. IsEntry(entry) /\ IsDoc(entry.doc) /\ entry.version \in Nat
  BY EntryFacts DEF IInv, TypeOK
<1>2. AddedVersion \in Nat
  BY <1>1 DEF AddedVersion
<1> QED BY <1>1, <1>2, AddedFacts DEF IInv, TypeOK

-----------------------------------------------------------------------------
(* The steps of memory and file. *)

LEMMA AcquireKeeps ==
  ASSUME IInv, NEW c \in Clients, AcquireIndexLock(c)
  PROVE  IInv'
<1>1. Busy(c) /\ call[c].pc = "lock" /\ Local
  BY DEF AcquireIndexLock, At, IInv, StepsOfBackend
<1>2. Legal(c, "locked") /\ call'[c].snapshot = call[c].snapshot
  BY <1>1, StepIsLegal DEF AcquireIndexLock, PCs
<1> QED BY <1>1, <1>2, QuietKeeps DEF AcquireIndexLock, history, Past

LEMMA LockedUpdateKeeps ==
  ASSUME IInv, NEW c \in Clients, LockedChange(c), LockedUpdate(c)
  PROVE  IInv'
<1>1. Busy(c) /\ call[c].pc = "locked" /\ Local /\ call[c].op = "update"
      /\ UNCHANGED <<backend, disk, returned, crashes, overlapped>>
  BY DEF LockedChange, LockedUpdate, At, IInv, StepsOfBackend
<1>2. CASE ~entry.listed
  BY <1>1, <1>2, RetryKeeps DEF LockedUpdate
<1>3. CASE entry.listed
  <2> DEFINE p == AfterChange
             d == Merge(entry.doc, call[c].patch)
  <2>1. /\ entry' = Merged(entry, call[c].patch) /\ Step(c, p) /\ reset' = reset
    BY <1>3 DEF LockedUpdate, Change
  <2>2. p \in PCs /\ (p = "open" <=> backend = "file") /\ p \in {"open", "return"}
    BY DEF AfterChange, PCs
  <2> HIDE DEF p
  <2>3. Legal(c, p) /\ call'[c].snapshot = call[c].snapshot
    BY <1>1, <2>1, <2>2, StepIsLegal
  <2>4. IsEntry(entry') /\ entry'.listed /\ entry'.doc = d
    BY <1>1, <1>3, <2>1, BusyCall, MergedFacts
  <2>5. CounterIsFree /\ Counter \in DOMAIN entry.doc =>
          Counter \in DOMAIN d /\ d[Counter] = entry.doc[Counter]
    BY <1>1, BusyCall, MergeFacts, EntryFacts DEF IInv, TypeOK
  <2> HIDE DEF d
  <2>6. Counts'
    BY <1>1, <2>1, <2>3, <2>4, <2>5, CountKeeps
  <2> QED BY <1>1, <2>1, <2>2, <2>3, <2>4, <2>6, ChangeKeeps DEF WholeEntry, IInv, TypeOK
<1> QED BY <1>2, <1>3 DEF IInv, TypeOK, IsEntry

LEMMA LockedIncrementKeeps ==
  ASSUME IInv, NEW c \in Clients, LockedChange(c), LockedIncrement(c)
  PROVE  IInv'
<1>1. Busy(c) /\ call[c].pc = "locked" /\ Local /\ call[c].op = "increment"
      /\ UNCHANGED <<backend, disk, returned, crashes, overlapped>>
  BY DEF LockedChange, LockedIncrement, At, IInv, StepsOfBackend
<1>2. CASE ~entry.listed
  <2>1. Legal(c, "thrown") /\ call'[c].snapshot = call[c].snapshot
    BY <1>1, <1>2, StepIsLegal DEF LockedIncrement, PCs
  <2> QED BY <1>1, <1>2, <2>1, QuietKeeps DEF LockedIncrement, Past
<1>3. CASE entry.listed
  <2> DEFINE p == AfterChange
             d == Counting(Added(entry.doc), entry.doc)
  <2>1. entry' = Incremented(entry) /\ Step(c, p) /\ reset' = reset
    BY <1>3 DEF LockedIncrement, Change
  <2>2. p \in PCs /\ (p = "open" <=> backend = "file") /\ p \in {"open", "return"}
    BY DEF AfterChange, PCs
  <2> HIDE DEF p
  <2>3. Legal(c, p) /\ call'[c].snapshot = call[c].snapshot
    BY <1>1, <2>1, <2>2, StepIsLegal
  <2>4. IsEntry(entry') /\ entry'.listed /\ entry'.doc = d
    BY <1>3, <2>1, IncrementedFacts
  <2>5. Counter \in DOMAIN d /\ (Counter \in DOMAIN entry.doc => d[Counter] = entry.doc[Counter] + 1)
    <3>1. IsDoc(entry.doc) /\ backend \in Backends
      BY EntryTypes DEF IInv, TypeOK
    <3>2. Added(entry.doc) \in Nat
      BY <3>1, AddedFacts
    <3> QED BY <3>1, <3>2, CountingFacts, AddedFacts
  <2> HIDE DEF d
  <2>6. Counts'
    BY <1>1, <2>1, <2>2, <2>3, <2>4, <2>5, CountKeeps DEF Past
  <2> QED BY <1>1, <2>1, <2>2, <2>3, <2>4, <2>6, ChangeKeeps DEF WholeEntry, IInv, TypeOK
<1> QED BY <1>2, <1>3 DEF IInv, TypeOK, IsEntry

LEMMA AddDeleteKeeps ==
  ASSUME IInv, NEW c \in Clients, MemoryAddDelete(c)
  PROVE  IInv'
<1>1. /\ Busy(c) /\ call[c].pc = "apply" /\ Local /\ reset' = TRUE
      /\ UNCHANGED <<backend, disk, returned, crashes, overlapped>>
      /\ IsEntry(entry) /\ WholeEntry(entry)
  BY BusyCall DEF MemoryAddDelete, At, IInv, WholeEntries
<1>2. /\ AfterChange \in PCs /\ (AfterChange = "open" <=> backend = "file")
      /\ AfterChange \in {"open", "return"} /\ "return" \in PCs
  BY DEF AfterChange, PCs
<1>3. ASSUME NEW p \in {"open", "return"}, Step(c, p), p = "open" => backend = "file"
      PROVE  Legal(c, p) /\ call'[c].snapshot = call[c].snapshot /\ Counts'
  <2>1. Legal(c, p) /\ call'[c].snapshot = call[c].snapshot
    BY <1>1, <1>3, StepIsLegal DEF PCs
  <2> QED BY <1>1, <2>1 DEF Counts, Counted
<1>4. ASSUME entry' = [listed |-> TRUE, doc |-> AddedDoc(entry.doc), version |-> AddedVersion],
             Step(c, AfterChange)
      PROVE  IInv'
  <2>1. IsEntry(entry') /\ entry'.listed
    BY <1>4, AddedEntry, NewEntry
  <2>2. WholeEntry(entry')
    BY <2>1 DEF WholeEntry
  <2>3. /\ Legal(c, AfterChange) /\ call'[c].snapshot = call[c].snapshot /\ Counts'
    BY <1>2, <1>3, <1>4
  <2> QED BY <1>1, <1>2, <2>1, <2>2, <2>3, ChangeKeeps
<1>5. ASSUME entry' = Gone, entry.listed, Step(c, AfterChange) PROVE IInv'
  <2>1. IsEntry(entry') /\ WholeEntry(entry')
    BY <1>5, GoneFacts DEF WholeEntry
  <2>2. Legal(c, AfterChange) /\ call'[c].snapshot = call[c].snapshot /\ Counts'
    BY <1>2, <1>3, <1>5
  <2> QED BY <1>1, <1>2, <2>1, <2>2, ChangeKeeps
<1>6. ASSUME entry' = Gone, ~entry.listed, Step(c, "return"), call[c].op = "delete" PROVE IInv'
  <2>1. entry' = entry
    BY <1>1, <1>6 DEF WholeEntry
  <2>2. Legal(c, "return") /\ call'[c].snapshot = call[c].snapshot /\ Counts'
    BY <1>3, <1>6
  <2> QED BY <1>1, <1>6, <2>1, <2>2, QuietKeeps
<1> QED BY <1>1, <1>4, <1>5, <1>6 DEF MemoryAddDelete, IsEntry

LEMMA OpenKeeps ==
  ASSUME IInv, NEW c \in Clients, OpenFile(c)
  PROVE  IInv'
<1>1. /\ Busy(c) /\ call[c].pc = "open" /\ At(c, "open") /\ backend = "file"
      /\ UNCHANGED <<backend, entry, reset, returned, crashes>>
  BY DEF OpenFile, At, IInv, StepsOfBackend, history
<1>2. Legal(c, "write") /\ call'[c].snapshot = entry
  <2> DEFINE k == [call[c] EXCEPT !.pc = "write", !.snapshot = entry]
  <2>1. call' = [call EXCEPT ![c] = k]
    BY DEF OpenFile
  <2>2. "write" \in PCs /\ IsCall(call[c]) /\ DOMAIN call = Clients /\ IsEntry(entry)
    BY <1>1, BusyCall DEF PCs
  <2>3. IsCall(k)
    BY <2>2, CallFacts
  <2>4. k.pc = "write" /\ k.snapshot = entry /\ k.op = call[c].op /\ k.patch = call[c].patch
    BY <2>2 DEF IsCall
  <2> HIDE DEF k
  <2> QED BY <1>1, <2>1, <2>2, <2>3, <2>4 DEF Legal, Moves
<1>3. /\ disk' = [torn |-> TRUE, entry |-> Gone]
      /\ overlapped' = (overlapped \/ \E d \in Clients : At(d, "write"))
  BY DEF OpenFile, Torn
<1>4. TypeOK'
  <2>1. disk' \in [torn : BOOLEAN, entry : {disk'.entry}] /\ IsEntry(disk'.entry)
    BY <1>3, GoneFacts
  <2>2. overlapped' \in BOOLEAN
    BY <1>3 DEF IInv, TypeOK
  <2> QED BY <1>1, <1>2, <2>1, <2>2, LegalMove DEF IInv, TypeOK
<1>5. Counts'
  BY <1>1, <1>2, CountKeeps DEF Past
<1>6. WholeEntries'
  <2>1. \A d \in Clients : d # c => (Busy(d)' <=> Busy(d)) /\ call'[d] = call[d]
    BY <1>2 DEF Legal, Moves, Busy
  <2>2. WholeEntry(disk.entry)' /\ WholeEntry(entry)' /\ (WholeEntry(call[c].snapshot))'
    BY <1>1, <1>2, <1>3, LegalMove DEF IInv, WholeEntries, WholeEntry
  <2> QED BY <1>2, <2>1, <2>2, LegalMove DEF IInv, WholeEntries, WholeEntry
<1>7. FileFollows'
  <2> SUFFICES ASSUME ~overlapped'
               PROVE  /\ \A d, e \in Clients : At(d, "write")' /\ At(e, "write")' => d = e
                      /\ Saving(c)'
    BY DEF FileFollows
  <2>1. \A d \in Clients : At(d, "write")' => d = c
    BY <1>2, <1>3, LegalMove
  <2>2. At(c, "write")'
    BY <1>2, LegalMove
  <2> QED BY <1>1, <1>2, <2>1, <2>2 DEF Saving
<1> QED BY <1>2, <1>4, <1>5, <1>6, <1>7, LegalMove DEF IInv

LEMMA WriteKeeps ==
  ASSUME IInv, NEW c \in Clients, WriteFile(c)
  PROVE  IInv'
<1>1. /\ Busy(c) /\ call[c].pc = "write" /\ At(c, "write") /\ backend = "file"
      /\ UNCHANGED <<backend, entry, reset, returned, crashes, overlapped>>
  BY DEF WriteFile, At, IInv, StepsOfBackend, history
<1>2. Legal(c, "return") /\ call'[c].snapshot = call[c].snapshot
  BY <1>1, StepIsLegal DEF WriteFile, PCs
<1>3. \/ disk' = [torn |-> FALSE, entry |-> call[c].snapshot]
      \/ overlapped /\ disk' = [torn |-> TRUE, entry |-> Gone]
  BY DEF WriteFile, OnDisk, Torn
<1>4. IsEntry(disk'.entry) /\ disk' \in [torn : BOOLEAN, entry : {disk'.entry}]
  <2>1. IsEntry(call[c].snapshot) /\ IsEntry(Gone)
    BY <1>1, GoneFacts, BusyCall
  <2>2. CASE disk' = [torn |-> FALSE, entry |-> call[c].snapshot]
    BY <2>1, <2>2
  <2>3. CASE disk' = [torn |-> TRUE, entry |-> Gone]
    BY <2>1, <2>3
  <2> QED BY <1>3, <2>2, <2>3
<1>5. TypeOK'
  BY <1>1, <1>2, <1>4, LegalMove DEF IInv, TypeOK
<1>6. Counts'
  BY <1>1, <1>2, CountKeeps DEF Past
<1>7. WholeEntries'
  <2>1. \A d \in Clients : d # c => (Busy(d)' <=> Busy(d)) /\ call'[d] = call[d]
    BY <1>2 DEF Legal, Moves, Busy
  <2>2. WholeEntry(disk.entry)' /\ WholeEntry(entry)' /\ (WholeEntry(call[c].snapshot))'
    BY <1>1, <1>2, <1>3, LegalMove DEF IInv, WholeEntries, WholeEntry
  <2> QED BY <1>2, <2>1, <2>2, LegalMove DEF IInv, WholeEntries, WholeEntry
<1>8. FileFollows'
  <2> SUFFICES ASSUME ~overlapped
               PROVE  /\ \A d \in Clients : ~At(d, "write")'
                      /\ \/ \E d \in Clients : At(d, "open")'
                         \/ LoadFromDisk' = entry
    BY <1>1 DEF FileFollows
  <2>1. \A d \in Clients : At(d, "write") => d = c
    BY <1>1 DEF IInv, FileFollows
  <2>2. \A d \in Clients : ~At(d, "write")'
    BY <1>2, <2>1, LegalMove
  <2>3. CASE \E d \in Clients : At(d, "open")
    <3>1. PICK d \in Clients : At(d, "open")
      BY <2>3
    <3>2. d # c
      BY <1>1, <3>1 DEF At
    <3>3. At(d, "open")'
      BY <1>2, <3>1, <3>2, LegalMove
    <3> QED BY <2>2, <3>3
  <2>4. CASE \E d \in Clients : Saving(d)
    <3>1. call[c].snapshot = entry
      BY <2>1, <2>4 DEF Saving
    <3> QED BY <1>3, <2>2, <3>1 DEF LoadFromDisk
  <2> QED BY <1>1, <2>3, <2>4 DEF IInv, FileFollows
<1> QED BY <1>2, <1>5, <1>6, <1>7, <1>8, LegalMove DEF IInv

-----------------------------------------------------------------------------
(* The steps of Redis and Postgres, which have no file.  Every one of them    *)
(* makes an entry, moves the call to p, and counts as CountKeeps asks.        *)

LEMMA RemoteKeeps ==
  ASSUME IInv, NEW c \in Clients, NEW p, Legal(c, p), ~Local,
         UNCHANGED <<disk, returned, crashes, overlapped>>, IsEntry(entry'), reset' \in BOOLEAN,
         call'[c].snapshot = call[c].snapshot, Counts'
  PROVE  IInv'
<1>1. p \notin {"open", "write"} /\ call[c].pc \notin {"open", "write"} /\ backend # "file"
  BY DEF Legal, IInv, StepsOfBackend, Local, At
<1>2. WholeEntry(entry')
  BY DEF WholeEntry
<1> QED BY <1>1, <1>2, ChangeKeeps

LEMMA RedisAddKeeps ==
  ASSUME IInv, NEW c \in Clients, RedisAdd(c)
  PROVE  IInv'
<1>1. /\ Busy(c) /\ ~Local /\ reset' = TRUE
      /\ UNCHANGED <<backend, disk, returned, crashes, overlapped>> /\ Counts'
  BY DEF RedisAdd, Commit, Local, Counts, Counted
<1>2. IsEntry(entry) /\ AddedVersion \in Nat /\ IsDoc(AddedDoc(entry.doc))
  BY <1>1, BusyCall, AddedEntry
<1>3. IsEntry(entry')
  <2>1. CASE entry' = [entry EXCEPT !.listed = TRUE]
    BY <1>2, <2>1 DEF IsEntry
  <2>2. CASE entry' = [entry EXCEPT !.doc = AddedDoc(entry.doc), !.version = AddedVersion]
    <3>1. IsEntry([entry EXCEPT !.doc = AddedDoc(entry.doc), !.version = AddedVersion])
      BY <1>2, EntryChange
    <3> QED BY <2>2, <3>1
  <2> QED BY <2>1, <2>2 DEF RedisAdd, Commit
<1>4. \E p \in {"hset", "return"} : Step(c, p)
  BY DEF RedisAdd, Commit
<1>5. \E p \in PCs : Legal(c, p) /\ call'[c].snapshot = call[c].snapshot
  BY <1>1, <1>4, StepIsLegal DEF PCs
<1> QED BY <1>1, <1>3, <1>5, RemoteKeeps

LEMMA RedisDeleteKeeps ==
  ASSUME IInv, NEW c \in Clients, RedisDelete(c)
  PROVE  IInv'
<1>1. /\ Busy(c) /\ ~Local /\ reset' = TRUE
      /\ UNCHANGED <<backend, disk, returned, crashes, overlapped>> /\ Counts'
  BY DEF RedisDelete, Commit, Local, Counts, Counted
<1>2. IsEntry(entry) /\ IsDoc(NoDoc)
  BY <1>1, BusyCall, GoneFacts
<1>3. IsEntry(entry')
  <2>1. CASE entry' = [entry EXCEPT !.listed = FALSE]
    BY <1>2, <2>1 DEF IsEntry
  <2>2. CASE entry' = [entry EXCEPT !.doc = NoDoc, !.version = 0]
    <3>1. IsEntry([entry EXCEPT !.doc = NoDoc, !.version = 0])
      BY <1>2, EntryChange
    <3> QED BY <2>2, <3>1
  <2> QED BY <2>1, <2>2 DEF RedisDelete, Commit
<1>4. \E p \in {"del", "return"} : Step(c, p)
  BY DEF RedisDelete, Commit
<1>5. \E p \in PCs : Legal(c, p) /\ call'[c].snapshot = call[c].snapshot
  BY <1>1, <1>4, StepIsLegal DEF PCs
<1> QED BY <1>1, <1>3, <1>5, RemoteKeeps

LEMMA RedisIncrementKeeps ==
  ASSUME IInv, NEW c \in Clients, RedisIncrement(c)
  PROVE  IInv'
<1>1. /\ Busy(c) /\ ~Local /\ reset' = reset /\ call[c].op = "increment" /\ IsEntry(entry)
      /\ UNCHANGED <<backend, disk, returned, crashes, overlapped>> /\ reset' \in BOOLEAN
  BY BusyCall DEF RedisIncrement, Commit, Local, IInv, TypeOK
<1>2. ASSUME call[c].pc = "apply",
             Commit(c, [entry EXCEPT !.doc = Counting(Added(@), @)], "bump")
      PROVE  IInv'
  <2> DEFINE d == Counting(Added(entry.doc), entry.doc)
  <2>1. IsDoc(d) /\ Counter \in DOMAIN d
        /\ (Counter \in DOMAIN entry.doc => d[Counter] = entry.doc[Counter] + 1)
    <3>1. IsDoc(entry.doc) /\ backend \in Backends
      BY EntryTypes DEF IInv, TypeOK
    <3>2. Added(entry.doc) \in Nat
      BY <3>1, AddedFacts
    <3> QED BY <3>1, <3>2, CountingFacts, AddedFacts
  <2>2. entry' = [entry EXCEPT !.doc = d] /\ Step(c, "bump")
    BY <1>1, <1>2 DEF Commit, IsEntry
  <2> HIDE DEF d
  <2>3. IsEntry(entry') /\ entry'.doc = d /\ entry'.listed = entry.listed
    BY <1>1, <2>1, <2>2 DEF IsEntry
  <2>4. Legal(c, "bump") /\ call'[c].snapshot = call[c].snapshot
    BY <1>1, <2>2, StepIsLegal DEF PCs
  <2>5. Counts'
    BY <1>1, <1>2, <2>1, <2>3, <2>4, CountKeeps DEF Past
  <2> QED BY <1>1, <2>3, <2>4, <2>5, RemoteKeeps
<1>3. ASSUME call[c].pc = "bump", Commit(c, [entry EXCEPT !.version = @ + 1], "return")
      PROVE  IInv'
  <2>1. Step(c, "return")
    BY <1>3 DEF Commit
  <2>2. IsEntry(entry') /\ entry'.doc = entry.doc /\ entry'.listed = entry.listed
    BY <1>1, <1>3 DEF IsEntry, Commit
  <2>3. Legal(c, "return") /\ call'[c].snapshot = call[c].snapshot
    BY <1>1, <2>1, StepIsLegal DEF PCs
  <2>4. Counts'
    BY <1>1, <1>3, <2>2, <2>3, CountKeeps DEF Past
  <2> QED BY <1>1, <2>2, <2>3, <2>4, RemoteKeeps
<1> QED BY <1>2, <1>3 DEF RedisIncrement, At

LEMMA PostgresKeeps ==
  ASSUME IInv, NEW c \in Clients, PostgresStatement(c)
  PROVE  IInv'
<1>1. /\ Busy(c) /\ ~Local /\ call[c].pc = "apply" /\ IsEntry(entry)
  BY BusyCall DEF PostgresStatement, Local, At
<1>2. ASSUME PostgresAdd(c) \/ PostgresDelete(c) PROVE IInv'
  <2>1. /\ reset' = TRUE /\ Step(c, "return") /\ Counts'
        /\ UNCHANGED <<backend, disk, returned, crashes, overlapped>>
    BY <1>2 DEF PostgresAdd, PostgresDelete, Commit, Counts, Counted
  <2>2. AddedVersion \in Nat /\ IsDoc(AddedDoc(entry.doc))
    BY AddedEntry
  <2>3. IsEntry(entry')
    <3>1. IsEntry([listed |-> TRUE, doc |-> AddedDoc(entry.doc), version |-> AddedVersion])
      BY <2>2, NewEntry
    <3> QED BY <1>2, <3>1, GoneFacts DEF PostgresAdd, PostgresDelete, Commit
  <2>4. Legal(c, "return") /\ call'[c].snapshot = call[c].snapshot
    BY <1>1, <2>1, StepIsLegal DEF PCs
  <2> QED BY <1>1, <2>1, <2>3, <2>4, RemoteKeeps
<1>3. ASSUME PostgresIncrement(c), ~entry.listed PROVE IInv'
  <2>1. /\ Step(c, "thrown") /\ reset' = reset
        /\ UNCHANGED <<backend, entry, disk, returned, crashes, overlapped>>
    BY <1>3 DEF PostgresIncrement
  <2>2. Legal(c, "thrown") /\ call'[c].snapshot = call[c].snapshot
    BY <1>1, <2>1, StepIsLegal DEF PCs
  <2> QED BY <1>1, <2>1, <2>2, QuietKeeps DEF Past
<1>4. ASSUME PostgresIncrement(c), entry.listed PROVE IInv'
  <2> DEFINE d == Counting(Added(entry.doc), entry.doc)
  <2>1. /\ entry' = Incremented(entry) /\ Step(c, "return") /\ reset' = reset
        /\ UNCHANGED <<backend, disk, returned, crashes, overlapped>> /\ reset' \in BOOLEAN
        /\ call[c].op = "increment"
    BY <1>4 DEF PostgresIncrement, Commit, IInv, TypeOK
  <2>2. Legal(c, "return") /\ call'[c].snapshot = call[c].snapshot
    BY <1>1, <2>1, StepIsLegal DEF PCs
  <2>3. IsEntry(entry') /\ entry'.listed /\ entry'.doc = d
    BY <1>4, <2>1, IncrementedFacts
  <2>4. Counter \in DOMAIN d /\ (Counter \in DOMAIN entry.doc => d[Counter] = entry.doc[Counter] + 1)
    <3>1. IsDoc(entry.doc) /\ backend \in Backends
      BY EntryTypes DEF IInv, TypeOK
    <3>2. Added(entry.doc) \in Nat
      BY <3>1, AddedFacts
    <3> QED BY <3>1, <3>2, CountingFacts, AddedFacts
  <2> HIDE DEF d
  <2>5. Counts'
    BY <1>1, <2>1, <2>2, <2>3, <2>4, CountKeeps DEF Past
  <2> QED BY <1>1, <2>1, <2>2, <2>3, <2>5, RemoteKeeps
<1>5. entry.listed \in BOOLEAN
  BY <1>1, EntryTypes
<1> QED BY <1>2, <1>3, <1>4, <1>5 DEF PostgresStatement

LEMMA ReadVersionKeeps ==
  ASSUME IInv, NEW c \in Clients, ReadVersion(c)
  PROVE  IInv'
<1>1. /\ Busy(c) /\ ~Local /\ call[c].pc = "apply" /\ call[c].op = "update"
      /\ UNCHANGED <<backend, disk, returned, crashes, overlapped>>
  BY DEF ReadVersion, At
<1>2. CASE Retry(c)
  BY <1>1, <1>2, RetryKeeps
<1>3. ASSUME call' = [call EXCEPT ![c] = [@ EXCEPT !.pc = "cas", !.version = entry.version]],
             UNCHANGED <<entry, reset>>
      PROVE  IInv'
  <2> DEFINE k == [call[c] EXCEPT !.pc = "cas", !.version = entry.version]
  <2>1. call' = [call EXCEPT ![c] = k]
    BY <1>3
  <2>2. "cas" \in PCs /\ IsCall(call[c]) /\ DOMAIN call = Clients /\ entry.version \in Nat
    BY <1>1, BusyCall, EntryTypes DEF PCs
  <2>3. IsCall(k)
    BY <2>2, CallFacts
  <2>4. /\ k.pc = "cas" /\ k.op = call[c].op /\ k.patch = call[c].patch
        /\ k.snapshot = call[c].snapshot
    BY <2>2 DEF IsCall
  <2> HIDE DEF k
  <2>5. Legal(c, "cas") /\ call'[c].snapshot = call[c].snapshot
    BY <1>1, <2>1, <2>2, <2>3, <2>4 DEF Legal, Moves
  <2> QED BY <1>1, <1>3, <2>5, QuietKeeps
<1> QED BY <1>2, <1>3 DEF ReadVersion

LEMMA CompareAndSetKeeps ==
  ASSUME IInv, NEW c \in Clients, CompareAndSet(c)
  PROVE  IInv'
<1>1. /\ Busy(c) /\ ~Local /\ call[c].pc = "cas" /\ call[c].op = "update"
      /\ UNCHANGED <<backend, disk, returned, crashes, overlapped>>
  BY DEF CompareAndSet, At, IInv, StepsOfBackend
<1>2. CASE Retry(c)
  BY <1>1, <1>2, RetryKeeps
<1>3. ASSUME Change(c, Merged(entry, call[c].patch), "return") PROVE IInv'
  <2> DEFINE d == Merge(entry.doc, call[c].patch)
  <2>1. /\ entry' = Merged(entry, call[c].patch) /\ Step(c, "return") /\ reset' = reset
        /\ reset' \in BOOLEAN
    BY <1>3 DEF Change, IInv, TypeOK
  <2>2. Legal(c, "return") /\ call'[c].snapshot = call[c].snapshot
    BY <1>1, <2>1, StepIsLegal DEF PCs
  <2>3. IsEntry(entry') /\ entry'.listed = entry.listed /\ entry'.doc = d
    BY <1>1, <2>1, BusyCall, MergedFacts
  <2>4. CounterIsFree /\ Counter \in DOMAIN entry.doc =>
          Counter \in DOMAIN d /\ d[Counter] = entry.doc[Counter]
    BY <1>1, BusyCall, MergeFacts, EntryTypes DEF IInv, TypeOK
  <2> HIDE DEF d
  <2>5. Counts'
    BY <1>1, <2>1, <2>2, <2>3, <2>4, CountKeeps
  <2> QED BY <1>1, <2>1, <2>2, <2>3, <2>5, RemoteKeeps
<1> QED BY <1>2, <1>3 DEF CompareAndSet

-----------------------------------------------------------------------------
(* Calls begin and end, and the process stops. *)

\* The call of c is k, which begins or is none; before there was none, or one that ends.
LEMMA TurnKeeps ==
  ASSUME IInv, NEW c \in Clients, NEW k, call' = [call EXCEPT ![c] = k],
         ~Busy(c) \/ call[c].pc \in {"return", "thrown"},
         \/ k = Idle
         \/ IsCall(k) /\ k.snapshot = Gone /\ (k.pc = "apply" \/ (k.pc = "lock" /\ Local)),
         UNCHANGED <<backend, entry, disk, reset, crashes, overlapped>>, returned' \in Nat, Counts'
  PROVE  IInv'
<1>1. DOMAIN call' = Clients /\ call'[c] = k /\ \A d \in Clients : d # c => call'[d] = call[d]
  BY DEF IInv, TypeOK
<1>2. \A d \in Clients : d # c => \A x : (At(d, x)' <=> At(d, x))
  BY <1>1 DEF At, Busy
<1>3. \A x : At(c, x)' => x \in {"lock", "apply"} /\ (x = "lock" => Local)
  BY <1>1 DEF At, Busy
<1>4. \A x : At(c, x) => x \in {"return", "thrown"}
  BY DEF At
<1>5. TypeOK'
  BY <1>1 DEF IInv, TypeOK
<1>6. StepsOfBackend'
  <2> SUFFICES ASSUME NEW d \in Clients
               PROVE  /\ At(d, "lock")' \/ At(d, "locked")' => Local
                      /\ At(d, "open")' \/ At(d, "write")' => backend = "file"
                      /\ At(d, "cas")' => ~Local /\ call'[d].op = "update"
    BY DEF StepsOfBackend, Local
  <2>1. CASE d = c
    BY <2>1, <1>3
  <2>2. CASE d # c
    BY <2>2, <1>1, <1>2 DEF IInv, StepsOfBackend
  <2> QED BY <2>1, <2>2
<1>7. WholeEntries'
  <2>1. ASSUME NEW d \in Clients, Busy(d)' PROVE WholeEntry(call'[d].snapshot)
    <3>1. CASE d = c
      BY <1>1, <2>1, <3>1 DEF WholeEntry, Busy
    <3>2. CASE d # c
      BY <1>1, <2>1, <3>2 DEF IInv, WholeEntries, Busy
    <3> QED BY <3>1, <3>2
  <2> QED BY <2>1 DEF IInv, WholeEntries, WholeEntry, Local
<1>8. FileFollows'
  <2>1. \A d \in Clients, x \in {"open", "write"} : At(d, x)' <=> At(d, x)
    BY <1>2, <1>3, <1>4
  <2>2. \A d \in Clients : Saving(d)' <=> Saving(d)
    BY <1>1, <1>3, <1>4, <2>1 DEF Saving
  <2>3. LoadFromDisk' = LoadFromDisk
    BY DEF LoadFromDisk
  <2> QED BY <2>1, <2>2, <2>3 DEF IInv, FileFollows
<1> QED BY <1>5, <1>6, <1>7, <1>8 DEF IInv

LEMMA BeginKeeps ==
  ASSUME IInv, NEW c \in Clients, Begin(c)
  PROVE  IInv'
<1>1. PICK r \in Requests :
        call' = [call EXCEPT ![c] =
          [pc |-> IF Local /\ r.op \in {"update", "increment"} THEN "lock" ELSE "apply",
           op |-> r.op, patch |-> r.patch, version |-> 0, tries |-> 0, snapshot |-> Gone]]
  BY DEF Begin
<1> DEFINE first == IF Local /\ r.op \in {"update", "increment"} THEN "lock" ELSE "apply"
           k == [pc |-> first, op |-> r.op, patch |-> r.patch, version |-> 0, tries |-> 0,
                 snapshot |-> Gone]
<1>2. r.op \in Ops /\ r.patch \in Patches \cup {NoDoc}
  BY DEF Requests, Ops
<1>3. first \in PCs /\ (first = "apply" \/ (first = "lock" /\ Local))
  BY DEF PCs
<1>4. call' = [call EXCEPT ![c] = k]
  BY <1>1
<1> HIDE DEF first
<1>5. IsCall(k) /\ k.snapshot = Gone /\ k.pc = first
  BY <1>2, <1>3, GoneFacts DEF IsCall
<1> HIDE DEF k
<1>6. /\ ~Busy(c) /\ returned' \in Nat
      /\ UNCHANGED <<backend, entry, disk, reset, crashes, returned, overlapped>>
  BY DEF Begin, IInv, TypeOK
<1>7. Counts'
  <2>1. call'[c] = k /\ \A d \in Clients : d # c => call'[d] = call[d]
    BY <1>4 DEF IInv, TypeOK
  <2>2. c \notin Applied /\ c \notin Applied'
    BY <1>3, <1>5, <1>6, <2>1 DEF Applied
  <2>3. Cardinality(Applied') = Cardinality(Applied)
    BY <2>1, <2>2, AppliedMoves
  <2> QED BY <1>6, <2>3 DEF IInv, Counts, Counted
<1> QED BY <1>3, <1>4, <1>5, <1>6, <1>7, TurnKeeps

LEMMA ReturnKeeps ==
  ASSUME IInv, NEW c \in Clients, Return(c)
  PROVE  IInv'
<1>1. /\ Busy(c) /\ call[c].pc \in {"return", "thrown"} /\ call' = [call EXCEPT ![c] = Idle]
      /\ UNCHANGED <<backend, entry, disk, reset, crashes, overlapped>>
      /\ \/ call[c].pc = "return" /\ call[c].op = "increment" /\ returned' = returned + 1
         \/ ~(call[c].pc = "return" /\ call[c].op = "increment") /\ returned' = returned
  BY DEF Return, At
<1>2. returned \in Nat /\ returned' \in Nat
  BY <1>1 DEF IInv, TypeOK
<1>3. Counts'
  <2>1. call'[c] = Idle /\ \A d \in Clients : d # c => call'[d] = call[d]
    BY <1>1 DEF IInv, TypeOK
  <2>2. c \notin Applied'
    BY <2>1 DEF Applied, Busy
  <2>3. c \in Applied <=> call[c].pc = "return" /\ call[c].op = "increment"
    BY <1>1 DEF Applied
  <2>4. Cardinality(Applied) \in Nat
    BY AppliedFacts
  <2>5. CASE c \in Applied
    <3>1. Cardinality(Applied') = Cardinality(Applied) - 1 /\ returned' = returned + 1
      BY <1>1, <2>1, <2>2, <2>3, <2>5, AppliedMoves
    <3>2. returned' + Cardinality(Applied') = returned + Cardinality(Applied)
      BY <1>2, <2>4, <3>1
    <3> QED BY <1>1, <3>2 DEF IInv, Counts, Counted
  <2>6. CASE c \notin Applied
    <3>1. Cardinality(Applied') = Cardinality(Applied) /\ returned' = returned
      BY <1>1, <2>1, <2>2, <2>3, <2>6, AppliedMoves
    <3> QED BY <1>1, <3>1 DEF IInv, Counts, Counted
  <2> QED BY <2>5, <2>6
<1> QED BY <1>1, <1>2, <1>3, TurnKeeps

LEMMA CrashKeeps ==
  ASSUME IInv, Crash
  PROVE  IInv'
<1>1. /\ \A c \in Clients : call'[c] = Idle /\ ~Busy(c)' /\ \A x : ~At(c, x)'
      /\ DOMAIN call' = Clients /\ reset' = TRUE /\ crashes' = crashes + 1
      /\ UNCHANGED <<backend, disk, returned, overlapped>>
  BY DEF Crash, Busy, At
<1>2. \/ backend = "memory" /\ entry' = Gone
      \/ backend = "file" /\ entry' = LoadFromDisk
      \/ ~Local /\ entry' = entry
  BY DEF Crash, Local
<1>3. IsEntry(entry') /\ WholeEntry(entry')
  <2>1. IsEntry(Gone) /\ IsEntry(disk.entry) /\ IsEntry(entry)
        /\ WholeEntry(Gone) /\ WholeEntry(disk.entry) /\ WholeEntry(entry)
    BY GoneFacts DEF IInv, TypeOK, WholeEntries, WholeEntry
  <2> QED BY <1>2, <2>1 DEF LoadFromDisk
<1>4. TypeOK'
  BY <1>1, <1>3 DEF IInv, TypeOK
<1>5. StepsOfBackend' /\ Counts'
  BY <1>1 DEF StepsOfBackend, Counts, Counted
<1>6. WholeEntries'
  BY <1>1, <1>3 DEF IInv, WholeEntries, WholeEntry, Local
<1>7. FileFollows'
  <2> SUFFICES ASSUME backend = "file" PROVE LoadFromDisk' = entry'
    BY <1>1 DEF FileFollows
  <2> QED BY <1>1, <1>2 DEF LoadFromDisk, Local
<1> QED BY <1>4, <1>5, <1>6, <1>7 DEF IInv

LEMMA StutterKeeps ==
  ASSUME IInv, UNCHANGED index, crashes' \in Nat
  PROVE  IInv'
<1>1. TypeOK'
  BY DEF IInv, TypeOK, index
<1>2. StepsOfBackend' /\ WholeEntries' /\ FileFollows'
  BY DEF IInv, StepsOfBackend, WholeEntries, FileFollows, index, At, Busy, Local, WholeEntry,
         Saving, LoadFromDisk
<1>3. Applied' = Applied
  BY DEF Applied, Busy, index
<1>4. Counts'
  BY <1>3 DEF IInv, Counts, Counted, index
<1> QED BY <1>1, <1>2, <1>4 DEF IInv

LEMMA NextKeeps ==
  ASSUME IInv, Next
  PROVE  IInv'
<1>1. CASE Crash
  BY <1>1, CrashKeeps
<1>2. ASSUME NEW c \in Clients, Begin(c) PROVE IInv'
  BY <1>2, BeginKeeps
<1>3. ASSUME NEW c \in Clients, ClientStep(c) PROVE IInv'
  <2>1. CASE LockedChange(c)
    BY <2>1, LockedUpdateKeeps, LockedIncrementKeeps DEF LockedChange
  <2>2. CASE AcquireIndexLock(c) \/ MemoryAddDelete(c) \/ OpenFile(c) \/ WriteFile(c)
    BY <2>2, AcquireKeeps, AddDeleteKeeps, OpenKeeps, WriteKeeps
  <2>3. CASE RedisAdd(c) \/ RedisDelete(c) \/ RedisIncrement(c) \/ PostgresStatement(c)
    BY <2>3, RedisAddKeeps, RedisDeleteKeeps, RedisIncrementKeeps, PostgresKeeps
  <2>4. CASE ReadVersion(c) \/ CompareAndSet(c) \/ Return(c)
    BY <2>4, ReadVersionKeeps, CompareAndSetKeeps, ReturnKeeps
  <2> QED BY <1>3, <2>1, <2>2, <2>3, <2>4 DEF ClientStep
<1> QED BY <1>1, <1>2, <1>3 DEF Next

\* Calls on streams and keys have nothing to do with the entry.
LEMMA DataKeeps ==
  ASSUME IInv, DataCalls
  PROVE  IInv' /\ UNCHANGED index
<1>1. UNCHANGED index /\ crashes \in Nat
  BY DEF DataCalls, IInv, TypeOK
<1>2. CASE StopData
  BY <1>1, <1>2, StutterKeeps DEF StopData
<1>3. ASSUME NEW c \in Clients, DataStep(c) PROVE crashes' = crashes
  <2>1. \A op, items, event, value : Call(c, op, items, event, value) => crashes' = crashes
    BY DEF Call
  <2>2. CASE AppendEvent(c) \/ DeleteStream(c) \/ ChangeState(c) \/ CleanUp(c)
    BY <2>1, <2>2 DEF AppendEvent, DeleteStream, ChangeState, CleanUp
  <2>3. Settle => crashes' = crashes
    BY DEF Settle
  <2>4. CASE ~(AppendEvent(c) \/ DeleteStream(c) \/ ChangeState(c) \/ CleanUp(c))
    BY <1>3, <2>3, <2>4 DEF DataStep, ChangeMemory, RedisCommand, ScanKeys, DeleteKeys,
       PostgresQuery, ChangeFile, Truncate, WriteValue, ListFiles, UnlinkNext
  <2> QED BY <2>2, <2>4
<1> QED BY <1>1, <1>2, <1>3, StutterKeeps DEF DataCalls

LEMMA StoreInv == StoreSpec => []IInv
<1>1. DataInit => IInv
  BY InitInv DEF DataInit
<1>2. IInv /\ [StoreNext]_<<vars, data>> => IInv'
  <2> SUFFICES ASSUME IInv, [StoreNext]_<<vars, data>> PROVE IInv'
    OBVIOUS
  <2>1. CASE UNCHANGED vars
    BY <2>1, StutterKeeps DEF vars, index, IInv, TypeOK
  <2>2. CASE StoreNext
    BY <2>2, NextKeeps, DataKeeps DEF StoreNext, IndexCalls
  <2> QED BY <2>1, <2>2
<1> QED BY <1>1, <1>2, PTL DEF StoreSpec

-----------------------------------------------------------------------------
(* interfaces/store.ts promises that increments are atomic: no increment of a *)
(* counter is lost, whatever else is done to the entry meanwhile, in every    *)
(* adapter.  Updates that themselves write the counter are excluded.          *)
THEOREM IncrementsCount ==
  ASSUME CounterIsFree
  PROVE  StoreSpec => []CountersExact
<1>1. ASSUME IInv PROVE CountersExact
  <2> SUFFICES ASSUME ~reset, \A c \in Clients : Busy(c) => call[c].op # "increment"
               PROVE  entry.doc[Counter] = returned
    BY DEF CountersExact
  <2>1. Applied = {}
    BY DEF Applied
  <2>2. Cardinality(Applied) = 0
    BY <2>1, FS_EmptySet
  <2> QED BY <1>1, <2>2 DEF IInv, Counts, Counted, TypeOK
<1> QED BY <1>1, StoreInv, PTL

(* file-store.ts: once the calls have returned, a restart finds in the index  *)
(* file what the memory had, unless two writes of the file overlapped.        *)
THEOREM FileHoldsTheIndex == StoreSpec => []DiskCatchesUp
<1>1. ASSUME IInv PROVE DiskCatchesUp
  <2> SUFFICES ASSUME backend = "file", ~overlapped, \A c \in Clients : ~Busy(c)
               PROVE  LoadFromDisk = entry
    BY DEF DiskCatchesUp
  <2> QED BY <1>1 DEF IInv, FileFollows, At, Saving
<1> QED BY <1>1, StoreInv, PTL

-----------------------------------------------------------------------------
(* Whose leaves a step changes. *)

LEMMA LegalChanges ==
  ASSUME NEW c \in Clients, NEW p, Legal(c, p), p # call[c].pc
  PROVE  call'[c] # call[c] /\ Busy(c) /\ \A d \in Clients : d # c => call'[d] = call[d]
BY DEF Legal, Moves

\* The step is of c, and changes what c's call may.
Own(c) ==
  /\ Busy(c) /\ call'[c] # call[c] /\ \A d \in Clients : d # c => call'[d] = call[d]
  /\ \/ call[c].op \in {"add", "delete"}
     \/ /\ call[c].op = "increment"
        /\ \A q \in Paths : q # Counter => Leaf(entry', q) = Leaf(entry, q)
     \/ call[c].op = "update" /\ entry' = Merged(entry, call[c].patch)

LEMMA CountingLeaves ==
  ASSUME IInv, NEW e, e.doc = Counting(Added(entry.doc), entry.doc)
  PROVE  \A q \in Paths : q # Counter => Leaf(e, q) = Leaf(entry, q)
<1>1. IsDoc(entry.doc) /\ backend \in Backends
  BY EntryTypes DEF IInv, TypeOK
<1>2. Added(entry.doc) \in Nat
  BY <1>1, AddedFacts
<1>3. /\ DOMAIN e.doc = {Counter} \cup DOMAIN entry.doc
      /\ \A q \in DOMAIN entry.doc : q # Counter => e.doc[q] = entry.doc[q]
  BY <1>1, <1>2, CountingFacts
<1> QED BY <1>3 DEF Leaf

LEMMA StepsAreOwn ==
  ASSUME IInv, NEW c \in Clients, ClientStep(c)
  PROVE  entry' = entry \/ Own(c)
<1> SUFFICES ASSUME entry' # entry PROVE Own(c)
  OBVIOUS
<1>0. ASSUME NEW p \in PCs \ {"cas", "lock", "locked", "write"}, Busy(c), Step(c, p),
             call[c].pc # p, p = "open" => backend = "file", backend' = backend
      PROVE  call'[c] # call[c] /\ \A d \in Clients : d # c => call'[d] = call[d]
  BY <1>0, StepIsLegal, LegalChanges
<1>1. CASE LockedChange(c)
  <2>1. Busy(c) /\ call[c].pc = "locked" /\ backend' = backend
    BY <1>1 DEF LockedChange, At
  <2>2. AfterChange \in PCs \ {"cas", "lock", "locked", "write"} /\ (AfterChange = "open" => backend = "file")
    BY DEF AfterChange, PCs
  <2>3. CASE LockedUpdate(c)
    <3>1. /\ call[c].op = "update" /\ entry' = Merged(entry, call[c].patch)
          /\ Step(c, AfterChange)
      BY <2>3 DEF LockedUpdate, Change, Retry
    <3> QED BY <1>0, <2>1, <2>2, <3>1 DEF Own
  <2>4. CASE LockedIncrement(c)
    <3>1. /\ call[c].op = "increment" /\ entry' = Incremented(entry) /\ Step(c, AfterChange)
      BY <2>4 DEF LockedIncrement, Change
    <3>2. entry'.doc = Counting(Added(entry.doc), entry.doc)
      BY <3>1, IncrementedFacts
    <3> QED BY <1>0, <2>1, <2>2, <3>1, <3>2, CountingLeaves DEF Own
  <2> QED BY <1>1, <2>3, <2>4 DEF LockedChange
<1>2. CASE MemoryAddDelete(c)
  <2>1. Busy(c) /\ call[c].pc = "apply" /\ backend' = backend /\ call[c].op \in {"add", "delete"}
    BY <1>2 DEF MemoryAddDelete, At
  <2>2. \E p \in {"open", "return"} : Step(c, p) /\ (p = "open" => backend = "file")
    BY <1>2 DEF MemoryAddDelete, AfterChange
  <2> QED BY <1>0, <2>1, <2>2 DEF Own, PCs
<1>3. CASE RedisAdd(c) \/ RedisDelete(c)
  <2>1. Busy(c) /\ backend' = backend /\ call[c].op \in {"add", "delete"}
        /\ \E p \in {"hset", "del", "return"} : Step(c, p) /\ call[c].pc # p
    BY <1>3 DEF RedisAdd, RedisDelete, Commit, At
  <2> QED BY <1>0, <2>1 DEF Own, PCs
<1>4. CASE RedisIncrement(c)
  <2>1. /\ Busy(c) /\ backend' = backend /\ call[c].op = "increment"
        /\ \E p \in {"bump", "return"} : Step(c, p) /\ call[c].pc # p
    BY <1>4 DEF RedisIncrement, Commit, At
  <2>2. \/ entry' = [entry EXCEPT !.doc = Counting(Added(entry.doc), entry.doc)]
        \/ entry' = [entry EXCEPT !.version = entry.version + 1]
    BY <1>4 DEF RedisIncrement, Commit, IInv, TypeOK, IsEntry
  <2>3. entry'.doc = Counting(Added(entry.doc), entry.doc) \/ entry'.doc = entry.doc
    BY <2>2 DEF IInv, TypeOK, IsEntry
  <2>4. \A q \in Paths : q # Counter => Leaf(entry', q) = Leaf(entry, q)
    BY <2>3, CountingLeaves DEF Leaf
  <2> QED BY <1>0, <2>1, <2>4 DEF Own, PCs
<1>5. CASE PostgresStatement(c)
  <2>1. Busy(c) /\ call[c].pc = "apply"
    BY <1>5 DEF PostgresStatement, At
  <2>2. CASE PostgresAdd(c) \/ PostgresDelete(c)
    BY <1>0, <2>1, <2>2 DEF PostgresAdd, PostgresDelete, Commit, Own, PCs
  <2>3. CASE PostgresIncrement(c)
    <3>1. /\ call[c].op = "increment" /\ entry' = Incremented(entry) /\ Step(c, "return")
          /\ backend' = backend
      BY <2>3 DEF PostgresIncrement, Commit
    <3>2. entry'.doc = Counting(Added(entry.doc), entry.doc)
      BY <3>1, IncrementedFacts
    <3> QED BY <1>0, <2>1, <3>1, <3>2, CountingLeaves DEF Own, PCs
  <2> QED BY <1>5, <2>2, <2>3 DEF PostgresStatement
<1>6. CASE CompareAndSet(c)
  <2>1. /\ Busy(c) /\ call[c].pc = "cas" /\ call[c].op = "update" /\ backend' = backend
        /\ entry' = Merged(entry, call[c].patch) /\ Step(c, "return")
    BY <1>6 DEF CompareAndSet, At, Change, Retry, IInv, StepsOfBackend
  <2> QED BY <1>0, <2>1 DEF Own, PCs
<1>7. CASE AcquireIndexLock(c) \/ OpenFile(c) \/ WriteFile(c) \/ ReadVersion(c) \/ Return(c)
  BY <1>7 DEF AcquireIndexLock, OpenFile, WriteFile, ReadVersion, Return, Retry
<1> QED BY <1>1, <1>2, <1>3, <1>4, <1>5, <1>6, <1>7 DEF ClientStep

(* interfaces/store.ts: concurrent updates must not overwrite each other.  A  *)
(* step of a call changes only leaves that its own request names, and a null  *)
(* of an update has removed all that is under it, however the calls of any    *)
(* number of clients interleave.                                              *)
THEOREM NothingOverwritten == StoreSpec => UpdatesDontOverwrite
<1> DEFINE Kept1 == \A p \in Paths : Leaf(entry, p) # Leaf(entry', p) =>
                      \E c \in Clients : Busy(c) /\ call'[c] # call[c] /\ p \in Named(call[c])
           Kept2 == backend # "redis" => \A c \in Clients :
                      /\ entry.version # entry'.version
                      /\ Busy(c) /\ call[c].op = "update" /\ call'[c].pc # call[c].pc
                      => \A q \in Nulls(call[c].patch) : Under(q) \cap DOMAIN entry'.doc = {}
<1>1. ASSUME entry' = entry PROVE Kept1 /\ Kept2
  BY <1>1
<1>2. ASSUME IInv, NEW c \in Clients, Own(c) PROVE Kept1 /\ Kept2
  <2>1. /\ Busy(c) /\ call'[c] # call[c] /\ \A d \in Clients : d # c => call'[d] = call[d]
        /\ IsDoc(entry.doc) /\ backend \in Backends /\ call[c].patch \in Patches \cup {NoDoc}
    BY <1>2, BusyCall, EntryTypes DEF Own, IInv, TypeOK
  <2>2. CASE call[c].op \in {"add", "delete"}
    <3>1. Named(call[c]) = Paths
      BY <2>2 DEF Named
    <3> QED BY <2>1, <2>2, <3>1
  <2>3. CASE call[c].op = "increment"
    <3>1. Named(call[c]) = {Counter}
      BY <2>3 DEF Named
    <3>2. \A q \in Paths : q # Counter => Leaf(entry', q) = Leaf(entry, q)
      BY <1>2, <2>3 DEF Own
    <3> QED BY <2>1, <2>3, <3>1, <3>2
  <2>4. CASE call[c].op = "update"
    <3>1. Named(call[c]) = UNION {Under(q) : q \in DOMAIN call[c].patch}
      BY <2>4 DEF Named
    <3>2. entry'.doc = Merge(entry.doc, call[c].patch)
      BY <1>2, <2>1, <2>4, MergedFacts DEF Own
    <3>3. \A p \in Paths : p \notin Named(call[c]) =>
            /\ p \in DOMAIN entry'.doc <=> p \in DOMAIN entry.doc
            /\ p \in DOMAIN entry.doc => entry'.doc[p] = entry.doc[p]
      BY <2>1, <3>1, <3>2, MergeFacts
    <3>4. Kept1
      BY <2>1, <3>3 DEF Leaf
    <3>5. backend # "redis" => \A q \in Nulls(call[c].patch) : Under(q) \cap DOMAIN entry'.doc = {}
      BY <2>1, <3>2, MergeFacts
    <3> QED BY <2>1, <3>4, <3>5
  <2> QED BY <1>2, <2>2, <2>3, <2>4 DEF Own
<1>3. ASSUME IInv, [StoreNext]_<<vars, data>>, crashes' = crashes PROVE Kept1 /\ Kept2
  <2>1. CASE entry' = entry
    BY <1>1, <2>1
  <2>2. CASE entry' # entry
    <3>1. Next /\ crashes \in Nat
      BY <1>3, <2>2 DEF StoreNext, IndexCalls, DataCalls, index, vars, IInv, TypeOK
    <3>2. ~Crash
      BY <1>3, <3>1 DEF Crash
    <3>3. \E c \in Clients : ClientStep(c)
      BY <2>2, <3>1, <3>2 DEF Next, Begin
    <3> QED BY <1>2, <1>3, <2>2, <3>3, StepsAreOwn
  <2> QED BY <2>1, <2>2
<1>4. IInv /\ [StoreNext]_<<vars, data>> =>
        [crashes' = crashes => Kept1 /\ Kept2]_vars
  BY <1>3
<1> QED BY <1>4, StoreInv, PTL DEF StoreSpec, UpdatesDontOverwrite
================================================================================
