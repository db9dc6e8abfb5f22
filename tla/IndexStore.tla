----------------------------- MODULE IndexStore -----------------------------
(* One entry of a sorted index of the store (the metadata of a run, a flow or *)
(* a trigger) under concurrent calls of add, update, updateWithRetry,         *)
(* increment and delete, in the four store adapters: memory and file          *)
(* (memory-store.ts, file-store.ts), Redis and Postgres (adapter.ts).         *)
(*                                                                            *)
(* A document is a function from leaf paths to values: what the adapters      *)
(* flatten to hash fields, split into columns or keep as nested objects.      *)
(* A patch maps paths to "set" or "null"; a null below which there are leaves *)
(* is what unsubscribe sends to remove a subscription.  A leaf is 0 as it is   *)
(* created and 1 once a call has set it.  A call is cut where the adapter      *)
(* awaits its backend.                                                         *)
EXTENDS Naturals, Sequences, SequencesExt, FiniteSets, TLC

CONSTANTS Clients,     \* callers
          Backends,    \* adapters: subset of {"memory", "file", "redis", "postgres"}
          Paths,       \* leaf paths: sequences of names
          Counter,     \* the leaf that increment() counts
          Columns,     \* leaf paths that FIELD_MAPPINGS knows
          Patches,     \* the patches update() is called with
          Initial,     \* the leaves of a document given to add()
          MaxRetries,  \* attempts of updateWithRetry
          MaxCalls,    \* calls in a run
          MaxCrashes   \* stops of the process in a run

ASSUME StoreAssumption ==
  /\ Backends \subseteq {"memory", "file", "redis", "postgres"}
  /\ IsFiniteSet(Clients) /\ Paths \subseteq Seq(STRING)
  /\ \A patch \in Patches : \A q \in DOMAIN patch : patch[q] \in {"set", "null"}
  /\ Counter \in Paths /\ Columns \subseteq Paths
  /\ Counter \in Initial /\ Initial \subseteq Paths
  /\ MaxRetries \in Nat \ {0} /\ MaxCalls \in Nat /\ MaxCrashes \in Nat

VARIABLES
  backend,   \* the adapter, chosen once
  entry,     \* [listed, doc, version]: the id is in the sorted set, its leaves,
             \* its version
  lock,      \* memory, file: the client in indexLocks, or none
  disk,      \* file: what the index file holds
  call,      \* per client, the call in flight
  calls,     \* calls begun
  crashes,
  reset,     \* add, delete or a reload has replaced the counter
  returned,  \* increments that have returned
  overlapped \* two writes of the index file were in flight at a time

vars == <<backend, entry, lock, disk, call, calls, crashes, reset, returned, overlapped>>
history == <<calls, crashes, reset, returned>>

-----------------------------------------------------------------------------
NoClient == "none"
NoDoc == [p \in {} |-> 0]
Gone == [listed |-> FALSE, doc |-> NoDoc, version |-> 0]
OnDisk(e) == [torn |-> FALSE, entry |-> e]
Torn == [torn |-> TRUE, entry |-> Gone]

Idle == [pc |-> "idle"]
Busy(c) == call[c] # Idle
At(c, pc) == Busy(c) /\ call[c].pc = pc
Local == backend \in {"memory", "file"}

Under(q) == {p \in Paths : IsPrefix(q, p)}
Sets(patch) == {q \in DOMAIN patch : patch[q] = "set"}
Nulls(patch) == {q \in DOMAIN patch : patch[q] = "null"}
Overlay(doc, sets) == [p \in DOMAIN doc \cup sets |-> IF p \in sets THEN 1 ELSE doc[p]]
Onto(new, doc) ==
  [p \in DOMAIN new \cup DOMAIN doc |-> IF p \in DOMAIN new THEN new[p] ELSE doc[p]]
Without(doc, ps) == [p \in DOMAIN doc \ ps |-> doc[p]]

(* memory and file: defu, then the delete markers, each removing a subtree.   *)
MemoryMerge(doc, patch) ==
  Without(Overlay(doc, Sets(patch)), UNION {Under(q) : q \in Nulls(patch)})

(* Redis: HSET of the flattened leaves, HDEL of the fields named by the nulls.*)
RedisMerge(doc, patch) ==
  Without(Overlay(doc, Sets(patch)), Nulls(patch))

(* Postgres: fields without a column are dropped; jsonb_deep_merge removes a  *)
(* key with all that is under it.                                             *)
Mapped(ps) == ps \cap Columns

\* Faulty: columns are written as they are, not merged.
PostgresMergeColumns(doc, patch) ==
  LET Column(p) == {q \in Paths : Head(q) = Head(p)}
  IN  Overlay(Without(doc, UNION {Column(p) : p \in Mapped(Sets(patch))}), Mapped(Sets(patch)))

PostgresMerge(doc, patch) ==
  Without(Overlay(doc, Mapped(Sets(patch))), UNION {Under(q) : q \in Nulls(patch)})

Merge(doc, patch) ==
  CASE Local -> MemoryMerge(doc, patch)
    [] backend = "redis" -> RedisMerge(doc, patch)
    [] backend = "postgres" -> PostgresMerge(doc, patch)

Fresh == [p \in Initial |-> 0]

(* What add() leaves of a document that is there: memory replaces it, the     *)
(* others overlay the new leaves on it.                                       *)
AddedDoc(doc) ==
  CASE Local -> Fresh
    [] backend = "redis" -> Onto(Fresh, doc)
    [] backend = "postgres" -> Onto([p \in Mapped(Initial) |-> 0], doc)

AddedVersion ==
  IF backend = "postgres" /\ entry.listed THEN entry.version + 1 ELSE 0

Added(doc) == IF Counter \in DOMAIN doc THEN doc[Counter] + 1 ELSE 1
Counting(n, doc) == Onto([p \in {Counter} |-> n], doc)
Incremented(e) ==
  [e EXCEPT !.doc = Counting(Added(@), @), !.version = @ + 1]
Merged(e, patch) == [e EXCEPT !.doc = Merge(e.doc, patch), !.version = @ + 1]

-----------------------------------------------------------------------------
Init ==
  /\ backend \in Backends
  /\ entry = [listed |-> TRUE, doc |-> Fresh, version |-> 0]
  /\ lock = NoClient
  /\ disk = OnDisk(entry)
  /\ call = [c \in Clients |-> Idle]
  /\ calls = 0 /\ crashes = 0 /\ reset = FALSE /\ returned = 0 /\ overlapped = FALSE

Requests == {[op |-> "update", patch |-> p] : p \in Patches}
            \cup {[op |-> o, patch |-> NoDoc] : o \in {"increment", "add", "delete"}}

Begin(c) ==
  /\ ~Busy(c) /\ calls < MaxCalls
  /\ calls' = calls + 1
  /\ \E r \in Requests :
       call' = [call EXCEPT ![c] =
         [pc |-> IF Local /\ r.op \in {"update", "increment"} THEN "lock" ELSE "apply",
          op |-> r.op, patch |-> r.patch,
          version |-> 0, tries |-> 0, snapshot |-> Gone]]
  /\ UNCHANGED <<backend, entry, lock, disk, crashes, reset, returned, overlapped>>

Step(c, pc) == call' = [call EXCEPT ![c].pc = pc]

\* Faulty: the index file is not written.
AfterChangeUnsaved == "return"

(* After the change in memory the file adapter writes the index file.         *)
AfterChange == IF backend = "file" THEN "open" ELSE "return"

(* updateWithRetry gives up after MaxRetries attempts.                        *)
Retry(c) ==
  /\ call' = [call EXCEPT ![c] =
       [@ EXCEPT !.pc = IF call[c].tries + 1 < MaxRetries
                        THEN (IF Local THEN "lock" ELSE "apply") ELSE "thrown",
                 !.tries = call[c].tries + 1]]
  /\ UNCHANGED <<entry, reset>>

Change(c, e, pc) == entry' = e /\ Step(c, pc) /\ UNCHANGED reset

-----------------------------------------------------------------------------
(* memory and file: acquireIndexLock, then a change with no await in it.      *)
AcquireIndexLock(c) ==
  /\ At(c, "lock") /\ lock = NoClient
  /\ lock' = c /\ Step(c, "locked")
  /\ UNCHANGED <<backend, entry, disk, history, overlapped>>

LockedUpdate(c) ==
  /\ call[c].op = "update"
  /\ IF entry.listed
     THEN Change(c, Merged(entry, call[c].patch), AfterChange)
     ELSE Retry(c)

LockedIncrement(c) ==
  /\ call[c].op = "increment"
  /\ IF entry.listed
     THEN Change(c, Incremented(entry), AfterChange)
     ELSE Step(c, "thrown") /\ UNCHANGED <<entry, reset>>

\* Faulty: the lock of an entry that is not there is kept.
ReleaseIndexLockIfFound == lock' = IF entry.listed THEN NoClient ELSE lock

ReleaseIndexLock == lock' = NoClient

LockedChange(c) ==
  /\ At(c, "locked")
  /\ LockedUpdate(c) \/ LockedIncrement(c)
  /\ ReleaseIndexLock
  /\ UNCHANGED <<backend, disk, calls, crashes, returned, overlapped>>

(* add and delete of the memory adapter take no lock.                         *)
MemoryAddDelete(c) ==
  /\ Local /\ At(c, "apply")
  /\ \/ /\ call[c].op = "add"
        /\ entry' = [listed |-> TRUE, doc |-> AddedDoc(entry.doc),
                     version |-> AddedVersion]
        /\ Step(c, AfterChange)
     \/ /\ call[c].op = "delete"
        /\ entry' = Gone
        /\ Step(c, IF entry.listed THEN AfterChange ELSE "return")
  /\ reset' = TRUE
  /\ UNCHANGED <<backend, lock, disk, calls, crashes, returned, overlapped>>

(* fs.writeFile: the index is serialised and the file truncated, then written;*)
(* of two writes at a time either may be the last, or the longer one leaves   *)
(* its tail behind the shorter one.                                           *)
OpenFile(c) ==
  /\ At(c, "open")
  /\ call' = [call EXCEPT ![c] = [@ EXCEPT !.pc = "write", !.snapshot = entry]]
  /\ disk' = Torn
  /\ overlapped' = (overlapped \/ \E d \in Clients : At(d, "write"))
  /\ UNCHANGED <<backend, entry, lock, history>>

WriteFile(c) ==
  /\ At(c, "write")
  /\ \/ disk' = OnDisk(call[c].snapshot)
     \/ overlapped /\ disk' = Torn
  /\ Step(c, "return")
  /\ UNCHANGED <<backend, entry, lock, history, overlapped>>

-----------------------------------------------------------------------------
(* Redis: each command is atomic, a method is several.                        *)
Commit(c, e, pc) ==
  /\ entry' = e /\ Step(c, pc)
  /\ UNCHANGED <<backend, lock, disk, calls, crashes, returned, overlapped>>

RedisAdd(c) ==
  /\ backend = "redis" /\ Busy(c) /\ call[c].op = "add" /\ reset' = TRUE
  /\ \/ At(c, "apply") /\ Commit(c, [entry EXCEPT !.listed = TRUE], "hset")
     \/ At(c, "hset")
        /\ Commit(c, [entry EXCEPT !.doc = AddedDoc(@), !.version = AddedVersion],
                  "return")

RedisDelete(c) ==
  /\ backend = "redis" /\ Busy(c) /\ call[c].op = "delete" /\ reset' = TRUE
  /\ \/ At(c, "apply") /\ Commit(c, [entry EXCEPT !.listed = FALSE], "del")
     \/ At(c, "del")
        /\ Commit(c, [entry EXCEPT !.doc = NoDoc, !.version = 0], "return")

\* Faulty: a read and a write instead of HINCRBY.
RedisIncrementReadWrite(c) ==
  /\ backend = "redis" /\ Busy(c) /\ call[c].op = "increment" /\ UNCHANGED reset
  /\ \/ /\ At(c, "apply")
        /\ call' = [call EXCEPT ![c].pc = "bump", ![c].version = Added(entry.doc)]
        /\ UNCHANGED <<backend, entry, lock, disk, calls, crashes, returned, overlapped>>
     \/ /\ At(c, "bump")
        /\ Commit(c, [entry EXCEPT !.doc = Counting(call[c].version, @)], "return")

(* HINCRBY creates the hash of an entry that is not there.                    *)
RedisIncrement(c) ==
  /\ backend = "redis" /\ Busy(c) /\ call[c].op = "increment" /\ UNCHANGED reset
  /\ \/ At(c, "apply")
        /\ Commit(c, [entry EXCEPT !.doc = Counting(Added(@), @)], "bump")
     \/ At(c, "bump") /\ Commit(c, [entry EXCEPT !.version = @ + 1], "return")

-----------------------------------------------------------------------------
(* Postgres: each statement is atomic, and add, increment and delete are one. *)
PostgresAdd(c) ==
  /\ call[c].op = "add" /\ reset' = TRUE
  /\ Commit(c, [listed |-> TRUE, doc |-> AddedDoc(entry.doc),
                version |-> AddedVersion], "return")

PostgresDelete(c) == call[c].op = "delete" /\ reset' = TRUE /\ Commit(c, Gone, "return")

PostgresIncrement(c) ==
  /\ call[c].op = "increment" /\ UNCHANGED reset
  /\ IF entry.listed THEN Commit(c, Incremented(entry), "return")
     ELSE /\ Step(c, "thrown")
          /\ UNCHANGED <<backend, entry, lock, disk, calls, crashes, returned, overlapped>>

PostgresStatement(c) ==
  /\ backend = "postgres" /\ At(c, "apply")
  /\ PostgresAdd(c) \/ PostgresDelete(c) \/ PostgresIncrement(c)

(* Redis and Postgres: update reads the version, then writes if it is still   *)
(* the same (a Lua script, UPDATE ... WHERE version); updateWithRetry repeats.*)
Exists == entry.listed \/ (backend = "redis" /\ entry.doc # NoDoc)

ReadVersion(c) ==
  /\ ~Local /\ At(c, "apply") /\ call[c].op = "update"
  /\ IF backend = "postgres" /\ ~entry.listed THEN Retry(c)
     ELSE /\ call' = [call EXCEPT ![c] = [@ EXCEPT !.pc = "cas", !.version = entry.version]]
          /\ UNCHANGED <<entry, reset>>
  /\ UNCHANGED <<backend, lock, disk, calls, crashes, returned, overlapped>>

CompareAndSet(c) ==
  /\ At(c, "cas")
  /\ IF Exists /\ entry.version = call[c].version
     THEN Change(c, Merged(entry, call[c].patch), "return")
     ELSE Retry(c)
  /\ UNCHANGED <<backend, lock, disk, calls, crashes, returned, overlapped>>

-----------------------------------------------------------------------------
Return(c) ==
  /\ At(c, "return") \/ At(c, "thrown")
  /\ call' = [call EXCEPT ![c] = Idle]
  /\ returned' = IF At(c, "return") /\ call[c].op = "increment"
                 THEN returned + 1 ELSE returned
  /\ UNCHANGED <<backend, entry, lock, disk, calls, crashes, reset, overlapped>>

(* The process stops: memory is lost, the file adapter loads its file (a torn *)
(* one loads nothing), Redis and Postgres keep what they have.                *)
LoadFromDisk == IF disk.torn THEN Gone ELSE disk.entry

Crash ==
  /\ crashes < MaxCrashes
  /\ crashes' = crashes + 1
  /\ entry' = CASE backend = "memory" -> Gone
                [] backend = "file" -> LoadFromDisk
                [] OTHER -> entry
  /\ lock' = NoClient
  /\ call' = [c \in Clients |-> Idle]
  /\ reset' = TRUE
  /\ UNCHANGED <<backend, disk, calls, returned, overlapped>>

ClientStep(c) ==
  \/ AcquireIndexLock(c) \/ LockedChange(c) \/ MemoryAddDelete(c)
  \/ OpenFile(c) \/ WriteFile(c)
  \/ RedisAdd(c) \/ RedisDelete(c) \/ RedisIncrement(c)
  \/ PostgresStatement(c) \/ ReadVersion(c) \/ CompareAndSet(c)
  \/ Return(c)

Next == Crash \/ \E c \in Clients : Begin(c) \/ ClientStep(c)

Spec == Init /\ [][Next]_vars

(* The backend answers every command; a waiter of the index lock is resumed   *)
(* when it is released, and may find it taken again.                          *)
FairSpec == Spec /\ \A c \in Clients : SF_vars(ClientStep(c))

-----------------------------------------------------------------------------
(* Types, and what the properties rest on.                                    *)

IsDoc(doc) == doc \in [DOMAIN doc -> Nat]
IsEntry(e) == e \in [listed : BOOLEAN, doc : {e.doc}, version : Nat] /\ IsDoc(e.doc)

PCs == {"lock", "locked", "apply", "open", "write", "hset", "del", "bump", "cas", "return", "thrown"}
Ops == {"update", "increment", "add", "delete"}
IsCall(k) ==
  /\ k \in [pc : PCs, op : Ops, patch : Patches \cup {NoDoc}, version : Nat, tries : Nat,
            snapshot : {k.snapshot}]
  /\ IsEntry(k.snapshot)

TypeOK ==
  /\ backend \in Backends /\ IsEntry(entry)
  /\ disk \in [torn : BOOLEAN, entry : {disk.entry}] /\ IsEntry(disk.entry)
  /\ DOMAIN call = Clients /\ \A c \in Clients : call[c] = Idle \/ IsCall(call[c])
  /\ reset \in BOOLEAN /\ overlapped \in BOOLEAN /\ returned \in Nat /\ crashes \in Nat

\* The steps of a call are those of its adapter.
StepsOfBackend ==
  \A c \in Clients :
    /\ At(c, "lock") \/ At(c, "locked") => Local
    /\ At(c, "open") \/ At(c, "write") => backend = "file"
    /\ At(c, "cas") => ~Local /\ call[c].op = "update"

\* Increments that have counted and not returned.
Applied ==
  {c \in Clients : /\ Busy(c) /\ call[c].op = "increment"
                   /\ call[c].pc \in {"open", "write", "bump", "return"}}

Counted ==
  ~reset => /\ entry.listed /\ Counter \in DOMAIN entry.doc
            /\ entry.doc[Counter] = returned + Cardinality(Applied)

\* In memory an entry that is not listed has nothing.
WholeEntry(e) == Local /\ ~e.listed => e = Gone
WholeEntries ==
  /\ WholeEntry(entry) /\ WholeEntry(disk.entry)
  /\ \A c \in Clients : Busy(c) => WholeEntry(call[c].snapshot)

\* What the index file lacks, a write that was begun or is due will bring.
Saving(c) == At(c, "write") /\ call[c].snapshot = entry
FileFollows ==
  backend = "file" /\ ~overlapped =>
    /\ \A c, d \in Clients : At(c, "write") /\ At(d, "write") => c = d
    /\ \/ \E c \in Clients : At(c, "open") \/ Saving(c)
       \/ LoadFromDisk = entry /\ \A c \in Clients : ~At(c, "write")

-----------------------------------------------------------------------------
(* Properties                                                                 *)

Named(r) == CASE r.op = "update" -> UNION {Under(q) : q \in DOMAIN r.patch}
              [] r.op = "increment" -> {Counter}
              [] OTHER -> Paths
Leaf(e, p) == IF p \in DOMAIN e.doc THEN {e.doc[p]} ELSE {}

(* interfaces/store.ts: concurrent updates must not overwrite each other.  A  *)
(* call changes no leaf but those its own patch names, in every adapter, and a*)
(* null in an update removes what is under it (triggerWiring.ts: "null removes*)
(* the field"), in every adapter but Redis, which deletes the hash field of   *)
(* exactly that name.                                                         *)
UpdatesDontOverwrite ==
  [][crashes' = crashes =>
       /\ \A p \in Paths : Leaf(entry, p) # Leaf(entry', p) =>
            \E c \in Clients : Busy(c) /\ call'[c] # call[c] /\ p \in Named(call[c])
       /\ backend # "redis" => \A c \in Clients :
            /\ entry.version # entry'.version
            /\ Busy(c) /\ call[c].op = "update" /\ call'[c].pc # call[c].pc
            => \A q \in Nulls(call[c].patch) : Under(q) \cap DOMAIN entry'.doc = {}]_vars

(* Atomic increments: while nobody replaces the entry, the counter is the     *)
(* number of increments that have returned, once none is in flight.           *)
CountersExact ==
  ~reset /\ (\A c \in Clients : Busy(c) => call[c].op # "increment")
    => entry.doc[Counter] = returned

(* file: when no call is in flight the index file is the index, unless two    *)
(* writes of it overlapped (every method writes the whole index, unordered).  *)
DiskCatchesUp ==
  backend = "file" /\ ~overlapped /\ (\A c \in Clients : ~Busy(c))
    => LoadFromDisk = entry

(* Every call returns or throws: nobody waits for the index lock for ever.    *)
CallsReturn == \A c \in Clients : Busy(c) ~> ~Busy(c)
=============================================================================
