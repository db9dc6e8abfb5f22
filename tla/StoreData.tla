------------------------------ MODULE StoreData ------------------------------
(* The event streams and the key-values of the store in its four adapters,    *)
(* beside the index (IndexStore): append, read and delete of a stream; set,   *)
(* delete, increment and clear of keys, which is how steps keep the state of  *)
(* a run and the state wiring removes it (stateWiring.ts).  The index, the    *)
(* streams and the keys share the process only, so a behaviour has calls of   *)
(* one kind or of the other.                                                  *)
(*                                                                            *)
(* An item is a stream or a key: <<"stream" or "kv", its name>>.  A name is a *)
(* sequence of words and separators, because the file adapter writes ":" as   *)
(* "_" in the names of its files and reads every "_" back as ":".             *)
(* The expiry of keys, the limit of Redis streams (trim) and the subscriptions*)
(* of the memory adapter, which nobody uses, are left out.                    *)
EXTENDS IndexStore

CONSTANTS Streams,     \* names of streams
          Keys,        \* names of keys
          RunPrefix,   \* what the state wiring's pattern has before its "*"
          EventTypes,  \* types of events
          Queries,     \* options that streams are read with
          Increments,  \* adapters on which kv.increment is called
          ReadLimit,   \* limit of a read without one on Redis and Postgres (1000)
          Ahead        \* [caller -> how far the clock of its process is ahead]

ASSUME DataAssumption ==
  /\ ReadLimit \in Nat /\ Ahead \in [Clients -> Nat]
  /\ Increments \subseteq Backends \ {"postgres"}
  /\ \A q \in Queries : q.types \subseteq EventTypes /\ q.limit \in Nat /\ q.desc \in BOOLEAN

VARIABLES
  part,      \* "index" or "data": which calls this behaviour has
  content,   \* [item -> events of the stream; value of the key, 0 if there is none]
  files,     \* file adapter: [file -> what is in it]; a key's file may be torn
  request,   \* [client -> the call it has in flight]
  told,      \* [item -> the content that the calls that returned amount to]
  shared     \* [item -> the calls that overlapped on it: "none", "appends" or "any"]

data == <<part, content, files, request, told, shared>>
index == <<backend, entry, lock, disk, call, reset, returned, overlapped>>

-----------------------------------------------------------------------------
Items == ({"stream"} \X Streams) \cup ({"kv"} \X Keys)
IsStream(i) == i[1] = "stream"
Empty(i) == IF IsStream(i) THEN <<>> ELSE 0
TornFile == 99

Swapped(name, from, to) == [n \in DOMAIN name |-> IF name[n] = from THEN to ELSE name[n]]
Sanitize(name) == Swapped(name, ":", "_")

\* Faulty: the name of the file is taken as it is.
UnsanitizeNot(name) == name

Unsanitize(name) == Swapped(name, "_", ":")

FileOf(i) == <<i[1], Sanitize(i[2])>>
ItemOf(f) == <<f[1], Unsanitize(f[2])>>
Files == {FileOf(i) : i \in Items}

\* The keys that clear("flow:<run>:*") removes.
Clears(i) == ~IsStream(i) /\ IsPrefix(RunPrefix, i[2])

-----------------------------------------------------------------------------
(* Reading a stream.  A limit of 0 is none.                                   *)

OfTypes(events, types) ==
  IF types = {} THEN events ELSE SelectSeq(events, LAMBDA e : e.type \in types)
Ordered(events, desc) == IF desc THEN Reverse(events) ELSE events
First(events, limit) == SubSeq(events, 1, IF limit < Len(events) THEN limit ELSE Len(events))

MemoryRead(events, q) ==
  LET found == Ordered(OfTypes(events, q.types), q.desc)
  IN  IF q.limit = 0 THEN found ELSE First(found, q.limit)

LimitOf(q) == IF q.limit = 0 THEN ReadLimit ELSE q.limit

\* XRANGE or XREVRANGE with COUNT, and of what they give the types.
RedisRead(events, q) == OfTypes(First(Ordered(events, q.desc), LimitOf(q)), q.types)

\* ORDER BY ts, id.
ByTime(events) ==
  SortSeq(events, LAMBDA d, e : d.ts < e.ts \/ (d.ts = e.ts /\ d.id < e.id))
PostgresRead(events, q) ==
  First(Ordered(OfTypes(ByTime(events), q.types), q.desc), LimitOf(q))

Read(events, q) ==
  CASE Local -> MemoryRead(events, q)
    [] backend = "redis" -> RedisRead(events, q)
    [] backend = "postgres" -> PostgresRead(events, q)

-----------------------------------------------------------------------------
(* The calls.                                                                 *)

NoRequest == [pc |-> "idle", op |-> "none", items |-> {}, event |-> <<>>, value |-> 0]
Calling(c) == request[c] # NoRequest
On(i) == {c \in Clients : i \in request[c].items}

\* What a call makes of an item.
Effect(r, old) ==
  CASE r.op = "append" -> old \o r.event
    [] r.op = "set" -> r.value
    [] r.op = "increment" -> old + 1
    [] r.op = "deleteStream" -> <<>>
    [] r.op \in {"delete", "clear"} -> 0

\* Calls in flight that one on items, op, of which i is an item, overlaps with.  On the
\* file adapter a clear unlinks the files of a run one after the other, and may stop
\* at any of them.
Beside(i, op) ==
  IF backend = "file" /\ Clears(i) /\ (op = "clear" \/ \E d \in Clients : request[d].op = "clear")
  THEN UNION {On(j) : j \in {k \in Items : Clears(k)}}
  ELSE On(i)

\* What has overlapped on an item when a call op of it begins.
Overlaps(i, op) ==
  LET ops == {request[c].op : c \in Beside(i, op)}
  IN  CASE ops = {} /\ (op = "append" \/ shared[i] = "none") -> shared[i]
        [] ops \cup {op} = {"append"} /\ shared[i] # "any" -> "appends"
        [] OTHER -> "any"

Call(c, op, items, event, value) ==
  /\ ~Calling(c) /\ calls < MaxCalls
  /\ calls' = calls + 1
  /\ request' = [request EXCEPT ![c] =
       [pc |-> "apply", op |-> op, items |-> items, event |-> event, value |-> value]]
  /\ shared' = [i \in Items |->
       IF i \in items \/ \E j \in items : Clears(i) /\ Clears(j) THEN Overlaps(i, op) ELSE shared[i]]
  /\ UNCHANGED <<content, files, told, crashes>>

\* The adapter takes the event's time from the clock of its process.
AppendEvent(c) ==
  \E s \in Streams, type \in EventTypes :
    Call(c, "append", {<<"stream", s>>},
         <<[id |-> calls, type |-> type, ts |-> calls + Ahead[c]]>>, 0)

DeleteStream(c) == \E s \in Streams : Call(c, "deleteStream", {<<"stream", s>>}, <<>>, 0)

\* ctx.state of a step.
ChangeState(c) ==
  \E k \in Keys :
    \/ Call(c, "set", {<<"kv", k>>}, <<>>, calls + 1)
    \/ Call(c, "delete", {<<"kv", k>>}, <<>>, 0)
    \/ backend \in Increments /\ Call(c, "increment", {<<"kv", k>>}, <<>>, 0)

\* The state wiring, at the end of the run or of a step of it.
CleanUp(c) == Call(c, "clear", {i \in Items : Clears(i)}, <<>>, 0)

Settle == UNCHANGED <<shared, calls, crashes>>
Continue(r, c) == request' = [request EXCEPT ![c] = r] /\ UNCHANGED told

Finish(c) ==
  /\ request' = [request EXCEPT ![c] = NoRequest]
  /\ told' = [i \in Items |->
       IF i \in request[c].items THEN Effect(request[c], told[i]) ELSE told[i]]

\* The item of a call that has one.
The(c) == CHOOSE i \in request[c].items : TRUE

\* What the file adapter does after the change in memory.
AfterApply(c) ==
  CASE backend # "file" -> "return"
    [] request[c].op = "deleteStream" /\ content[The(c)] = <<>> -> "return"
    [] request[c].op \in {"set", "increment"} -> "truncate"
    [] request[c].op = "clear" -> "readdir"
    [] OTHER -> "file"

Changed(c) ==
  [i \in Items |-> IF i \in request[c].items THEN Effect(request[c], content[i]) ELSE content[i]]

\* memory and file: the change in memory, with no await in it.
ChangeMemory(c) ==
  /\ Local /\ request[c].pc = "apply"
  /\ content' = Changed(c)
  /\ IF AfterApply(c) = "return" THEN Finish(c)
     ELSE Continue([request[c] EXCEPT !.pc = AfterApply(c),
            !.value = IF request[c].op = "increment" THEN content'[The(c)] ELSE @], c)
  /\ UNCHANGED files /\ Settle

\* One command each.  kv.increment counts in a hash named by all of the key but its
\* last part, which get() does not read.
RedisCommand(c) ==
  /\ backend = "redis" /\ request[c].pc = "apply" /\ request[c].op # "clear"
  /\ content' = IF request[c].op = "increment" THEN content ELSE Changed(c)
  /\ Finish(c)
  /\ UNCHANGED files /\ Settle

PostgresQuery(c) ==
  /\ backend = "postgres" /\ request[c].pc = "apply"
  /\ content' = Changed(c)
  /\ Finish(c)
  /\ UNCHANGED files /\ Settle

\* Redis scans for the keys to clear, and then deletes those.
ScanKeys(c) ==
  /\ request[c].pc = "apply" /\ backend = "redis" /\ request[c].op = "clear"
  /\ Continue([request[c] EXCEPT !.pc = "del", !.items = {i \in @ : content[i] # 0}], c)
  /\ UNCHANGED <<content, files>> /\ Settle

DeleteKeys(c) ==
  /\ request[c].pc = "del"
  /\ content' = [i \in Items |-> IF i \in request[c].items THEN 0 ELSE content[i]]
  /\ Finish(c)
  /\ UNCHANGED files /\ Settle

-----------------------------------------------------------------------------
(* The file adapter: what is done after the change in memory.                 *)

FilesOf(c) == {FileOf(i) : i \in request[c].items}

\* appendFile adds a line; unlink removes the file.
ChangeFile(c) ==
  /\ request[c].pc = "file"
  /\ files' = [f \in Files |->
       IF f \in FilesOf(c) THEN Effect(request[c], files[f]) ELSE files[f]]
  /\ Finish(c)
  /\ UNCHANGED content /\ Settle

\* writeFile truncates the file and then writes the value.
Truncate(c) ==
  /\ request[c].pc = "truncate"
  /\ files' = [f \in Files |-> IF f \in FilesOf(c) THEN TornFile ELSE files[f]]
  /\ Continue([request[c] EXCEPT !.pc = "write"], c)
  /\ UNCHANGED content /\ Settle

WriteValue(c) ==
  /\ request[c].pc = "write"
  /\ files' = [f \in Files |-> IF f \in FilesOf(c) THEN request[c].value ELSE files[f]]
  /\ Finish(c)
  /\ UNCHANGED content /\ Settle

\* clear lists the directory and unlinks the files it found one by one; a file that
\* has gone meanwhile ends it.
ListFiles(c) ==
  /\ request[c].pc = "readdir"
  /\ Continue([request[c] EXCEPT !.pc = "unlink",
       !.event = {f \in Files : f[1] = "kv" /\ files[f] # 0 /\ Clears(ItemOf(f))}], c)
  /\ UNCHANGED <<content, files>> /\ Settle

UnlinkNext(c) ==
  /\ request[c].pc = "unlink"
  /\ \/ request[c].event = {} /\ Finish(c) /\ UNCHANGED files
     \/ \E f \in request[c].event :
          IF files[f] = 0 THEN Finish(c) /\ UNCHANGED files
          ELSE /\ files' = [files EXCEPT ![f] = 0]
               /\ Continue([request[c] EXCEPT !.event = @ \ {f}], c)
  /\ UNCHANGED content /\ Settle

-----------------------------------------------------------------------------
(* The process stops.  Memory is lost; the file adapter loads its files, in   *)
(* the order of the directory, and the first value that does not parse ends   *)
(* the loading of values.  A call in flight may have had its effect.          *)
Loadable == {f \in Files : f[1] = "kv" => files[f] # TornFile}
IsTorn == Loadable # Files

LoadFiles(loaded) ==
  content' = [i \in Items |->
    IF \E f \in loaded : ItemOf(f) = i
    THEN files[CHOOSE f \in loaded : ItemOf(f) = i] ELSE Empty(i)]

StopData ==
  /\ crashes < MaxCrashes
  /\ crashes' = crashes + 1
  /\ CASE backend = "memory" -> content' = [i \in Items |-> Empty(i)]
       [] backend = "file" ->
            \E skipped \in SUBSET {f \in Loadable : IsTorn /\ f[1] = "kv"} :
              LoadFiles(Loadable \ skipped)
       [] OTHER -> UNCHANGED content
  /\ told' = [i \in Items |->
       IF backend = "memory" THEN Empty(i)
       ELSE IF \E c \in On(i) : content'[i] = Effect(request[c], told[i]) THEN content'[i]
       ELSE told[i]]
  /\ shared' = [i \in Items |->
       IF backend = "memory" THEN "none" ELSE IF IsTorn /\ ~IsStream(i) THEN "any" ELSE shared[i]]
  /\ request' = [c \in Clients |-> NoRequest]
  /\ UNCHANGED <<files, calls>>

-----------------------------------------------------------------------------
DataInit ==
  /\ Init /\ part \in {"index", "data"}
  /\ content = [i \in Items |-> Empty(i)]
  /\ files = [f \in Files |-> Empty(f)]
  /\ request = [c \in Clients |-> NoRequest]
  /\ told = content
  /\ shared = [i \in Items |-> "none"]

DataStep(c) ==
  \/ AppendEvent(c) \/ DeleteStream(c) \/ ChangeState(c) \/ CleanUp(c)
  \/ ChangeMemory(c) \/ RedisCommand(c) \/ ScanKeys(c) \/ DeleteKeys(c) \/ PostgresQuery(c)
  \/ ChangeFile(c) \/ Truncate(c) \/ WriteValue(c) \/ ListFiles(c) \/ UnlinkNext(c)

IndexCalls == part = "index" /\ Next /\ UNCHANGED data
DataCalls ==
  /\ part = "data"
  /\ StopData \/ \E c \in Clients : DataStep(c)
  /\ UNCHANGED <<part, index>>

StoreNext == IndexCalls \/ DataCalls

StoreSpec ==
  /\ DataInit /\ [][StoreNext]_<<vars, data>>
  /\ \A c \in Clients : SF_<<vars, data>>(ClientStep(c) /\ UNCHANGED data)

-----------------------------------------------------------------------------
(* Properties                                                                 *)

\* The content that the calls amount to, with or without the one in flight.
Possible(i) == {told[i]} \cup {Effect(request[c], told[i]) : c \in On(i)}

(* interfaces/store.ts: what a call has stored is what is read, by every       *)
(* adapter alike and again after a restart of the file adapter.  Of calls that*)
(* overlapped on an item nothing is promised but that no event is lost when   *)
(* all were appends.  Names with "_" are read back as others.                 *)
Kept ==
  \A i \in Items : "_" \notin ToSet(i[2]) =>
    /\ shared[i] = "none" =>
         \E s \in Possible(i) :
           IF IsStream(i) THEN \A q \in Queries : Read(content[i], q) = MemoryRead(s, q)
           ELSE content[i] = s
    /\ shared[i] = "appends" => ToSet(told[i]) \subseteq ToSet(content[i])
=============================================================================
