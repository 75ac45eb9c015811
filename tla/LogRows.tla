------------------------------ MODULE LogRows ------------------------------
(***************************************************************************)
(* The log store's database and the three parties that write to it: the    *)
(* writer goroutine, which commits batches and runs the retention sweep,   *)
(* the sync loop, which records and retires container generations, and a   *)
(* purge called by the API (internal/logstore: ingest.go, janitor.go,      *)
(* purge.go, and the statements of sync.go).                               *)
(*                                                                         *)
(* The writer caches the row id of every generation it has met.  SQLite    *)
(* hands a deleted row's id out again, so the cache must never outlive the *)
(* row.  Every transaction takes SQLite's write lock when it begins        *)
(* (_txlock=immediate) and works on tx until it commits.  A line is named  *)
(* by the order in which it was inserted, which stands for its timestamp.  *)
(***************************************************************************)
EXTENDS Naturals, Sequences, FiniteSets, FiniteSetsExt

CONSTANTS
    Keys,           \* engine containers, one per generation
    Names,          \* names of logical containers
    NameOf,         \* name of each key
    NoKey, NoName,  \* the absence of a key and of a name
    MaxId,          \* bound of the model: row ids
    MaxLines,       \* bound of the model: lines inserted
    Size,           \* bytes of each line
    PerCap,         \* cap of one logical container, in bytes
    TotalCap,       \* cap of the store
    DeleteChunk,    \* most lines one eviction deletes
    MaxTrimRounds,  \* most evictions of one global trim
    BatchLines,     \* most messages in one batch
    Misses,         \* whether a listing may miss a container that will log again
    MaxFailures,    \* bound of the model: failed transactions
    MaxPurges       \* bound of the model: purges

Ids == 1 .. MaxId

ASSUME NamesAssumption ==
    NameOf \in [Keys -> Names] /\ NoKey \notin Keys /\ NoName \notin Names /\ IsFiniteSet(Names)
ASSUME SizesAssumption ==
    /\ MaxId \in Nat /\ MaxLines \in Nat /\ Size \in [1 .. MaxLines -> Nat \ {0}]
    /\ PerCap \in Nat /\ TotalCap \in Nat /\ DeleteChunk \in Nat \ {0} /\ MaxTrimRounds \in Nat
    /\ BatchLines \in Nat \ {0} /\ Misses \in BOOLEAN /\ MaxFailures \in Nat /\ MaxPurges \in Nat

VARIABLES
    db,             \* the committed database
    tx,             \* what the transaction holding the write lock sees, else db
    lock,           \* "free", "writer", "purge"
    (* the writer goroutine *)
    writer,         \* "idle", "writing", or a phase of a sweep: "groups", "total", "prune"
    batch,          \* messages of the batch still to be written
    refs,           \* cache of row ids, 0 for none
    fresh,          \* ids the transaction has discovered
    (* a sweep: its groups as loaded, with the bytes it believes they hold *)
    groups,         \* ids of each name
    est,            \* bytes of each name
    settled,        \* names whose trimming found nothing more to evict
    pick,           \* the group chosen for the next round, if any
    round,
    (* the purge in progress *)
    purge,          \* "none", "deleted", "published"
    purged,         \* the keys it deletes
    invalidated,    \* keys published to the writer and not yet dropped
    (* environment, history and bounds *)
    ended,          \* containers that will neither be listed nor log again
    disturbed,      \* a purge has committed since the sweep loaded its groups
    inserted, failures, purges

sweep  == <<groups, est, settled, pick, round, disturbed>>
purging == <<purge, purged>>
bounds == <<inserted, failures, purges>>
vars == <<db, tx, lock, writer, batch, refs, fresh, sweep, purging, invalidated, ended, bounds>>

NoRefs == [k \in Keys |-> 0]
Message == [of : Keys, kind : {"line", "done"}]
StoredLine == [ts : 1 .. MaxLines, ref : Ids, of : Keys]
Database == [gen : [Ids -> Keys \union {NoKey}], removed : SUBSET Ids,
             bytes : [Ids -> Nat], lines : SUBSET StoredLine]

SizeOf(lines) == MapThenSumSet(LAMBDA l : Size[l.ts], lines)
LinesIn(d, ids) == {l \in d.lines : l.ref \in ids}
LiveIdsOf(d, n) == {i \in Ids \ d.removed : d.gen[i] # NoKey /\ NameOf[d.gen[i]] = n}
IdsOf(d, n) == {i \in Ids : d.gen[i] # NoKey /\ NameOf[d.gen[i]] = n}
BytesOf(d, ids) == MapThenSumSet(LAMBDA i : d.bytes[i], ids)

(***************************************************************************)
(* The row of a generation.                                                *)
(***************************************************************************)
HasRow(d, k) == \E i \in Ids : d.gen[i] = k
RowId(d, k) == CHOOSE i \in Ids : d.gen[i] = k

\* SQLite: one more than the largest id in use.
NextId(d) == 1 + Max({0} \union {i \in Ids : d.gen[i] # NoKey})

\* INSERT ... ON CONFLICT(host, container_id) DO UPDATE ... RETURNING id
UpsertId(d, k) == IF HasRow(d, k) THEN RowId(d, k) ELSE NextId(d)
WithRow(d, k) ==
    IF HasRow(d, k) THEN d ELSE [d EXCEPT !.gen[NextId(d)] = k, !.bytes[NextId(d)] = 0]

WithoutRows(d, ids) ==
    [gen     |-> [i \in Ids |-> IF i \in ids THEN NoKey ELSE d.gen[i]],
     removed |-> d.removed \ ids,
     bytes   |-> [i \in Ids |-> IF i \in ids THEN 0 ELSE d.bytes[i]],
     lines   |-> d.lines \ LinesIn(d, ids)]

\* A statement outside a transaction commits by itself.
Autocommit(d) == lock = "free" /\ db' = d /\ tx' = d

(***************************************************************************)
(* The sync loop.                                                          *)
(***************************************************************************)
UpsertMeta(k) ==
    /\ k \notin ended
    /\ NextId(db) <= MaxId \/ HasRow(db, k)
    /\ Autocommit([WithRow(db, k) EXCEPT !.removed = @ \ {UpsertId(db, k)}])
    /\ UNCHANGED <<lock, writer, batch, refs, fresh, sweep, purging, invalidated, ended, bounds>>

\* A container missing from the listing: its host is no longer configured, it
\* was created after the listing, or it is gone for good.
MarkRemoved(k) ==
    /\ Misses \/ k \in ended
    /\ HasRow(db, k)
    /\ Autocommit([db EXCEPT !.removed = @ \union {RowId(db, k)}])
    /\ UNCHANGED <<lock, writer, batch, refs, fresh, sweep, purging, invalidated, ended, bounds>>

\* The engine has removed the container and nothing of it is left to write.
End(k) ==
    /\ HasRow(db, k)
    /\ \A j \in 1 .. Len(batch) : batch[j].of # k
    /\ ended' = ended \union {k}
    /\ UNCHANGED <<db, tx, lock, writer, batch, refs, fresh, sweep, purging, invalidated, bounds>>

(***************************************************************************)
(* commit.  The keys invalidated by purges leave the cache once the write  *)
(* lock is held.                                                           *)
(***************************************************************************)
KeptRefs == [k \in Keys |-> IF k \in invalidated THEN 0 ELSE refs[k]]

BeginDeferred(messages) ==
    /\ writer = "idle"
    /\ \A j \in 1 .. Len(messages) : messages[j].of \notin ended
    /\ writer' = "writing" /\ lock' = "writer"
    /\ batch' = messages
    /\ refs' = KeptRefs
    /\ invalidated' = {}
    /\ UNCHANGED <<db, tx, fresh, sweep, purging, ended, bounds>>

Begin(messages) ==
    /\ writer = "idle" /\ lock = "free"
    /\ \A j \in 1 .. Len(messages) : messages[j].of \notin ended
    /\ writer' = "writing" /\ lock' = "writer"
    /\ batch' = messages
    /\ refs' = KeptRefs
    /\ invalidated' = {}
    /\ UNCHANGED <<db, tx, fresh, sweep, purging, ended, bounds>>

Known(k) == IF refs[k] # 0 THEN refs[k] ELSE fresh[k]

\* The database after the row a message needs has been looked up or upserted.
Resolved(k) == IF Known(k) # 0 THEN tx ELSE WithRow(tx, k)
Ref(k) == IF Known(k) # 0 THEN Known(k) ELSE UpsertId(tx, k)

\* The foreign key of log_lines refuses a row that does not exist.
Refused(m) == m.kind = "line" /\ Resolved(m.of).gen[Ref(m.of)] = NoKey

Filed(d, ref, k) ==
    [d EXCEPT !.lines = @ \union {[ts |-> inserted + 1, ref |-> ref, of |-> k]},
              !.bytes[ref] = @ + Size[inserted + 1]]

Write ==
    /\ writer = "writing" /\ batch # << >>
    /\ LET m == Head(batch)
       IN  /\ Ref(m.of) <= MaxId
           /\ ~Refused(m)
           /\ fresh' = [fresh EXCEPT ![m.of] = IF refs[m.of] = 0 THEN Ref(m.of) ELSE @]
           /\ IF m.kind = "line"
                THEN /\ inserted < MaxLines
                     /\ inserted' = inserted + 1
                     /\ tx' = Filed(Resolved(m.of), Ref(m.of), m.of)
                ELSE /\ tx' = Resolved(m.of)
                     /\ UNCHANGED inserted
    /\ batch' = Tail(batch)
    /\ UNCHANGED <<db, lock, writer, refs, sweep, purging, invalidated, ended, failures, purges>>

\* The ids are real only now.
Commit ==
    /\ writer = "writing" /\ batch = << >>
    /\ db' = tx
    /\ refs' = [k \in Keys |-> IF fresh[k] # 0 THEN fresh[k] ELSE refs[k]]
    /\ fresh' = NoRefs
    /\ writer' = "idle" /\ lock' = "free"
    /\ UNCHANGED <<tx, batch, sweep, purging, invalidated, ended, bounds>>

RollbackKeepsIds ==
    /\ tx' = db
    /\ batch' = << >>
    /\ refs' = [k \in Keys |-> IF fresh[k] # 0 THEN fresh[k] ELSE refs[k]]
    /\ fresh' = NoRefs
    /\ writer' = "idle" /\ lock' = "free"
    /\ UNCHANGED <<db, sweep, purging, invalidated, ended, inserted, purges>>

Rollback ==
    /\ tx' = db
    /\ batch' = << >>
    /\ fresh' = NoRefs
    /\ writer' = "idle" /\ lock' = "free"
    /\ UNCHANGED <<db, refs, sweep, purging, invalidated, ended, inserted, purges>>

\* A statement fails, or COMMIT does.
Refusing == batch # << >> /\ Ref(Head(batch).of) <= MaxId /\ Refused(Head(batch))
CommitFails ==
    /\ writer = "writing"
    /\ Refusing \/ failures < MaxFailures
    /\ failures' = failures + (IF Refusing THEN 0 ELSE 1)
    /\ Rollback

(***************************************************************************)
(* DeleteContainer: the deletion, its publication to the writer, COMMIT.   *)
(***************************************************************************)
PurgeBegin(n) ==
    /\ lock = "free"
    /\ IdsOf(db, n) # {}
    /\ purges < MaxPurges
    /\ purges' = purges + 1
    /\ lock' = "purge"
    /\ purge' = "deleted"
    /\ purged' = {db.gen[i] : i \in IdsOf(db, n)}
    /\ tx' = WithoutRows(db, IdsOf(db, n))
    /\ UNCHANGED <<db, writer, batch, refs, fresh, sweep, invalidated, ended, inserted, failures>>

PurgePublish ==
    /\ purge = "deleted"
    /\ purge' = "published"
    /\ invalidated' = invalidated \union purged
    /\ UNCHANGED <<db, tx, lock, writer, batch, refs, fresh, sweep, purged, ended, bounds>>

PurgeCommitUnpublished ==
    /\ purge = "deleted"
    /\ db' = tx
    /\ purge' = "none" /\ purged' = {}
    /\ lock' = "free"
    /\ disturbed' = (writer \in {"groups", "total", "prune"})
    /\ UNCHANGED <<tx, writer, batch, refs, fresh, groups, est, settled, pick, round, invalidated, ended, bounds>>

PurgeCommit ==
    /\ purge = "published"
    /\ db' = tx
    /\ purge' = "none" /\ purged' = {}
    /\ lock' = "free"
    /\ disturbed' = (writer \in {"groups", "total", "prune"})
    /\ UNCHANGED <<tx, writer, batch, refs, fresh, groups, est, settled, pick, round, invalidated, ended, bounds>>

PurgeFails ==
    /\ purge # "none"
    /\ failures < MaxFailures
    /\ failures' = failures + 1
    /\ tx' = db
    /\ purge' = "none" /\ purged' = {}
    /\ lock' = "free"
    /\ UNCHANGED <<db, writer, batch, refs, fresh, sweep, invalidated, ended, inserted, purges>>

(***************************************************************************)
(* retain, on the writer goroutine between batches.  Each eviction is a    *)
(* transaction of its own; the groups and their bytes are loaded once.     *)
(***************************************************************************)
SweepBegin ==
    /\ writer = "idle"
    /\ writer' = "groups"
    /\ groups' = [n \in Names |-> IdsOf(db, n)]
    /\ est' = [n \in Names |-> BytesOf(db, IdsOf(db, n))]
    /\ disturbed' = FALSE
    /\ UNCHANGED <<db, tx, lock, batch, refs, fresh, settled, pick, round, purging, invalidated, ended, bounds>>

\* The oldest lines, up to a chunk, until excess bytes are freed.
OldestBeyond(lines, excess) ==
    LET older(l) == {x \in lines : x.ts < l.ts}
    IN  {l \in lines : SizeOf(older(l)) <= excess /\ Cardinality(older(l)) < DeleteChunk}
Oldest(lines, excess) ==
    LET older(l) == {x \in lines : x.ts < l.ts}
    IN  {l \in lines : SizeOf(older(l)) < excess /\ Cardinality(older(l)) < DeleteChunk}

WithoutUncounted(d, lines) == [d EXCEPT !.lines = @ \ lines]
Without(d, lines) ==
    [d EXCEPT !.lines = @ \ lines,
              !.bytes = [i \in Ids |-> LET freed == SizeOf(LinesIn(d, {i}) \intersect lines)
                                       IN  IF d.bytes[i] > freed THEN d.bytes[i] - freed ELSE 0]]

Evict(lines) == Autocommit(Without(db, lines))

Trim(n) ==
    /\ writer = "groups"
    /\ est[n] > PerCap /\ n \notin settled
    /\ LET victims == Oldest(LinesIn(db, groups[n]), est[n] - PerCap)
       IN  /\ Evict(victims)
           /\ est' = [est EXCEPT ![n] = @ - SizeOf(victims)]
           /\ settled' = IF victims = {} THEN settled \union {n} ELSE settled
    /\ UNCHANGED <<lock, writer, batch, refs, fresh, groups, pick, round, disturbed, purging, invalidated, ended, bounds>>

Total == MapThenSumSet(LAMBDA n : est[n], Names)

GroupsTrimmed ==
    /\ writer = "groups"
    /\ \A n \in Names : est[n] <= PerCap \/ n \in settled
    /\ writer' = "total"
    /\ settled' = {}
    /\ UNCHANGED <<db, tx, lock, batch, refs, fresh, groups, est, pick, round, disturbed, purging, invalidated, ended, bounds>>

\* oldestGroup; a group found empty is not reconsidered.
Candidates == {n \in Names : est[n] > 0 /\ n \notin settled /\ LinesIn(db, groups[n]) # {}}
HoldsMost(n) == \A m \in Candidates : est[m] <= est[n]
HoldsOldest(n) ==
    \A m \in Candidates : \E l \in LinesIn(db, groups[n]) :
        \A x \in LinesIn(db, groups[m]) : l.ts <= x.ts

Pick ==
    /\ writer = "total" /\ pick = NoName
    /\ Total > TotalCap /\ round < MaxTrimRounds
    /\ \E n \in Candidates : HoldsOldest(n) /\ pick' = n
    /\ UNCHANGED <<db, tx, lock, writer, batch, refs, fresh, groups, est, settled, round, disturbed, purging, invalidated, ended, bounds>>

TrimPicked ==
    /\ writer = "total" /\ pick # NoName
    /\ LET victims == Oldest(LinesIn(db, groups[pick]), Total - TotalCap)
       IN  /\ Evict(victims)
           /\ est' = [est EXCEPT ![pick] = @ - SizeOf(victims)]
           /\ settled' = IF victims = {} THEN settled \union {pick} ELSE settled
    /\ pick' = NoName
    /\ round' = round + 1
    /\ UNCHANGED <<lock, writer, batch, refs, fresh, groups, disturbed, purging, invalidated, ended, bounds>>

TotalTrimmed ==
    /\ writer = "total" /\ pick = NoName
    /\ Total <= TotalCap \/ round = MaxTrimRounds \/ Candidates = {}
    /\ writer' = "prune"
    /\ UNCHANGED <<db, tx, lock, batch, refs, fresh, sweep, purging, invalidated, ended, bounds>>

SweepOver ==
    /\ writer' = "idle"
    /\ groups' = [n \in Names |-> {}] /\ est' = [n \in Names |-> 0]
    /\ settled' = {} /\ pick' = NoName /\ round' = 0 /\ disturbed' = FALSE

\* pruneEmptyGenerations: removed rows with no lines.
Prunable == {i \in db.removed : LinesIn(db, {i}) = {}}
Prune ==
    /\ writer = "prune"
    /\ Autocommit(WithoutRows(db, Prunable))
    /\ SweepOver
    /\ UNCHANGED <<lock, batch, refs, fresh, purging, invalidated, ended, bounds>>

SweepFails ==
    /\ writer \in {"groups", "total", "prune"}
    /\ failures < MaxFailures
    /\ failures' = failures + 1
    /\ SweepOver
    /\ UNCHANGED <<db, tx, lock, batch, refs, fresh, purging, invalidated, ended, inserted, purges>>

-----------------------------------------------------------------------------
Empty == [gen |-> [i \in Ids |-> NoKey], removed |-> {}, bytes |-> [i \in Ids |-> 0], lines |-> {}]

Init ==
    /\ db = Empty /\ tx = Empty /\ lock = "free"
    /\ writer = "idle" /\ batch = << >> /\ refs = NoRefs /\ fresh = NoRefs
    /\ groups = [n \in Names |-> {}] /\ est = [n \in Names |-> 0]
    /\ settled = {} /\ pick = NoName /\ round = 0 /\ disturbed = FALSE
    /\ purge = "none" /\ purged = {} /\ invalidated = {}
    /\ ended = {}
    /\ inserted = 0 /\ failures = 0 /\ purges = 0

Batches == UNION {[1 .. n -> Message] : n \in 1 .. BatchLines}

SyncStep == \E k \in Keys : UpsertMeta(k) \/ MarkRemoved(k) \/ End(k)
WriteStep == (\E m \in Batches : Begin(m)) \/ Write \/ Commit \/ CommitFails
PurgeStep == (\E n \in Names : PurgeBegin(n)) \/ PurgePublish \/ PurgeCommit \/ PurgeFails
SweepStep ==
    \/ SweepBegin \/ (\E n \in Names : Trim(n)) \/ GroupsTrimmed
    \/ Pick \/ TrimPicked \/ TotalTrimmed \/ Prune \/ SweepFails

Next == SyncStep \/ WriteStep \/ PurgeStep \/ SweepStep

Spec == Init /\ [][Next]_vars

(***************************************************************************)
(* Properties.                                                             *)
(***************************************************************************)
TypeOK ==
    /\ db \in Database /\ tx \in Database
    /\ lock \in {"free", "writer", "purge"}
    /\ writer \in {"idle", "writing", "groups", "total", "prune"}
    /\ batch \in Seq(Message)
    /\ refs \in [Keys -> {0} \union Ids] /\ fresh \in [Keys -> {0} \union Ids]
    /\ groups \in [Names -> SUBSET Ids] /\ est \in [Names -> Nat]
    /\ settled \subseteq Names /\ pick \in Names \union {NoName}
    /\ round \in 0 .. MaxTrimRounds /\ disturbed \in BOOLEAN
    /\ purge \in {"none", "deleted", "published"} /\ purged \subseteq Keys
    /\ invalidated \subseteq Keys /\ ended \subseteq Keys
    /\ lock = "free" => tx = db
    /\ lock = "writer" <=> writer = "writing"
    /\ lock = "purge" <=> purge # "none"
    /\ inserted \in 0 .. MaxLines /\ failures \in 0 .. MaxFailures /\ purges \in 0 .. MaxPurges

\* Every stored line is filed under the row of the container that wrote it:
\* no purge, rollback or pruning that frees a row id lets the next owner of
\* the id inherit lines, and no line is left without a row.
LinesFiledRight == \A l \in db.lines : db.gen[l.ref] = l.of

\* The row ids the writer will use next are those of live rows of their keys,
\* unless a purge has published otherwise.
CacheSound ==
    \A k \in Keys \ (ended \union invalidated) : refs[k] # 0 => db.gen[refs[k]] = k

\* stored_bytes is exactly what the stored lines of a row take, across
\* batches, rollbacks, evictions and purges.
BytesExact == \A i \in Ids : db.bytes[i] = SizeOf(LinesIn(db, {i}))

\* What the writer remembers and what the database holds agree across
\* rollbacks, evictions and purges.
RowsAccounted == TypeOK /\ CacheSound /\ BytesExact

HeldBy(d, n) == SizeOf({l \in d.lines : NameOf[l.of] = n})
Held(d) == SizeOf(d.lines)

\* A sweep that runs to its end leaves every logical container, all of its
\* generations together, and the store under their caps, whatever purges did
\* in between; only the bound on rounds may leave the store above its cap.
SweepMeetsCaps ==
    [][Prune => /\ \A n \in Names : HeldBy(db', n) <= PerCap
                /\ round < MaxTrimRounds => Held(db') <= TotalCap]_vars

\* "under the cap: evicting further would throw away history" (evictOldest):
\* every line an eviction takes was needed to bring the container, or the
\* store, to its cap.  A purge between two evictions is not seen by the sweep
\* and voids this.
Evicted == db.lines \ db'.lines
EachNeeded(held, cap) ==
    \A l \in Evicted : held - SizeOf({x \in Evicted : x.ts < l.ts}) > cap
SweepEvictsOnlyExcess ==
    [][/\ \A n \in Names : Trim(n) /\ ~disturbed => EachNeeded(HeldBy(db, n), PerCap)
       /\ TrimPicked /\ ~disturbed => EachNeeded(Held(db), TotalCap)]_vars

\* Of a container the oldest lines go first, and a trim of the store begins with
\* the oldest line it holds.  Containers are not merged: within a chunk, newer
\* lines of the container that holds the oldest one go before older lines of the
\* others.
SweepTakesOldest ==
    [][/\ (\E n \in Names : Trim(n)) \/ TrimPicked =>
            \A l \in Evicted : \A x \in db'.lines : NameOf[x.of] = NameOf[l.of] => l.ts < x.ts
       /\ TrimPicked /\ ~disturbed => \A x \in db'.lines : \E l \in Evicted : l.ts < x.ts]_vars

\* A sweep evicts what the caps ask for: enough, no more, the oldest first.
SweepIsExact == SweepMeetsCaps /\ SweepEvictsOnlyExcess /\ SweepTakesOldest
=============================================================================
