# A TLA+ development of mini-lsm

mini-lsm is a small storage engine with a Raft layer on top. This directory
holds TLA+ modules of both, TLC configurations that check them on small
instances, and TLAPS proofs of what holds for instances of every size. Paths
below are relative to the repository; `raft.cc` means `src/raft/raft.cc` and so on.

## The system

| Part | State | Operations | Used by |
|---|---|---|---|
| WAL writer (`wal_writer.cc`) | `block_offset_` | `AddRecord`: cuts a record into fragments that fit 32 KB blocks, pads short remainders | DB, Raft storage |
| WAL reader (`wal_reader.cc`) | position, scratch buffer | `ReadRecord`: checks each fragment, joins fragments, drops the rest of a block at damage | DB, Raft storage |
| DB (`db.cc`) | `table_`, the log file | `Open` (replay, resume), `Put`, `Delete`, `Get` | users |
| Raft core (`raft/raft.cc`) | term, vote, log, commit index, apply cursor, timers, votes, per-peer indices, watermark, dirty flag, outgoing messages | `Tick`, `Step`, `Propose`, `TakeCommitted`, `TakeMessages`, `Restore` | Raft storage, ReplicatedDB, a caller with a network |
| Raft storage (`raft/storage.cc`) | `persisted_index_`, the log file | `Open`/`Recover` (replay), `Save` | ReplicatedDB |
| ReplicatedDB (`raft/replicated_db.cc`) | `table_`, `applied_index_` | `Open`, `Put`, `Delete`, `Get`, `Sync` | users |
| Test cluster (`test/raft/raft_test.cc`) | nodes, pending messages, who is cut off | `TickAll`, `DeliverAll`, `RunRounds`, `Block`, `Unblock`, `Propose` | the Raft tests |
| Env, CRC32C, coding, Slice, Status | none | files, checksums, byte layout | all |

Nothing here runs threads. What makes the code hard is elsewhere: a network that
loses, delays, repeats and reorders messages between nodes; crashes between any
two writes to a file, and at any byte of one; writes and fsyncs that fail while
the caller goes on; and restarts that must pick up exactly what was promised. The
list of these hazards, with the line each bites at and the properties that would
catch it, is in `PROJECT.json`.

## Modules

| Module | What it is |
|---|---|
| `RaftLog` | Operators on a Raft log: `TermAt`, the consistency check, and the append loop in closed form (`MergeEntries`, `StableIndex`, `FollowerCommit`); what entries do to a table (`ApplyEntries`) |
| `Raft` | A cluster of Raft cores and a network |
| `RaftCluster` | Raft cores ticked in rounds by the test cluster, with cuts and restarts: the module of the liveness properties |
| `ReplicatedCluster` | Several replicated stores: `Raft` with a table at every node |
| `AppendLoop` | The append loop of `HandleAppendEntries`, one turn per step |
| `Env` | What appending, reading, syncing and a crash do to the bytes of a file |
| `Wal` | Writer and reader as operators on the bytes of a file |
| `DB` | `DBImpl` over `Wal`, with a crash at every byte |
| `KvStore` | Abstract: what a durable key-value store promises |
| `RaftStorage` | `Save` record by record, and replay |
| `ReplicatedDB` | The single-node replicated store, composed with the steps of `RaftStorage` |
| `MCRaft`, `MCRaftCluster`, `MCReplicatedCluster`, `MCAppendLoop` | Instances for TLC |
| `RaftLogFacts` | Lemmas about the operators of `RaftLog`, shared by the proofs |
| `RaftLogProofs`, `RaftReplicationProofs`, `RaftSafetyProofs` | Proofs about `Raft`, each on top of the one before |
| `ReplicatedClusterProofs` | Proofs about `ReplicatedCluster`, on top of those about `Raft` |
| `AppendLoopProofs`, `RaftStorageProofs`, `ReplicatedDBProofs` | Proofs about `AppendLoop`, `RaftStorage` and `ReplicatedDB` |

### Raft

One action is one call into one node, with what the caller owes it
(`storage.h:57-62`): save, then hand out the messages. The network is the set of
all messages ever sent; any of them may be delivered at any time, again, or
never. A variable is the member of the same name without its underscore; `applied`
is a history variable, all entries `TakeCommitted` has ever returned.

- `Tick` is `TickLeader`, `TickElection` and, at the timeout, `BecomeCandidate`.
- `Step` is `RejectStale` (older term), `StepDown` (a response of a newer term),
  and one action for each handler, which includes the step down that a newer
  term causes first. Messages the code ignores have no action.
- `Restart` is a crash followed by `Restore`. Term, vote and log survive, since
  each call ends with a save; everything else is that of a new object.

`stable_index_` and `hard_state_dirty_` are read by the storage alone and are in
`RaftStorage`. `votes_granted_` is a set: the code looks a vote up before it
records it.

### RaftCluster

`Raft` lets anything happen to messages and time, and a property of the form
"eventually" needs less freedom. `RaftCluster` is the `Cluster` of the Raft tests,
which is also how `replicated_db_test.cc` drives its nodes: a round ticks every
node once and then delivers, batch by batch, what the nodes have sent, answers
included, until nothing is left. Between rounds the driver may cut a node off
(`Block`), let it back, restart it from its saved state, or propose to a leader.
Two liberties are taken: the messages of a batch are delivered in any order, of
which the code takes one, and restarts are added to what the tests do. The nodes
are those of `Raft`; `messages` holds what is sent and not yet in a batch, and is
empty at the end of a round. `Ignored` names the messages `Step` drops, which
`Raft` needs no action for. `leaderless` counts rounds without a leader since the
last fault; it is what bounds an election.

### Wal and DB

A byte of the file is a place in a fragment. A stretch of bytes passes the
checksum exactly if it is one whole fragment as written. Two accidents of checksum
bytes are left out: a collision, and a header pieced together from two writes that
reads as zero padding. `AddRecord` yields the fragments with padding and cursor,
`ReadRecords` folds the reader's loop over what `ReadPhysicalRecords` finds.

`DB` has one action for each way a call of `Write` can end: done, a failed append
after any number of bytes, a failed fsync, a crash. A crash keeps a prefix of the
file that has at least the bytes synced last (`Env`'s `Survivors`). Operations are numbered, and a record
stands for its number. Errors of `Open` itself only make `Open` return and are left
out, as are read errors.

### RaftStorage and ReplicatedDB

`RaftStorage` takes every change the core can make to what `Save` reads, and then
runs `Save` as a step per record. A file is a sequence of records in one block; a
`Torn` record hides what is appended after it, which is what `Wal` shows for a
block. `promised` is the state at the last successful save, `held` the logs the
node has had since. `Replicate` applies the same closed forms as `Raft`, which
`AppendLoopProofs` derives from the loop.

`ReplicatedDB` with `peers = {id}` uses the storage's steps by `INSTANCE`. The
core's part is what it does when one node is a quorum. `Open` replays, applies and
wins an election in one step; the save after it is step by step again.

### ReplicatedCluster

A store with several peers leaves the network to its caller, who drives the Raft
object and calls `Sync` after each call (`replicated_db.h:49-52`;
`replicated_db_test.cc:93-96`). So each action is one of `Raft` followed by `Sync`,
with the save succeeding: what a failing one does is in `RaftStorage` and
`ReplicatedDB`. `Open` is a restart that applies the whole recovered log,
committed or not, with the commit index back at 0; `recovered` remembers those
entries. `replicated_db.h:23-26` puts the commit point of such a node out of scope,
so the properties speak of a node once the entries it applied early are committed.

### KvStore

The promise of `db.h:15-17`: writes are acknowledged or not; an acknowledged one is
never lost; a failed or interrupted one may take effect at its place in the order,
while no later write has succeeded or when the store is opened again, or never.
`DB` and `ReplicatedDB` are shown to implement it with a closed store mapped to an
empty table.

## Runs

All are exhaustive. Times are for two workers.

| Run | Shows | States, time |
|---|---|---|
| `raft_restarts` | Two leaders in successive terms, any node crashing at any point: `StateMachineSafety`, `CommittedIsStable`, `OneVotePerTerm` | 109k, 1 min |
| `raft_figure8` | Two nodes that only a third one hears compete for four terms, all crashing, the setting of the Raft paper's Figure 8: `ElectionSafety`, `StateMachineSafety`, `LeaderCompleteness` | 141k, 2 min |
| `raft_logs` | Replicated stores, from two live leaders with different logs, over two more terms and a crash: `EntriesInPlace`, `VotesBackLeaders`, `LogMatching`, `MatchIsReplicated`, `CommitWithinMessage`, `CommitWithinLog` of the nodes, `TableIsCommitted`, `ReplicasAgree` of the tables | 141k, 2.5 min |
| `raft_liveness` | Rounds with distinct timeouts and up to two cuts or restarts of any node at any round: `ElectedUnlessBehind`, `LeaderSettles`, `LogsConverge`, `TypeOK` | 480k, 1.5 min |
| `append_loop` | Every log and message up to three entries and two terms: `LoopIsMerge`, `StableIsPrefix`, `HoldsEntries` | 8.5k, 2 s |
| `storage_crash` | Saves with a crash or a failing write between any two records, or a failing fsync, and saves retried if they wrote no entry: `SavedIsRecoverable`, `CrashLeavesPrefix`, `VoteIsRemembered`, `EntriesInOrder` | 185k, 45 s |
| `db_recovery` | `DB` implements `KvStore` (`DurableStore`), and `AckedSurvives` of every byte a crash may stop at | 438k, 1 min |
| `db_faults` | What holds even with failed appends and writes behind torn tails: `NoPhantomRecords`, `RecoveredInOrder`, `SurvivesUpToDamage` | 222k, 20 s |
| `replicated_recovery` | `ReplicatedDB` implements `KvStore` (`DurableStore`) and `RecoveryIsExact` of every crash, with failing fsyncs | 76k, 10 s |
| `raft_livelock`, `db_torn_tail`, `replicated_retry` | Counterexamples, see below | |

### Bounds

- Raft. `ElectionTerms` names the terms each node campaigns for, `ProposalTerms`
  and `MaxLog` when a leader gets proposals, `Links` who hears whom, `Crashing` who
  crashes. Three nodes are the least with a quorum that is not everybody. Two
  terms are enough for stale leaders, four for Figure 8. In `raft_figure8` both
  candidates compete for the votes of `s3` in term 1, and every quorum includes it.
  `raft_logs` starts with two leaders of successive terms that have not heard of
  each other, each with an entry of its own, which saves the steps that lead
  there; any message between them may then come late. Timeouts are one tick in
  these runs (as in `replicated_db.cc`), so a node may campaign at any time, except
  for one node of `raft_figure8`; real timers are in `raft_liveness`.
- Rounds. Timeouts of 3, 4 and 5 ticks and a heartbeat every second one: the
  constructor of `Cluster` with smaller numbers. One proposal, two faults and five
  rounds with a node cut off are enough for each node to miss the entry, to lead
  in a term of its own, and to come back with a timer in any position. `Patience`
  is 7 rounds, the least for which `ElectedUnlessBehind` holds: the longest timeout
  and a lost election. No term reaches `MaxTerm`.
- `VIEW` in the runs of `Raft` drops what no later step can tell apart: the
  contents of requests older than their receiver's term, responses nobody waits
  for, messages over a missing link, the votes of a node that is no candidate and
  the per-peer state of one that is no leader. The comment in `MCRaft` gives the
  reasons. `raft_logs` is symmetric in the values written; keys and nodes are not
  permuted.
- WAL. Blocks of six bytes with headers of two, and records of three and five
  bytes, give records in one block, across two, an empty first fragment at the very
  end of a block, and padding. Three writes and up to three openings give
  damage, a write behind it, and a recovery.
- Storage. Two terms and two entries give a conflict that drops a stored entry.
  `WritesAfterTear` and `RetriesAfterError` say whether the caller goes on with a file
  that has a torn record, and after a save that failed without reopening the file.
- `CHECK_DEADLOCK FALSE` is set where the bounds, or the end of a loop, leave nothing
  to do. In the Raft runs a message can always be delivered again and deadlock is
  checked.

### Fairness

`LeaderSettles` and `LogsConverge` are liveness properties, under
`WF_clusterVars(ClusterNext)`: the driver goes on as long as it can. That is what
`RunRounds` does; nothing is assumed of the order in which messages of a batch
arrive, nor that faults ever end other than by their bounds. The other properties
are safety properties and no other specification states fairness. Nothing is
claimed of the liveness of `Raft` itself, whose network may drop everything.

## What the code does not keep

Three runs end with a counterexample and have an entry under findings.

- `raft_livelock`. `BecomeFollower` restarts the election timer whenever a message
  brings a newer term, also when it is the `RequestVote` of a candidate that is then
  refused. A node with the shortest timeout that missed an entry campaigns first in
  every term, is refused, and has restarted everybody's timer: nobody who could win
  ever campaigns. One cut is enough, and nobody need be cut off any more. The
  comment in `raft.h:20-22` and the tests rely on distinct timeouts instead of
  random ones. `raft_liveness` shows that this is the only way to stay without a
  leader. A restart of the timer only where a vote is granted (`raft.cc:142` already
  does that), or random timeouts, would end it.
- `db_torn_tail`. Appending resumes right behind a torn record. The reader gives up
  the rest of that block, so what is written and acknowledged next is not there
  after the next restart. Raft storage opens its file the same way:
  `VoteIsRemembered` fails in `RaftStorage` with `WritesAfterTear = TRUE`. The passing
  runs with `WritesAfterTear = FALSE` show what holds otherwise, `db_faults` what holds
  regardless.
- `replicated_retry`. A `Save` repeated after a failed fsync appends its entries
  again. Replay returns them twice (`EntriesInOrder` fails in `RaftStorage` with
  `RetriesAfterError = TRUE`), and from then on index and place of an entry differ.

Four observations of the same kind have no run of their own:

- A failed append moves `block_offset_` although the bytes are not in the file
  (`wal_writer.cc:89`): `AckedSurvives` fails with `AppendErrors = TRUE` even without
  a torn tail.
- After a process crash, replay returns records that were never fsynced, and
  `Restore` marks them stable (`raft.cc:337`). The fsync of the next save covers
  them, which is why `SavedIsRecoverable` holds.
- The `Sync` in `Open` sets `applied_index_` back to 0 (`replicated_db.cc:170`). The
  first write applies the whole log again; `replicated_recovery` shows that no reader
  can tell, `raft_logs` the same of a cluster.
- A reopened node of a cluster shows uncommitted entries, and goes on showing them
  when a new leader has dropped them from its log: `TableIsCommitted` fails without
  its premise `Confirmed(i)`. `replicated_db.h:23-26` leaves this open.

## Proofs

All hold for every value of the constants that satisfies the named assumptions.

### Raft

For any finite set of nodes, any timeouts and any bounds (with
`ElectionTerms[i] = Nat`, all links and all nodes crashing, nothing about elections
and delivery is bounded; proposals up to any length of log). The assumptions are
those of module `Raft`: `Server` is finite, `None` is no server, timeouts are
positive. TLC evaluates them in every Raft run.

- `TypeCorrect` and `EntriesStayInPlace` (`RaftLogProofs`). `TypeOK` alone is not inductive: that
  `MergeEntries` yields a log needs the entries of log and message to be in place,
  and that `next - 1` is a natural number needs `next_index_ >= 1` at a leader. The
  invariant is `TypeInv`, both together. `VotesAreFinal`, an action property, follows
  from it.
- `VotesAlwaysBackLeaders` and `AtMostOneLeaderPerTerm` (same module). `ElectionSafety` is not
  inductive. `VotesBackLeaders` keeps, for every term there ever was, that a grant
  binds its voter, and that each leader and each AppendEntries has a quorum of
  grants behind it. Two leaders of a term would share a voter (`QuorumsIntersect`)
  that granted twice. The proof has one lemma per action; `VotesStep` collects what
  all of them need.
- `LogsAlwaysMatch` (same module). `LogMatching` is not inductive: an AppendEntries in
  flight brings entries that no log may hold any more. `LogInv` says that there is one
  log for every term, that of the term's leader (`LeaderLogs(L)`, with `L[t]` for term
  `t`), of which all else is made: an AppendEntries carries a piece of the log of its
  term, and every log agrees, up to each of its entries, with the log of that entry's
  term. A step extends `L` in one place at most: where a leader proposes, or where a
  candidate wins and its log becomes that of its term. A node without peers sends
  nothing, so no message shows what it led; for it `LogMatching` is trivial, hence
  `Several` in `LogInv`.
- `LeadersAreComplete`, `StateMachinesAreSafe`, `MatchIsAlwaysReplicated`,
  `CommitsStayWithinLog`, `CommitsStayWithinMessages` and the action property
  `CommittedStaysStable` (`RaftSafetyProofs`, on `RaftReplicationProofs`, which keeps `Replicated`). The argument follows an entry of its
  leader's own term. It is `Decided` when every node of a quorum has acknowledged it
  or led its term, and `Viable` as long as it may still be decided: there is a quorum
  whose nodes hold it or have not passed its term. `Viable`, not `Decided`, is what can be
  kept: a step may make an entry decided that was not, but none makes one viable
  except the proposal that creates it. `Replicated` says that whoever holds a viable
  entry has kept it (`HoldersAgree`), that every later leader has it (`LeadersAgree`) and
  that whoever holds one votes only for candidates that are as far (`VotersAgree`);
  the rest of it is what acknowledgements and vote requests say about their sender's log.
  When a candidate wins, its quorum shares a voter with the entry's (`QuorumsIntersect`),
  which held the entry when it voted, and the comparison of last term and index then
  puts the entry into the winner's log. `Safe` says that every commit index, stored or
  announced in a message, and everything ever applied lies within a decided entry: the
  rule of `raft.cc` that a leader counts only entries of its own term is what
  makes it so. The invariant `SafeInv` is both for several nodes and `SoloInv` for one
  without peers. Before it was proved, TLC found no violation of `Replicated` and `Safe`
  in the first 3.7 million states of an instance like `raft_figure8` with longer logs,
  nor in random behaviours with all links and all nodes crashing.

### ReplicatedCluster

With the assumptions of `Raft` and any sets of keys and values:

- `ClusterImplementsRaft`: a cluster of stores is a Raft cluster. Every action of
  `ReplicatedCluster` is one of `Raft` as far as the cores are concerned, so every
  theorem above holds of the stores.
- `TablesAreCommitted` and `ReplicasAlwaysAgree`. `Written(t, tab, s, a, b)` says which
  table the writes `a+1..b` of a log leave, by the last write to each key, and
  `ApplyIsWritten` that `ApplyEntries` computes it. The invariant `TableInv` says of
  each node that its table is what `Open` left, overwritten by the log from some place in
  the recovered entries up to the commit index. It has to leave that place open: the
  first `Sync` after an `Open` sets `applied_index_` to the commit index of that moment,
  whatever it is, and applies the log again from there on later.
  Once the recovered entries are known to be committed
  (`Confirmed`), writing them twice is writing them once (`WrittenTwice`), and the table is what the
  committed log says. That no `Sync` overwrites what an earlier one applied is
  `CommittedStaysStable`, that two nodes at the same commit index have the same table is
  the agreement of decided entries (`DecidedAgree`).

### RaftStorage

For any bounds on terms and logs and any set of other nodes, with a caller that
reopens after a failed save and does not write behind a torn record
(`~WritesAfterTear`, `~RetriesAfterError`; both are needed, see the findings):
`SavedStaysRecoverable`, `CrashesLeavePrefixes`, `VotesAreRemembered` and `EntriesStayInOrder`. The
invariant `StorageInv` says that the synced part of the file replays to what was promised,
that every part a crash may keep is `Sound` (replays to a prefix of a log the node
has had since, to no older term and no other vote), and, for each step of `Save`, what the
records written so far still lack of the core's state (`Pending`). What `ReplayFile` computes record
by record is a recursive function; that a longer file only continues the replay
of a shorter one (`ReplaysAgree`) is shown from the least record at which they would differ.
TLC checked `StorageInv` on the instance of `storage_crash` with files of four records
(733k states).

### ReplicatedDB

For any sets of keys and values and any number of writes, openings, crashes and
failing fsyncs, with `NoneAssumption` (no operation is `None`) and the same caller as
for `RaftStorage` (`~WritesAfterTear`, `~RetriesAfterError`; `replicated_retry` shows
that the second is needed):

- `RecoveryStaysExact`. The invariant is `DBInv`. The entries of the file, `Saved`, are
  in place and correspond to writes of the history in their order (`Numbered`); the
  acknowledged writes are all among the synced ones (`Kept`). While the store is up, or
  `Open` is saving its first state, `Tracked` says how far `Save` has copied the log into
  the file at each of its steps, and `Shown` that the table is what the log up to
  `Base`, the entries of completed saves, leaves. That is not a fact about
  `applied_index`: it falls back to 0 between `Open` and the first write, and what keeps
  the table right is that writing the same entries again changes nothing. The commit
  index is 0 or the whole log, which is why `SyncDone` applies all or none of it.
- `StoreIsDurable`: every step implements one of `KvStore` or stutters. `SyncDone` is an
  acknowledged write or the end of `Open` (`SyncDoneImplements`), where the recovered table
  has to be one that some choice of the unacknowledged writes explains: the writes
  numbered by the entries of the file (`ReplayedWrites`). `SyncFailed` and a crash with a
  write in progress are failed writes (`FailureImplements`). Everything else leaves
  what a user can see unchanged.

TLC checked the parts of `DBInv` on the instance of `replicated_recovery` (76k states)
before they were proved.

### AppendLoop

For logs and messages of any length and any terms:
`LoopComputesMerge`, `StoredPrefixIsKept` and `LoopHoldsEntries`. The invariant says
that before turn `k` either every entry so far agreed with the log and nothing has
changed, or there is a first one, `c`, that did not, and the log is its old self
below `c` and the message from there. The case that matters is the turn at `c`: no
gap can open there (`NoGap`), and the watermark falls below `c` only if `c` was stored.

### Model-checked only

- `LeaderSettles` and `LogsConverge`: liveness is out of the prover's reach.
- `ElectedUnlessBehind`: its bound `Patience` depends on the timeouts of the instance.
- `DB` with its refinement of `KvStore`. What the functions of `Wal` compute for every
  file is an induction over fragments and blocks that has not been carried out, and the
  properties of `DB` rest on it.

## Not modelled

- CRC32C, byte layouts, `Slice` and `Status`: pure functions and values that no
  control depends on beyond what `Wal` abstracts.
- The benchmark, which only measures.
- Opening and closing files, directories and read errors: each makes `Open` return
  its error and leaves nothing behind but what a crash would.
- Saves of several records in a cluster. `Raft` takes a call and its save as one
  step; `RaftStorage` shows for one node that a crash inside a save leaves the state
  before it or a prefix of what it wrote, and that no vote is lost. A cluster in
  which every save is record by record is beyond exhaustive checking at sizes where
  anything happens.
- Clusters whose membership changes, snapshots, and compaction: the code has none.
