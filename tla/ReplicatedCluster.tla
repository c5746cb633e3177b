------------------------- MODULE ReplicatedCluster -------------------------
(***************************************************************************)
(* Several ReplicatedDB nodes (src/src/raft/replicated_db.cc with more     *)
(* than one peer): the cluster of module Raft with a table at every node.  *)
(* The caller drives the node's Raft object directly and calls Sync after  *)
(* each call (replicated_db.h:49-52); Put and Delete are proposals that    *)
(* call Sync themselves.  Sync's Save succeeds; its failures are in module *)
(* ReplicatedDB.  A crash and a reopening are Open, which applies the      *)
(* whole recovered log, committed or not.                                  *)
(***************************************************************************)
EXTENDS Raft

CONSTANTS Key, Val

VARIABLES
    table, applied_index,
    recovered          \* the entries Open has applied without knowing them committed

Op == [key : Key, val : Val \cup {None}]   \* val None: Delete
ASSUME ValueAssumption == Value \subseteq Op

dbVars == <<table, applied_index, recovered>>

Nothing == [k \in Key |-> None]

-----------------------------------------------------------------------------
DBInit ==
    /\ Init
    /\ table = [i \in Server |-> Nothing]
    /\ applied_index = [i \in Server |-> 0]
    /\ recovered = [i \in Server |-> << >>]

(* Mutant: applying starts one entry too late.                             *)
ApplyTooLate(i) ==
    /\ table' = [table EXCEPT
          ![i] = ApplyEntries(@, SubSeq(log'[i], applied_index[i] + 2, commit_index'[i]))]
    /\ applied_index' = [applied_index EXCEPT ![i] = commit_index'[i]]

(* Mutant: every new entry is applied, committed or not.                   *)
ApplyAppended(i) ==
    /\ table' = [table EXCEPT
          ![i] = ApplyEntries(@, SubSeq(log'[i], applied_index[i] + 1, LastIndex(log'[i])))]
    /\ applied_index' = [applied_index EXCEPT ![i] = LastIndex(log'[i])]

(* ApplyCommitted sets applied_index_ to the commit index even where it is *)
(* lower, as it is after Open.                                             *)
ApplyCommitted(i) ==
    /\ table' = [table EXCEPT
          ![i] = ApplyEntries(@, SubSeq(log'[i], applied_index[i] + 1, commit_index'[i]))]
    /\ applied_index' = [applied_index EXCEPT ![i] = commit_index'[i]]

(* Sync ends every call.                                                   *)
Sync(i) == ApplyCommitted(i) /\ UNCHANGED recovered

(* Sync called by itself, or after a message that changed nothing.         *)
SyncOnly(i) ==
    /\ applied_index[i] # commit_index[i]
    /\ UNCHANGED vars
    /\ Sync(i)

Tick(i) == (TickLeader(i) \/ TickElection(i) \/ BecomeCandidate(i)) /\ Sync(i)

Receive(m) ==
    /\ <<m.from, m.to>> \in Links
    /\ Step(m.to, m)
    /\ Sync(m.to)

(* Put and Delete are refused unless the node leads.                       *)
Write(i, op) == Propose(i, op) /\ Sync(i)

(* Open on what the crash left: every recovered entry is applied.          *)
Open(i) ==
    /\ Restart(i)
    /\ table' = [table EXCEPT ![i] = ApplyEntries(Nothing, log[i])]
    /\ applied_index' = [applied_index EXCEPT ![i] = LastIndex(log[i])]
    /\ recovered' = [recovered EXCEPT ![i] = log[i]]

DBNext ==
    \/ \E i \in Server : Tick(i) \/ SyncOnly(i) \/ Open(i)
    \/ \E i \in Server, op \in Value : Write(i, op)
    \/ \E m \in messages : Receive(m)

DBSpec == DBInit /\ [][DBNext]_<<vars, dbVars>>

-----------------------------------------------------------------------------
(* Properties.                                                             *)

Committed(i) == SubSeq(log[i], 1, commit_index[i])

(* Everything Open applied at i has been committed since.                  *)
Confirmed(i) == IsPrefixOf(recovered[i], Committed(i))

(* "only applied to the in-memory table once committed"                    *)
(* (replicated_db.h:18-19): a node that was never reopened shows exactly   *)
(* its committed writes at every moment, and one that was shows them as    *)
(* soon as the entries Open applied are committed, although the apply      *)
(* cursor has meanwhile gone back to 0 and the log was applied again.      *)
TableIsCommitted ==
    \A i \in Server : Confirmed(i) => table[i] = ApplyEntries(Nothing, Committed(i))

(* Two such nodes that have applied as many entries give the same answers  *)
(* to Get, whatever the two have been through (ApplyCommitted).            *)
ReplicasAgree ==
    \A i, j \in Server :
        Confirmed(i) /\ Confirmed(j) /\ commit_index[i] = commit_index[j]
            => table[i] = table[j]
=============================================================================
