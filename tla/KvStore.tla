------------------------------ MODULE KvStore ------------------------------
(***************************************************************************)
(* What a durable key-value store promises its callers (db.h): a write it  *)
(* reported as done is never lost, and reads follow the order of writes.   *)
(* A write that failed or was cut short by a crash may still take effect,  *)
(* at its place in the order: as long as no other write has succeeded, or  *)
(* when the store is opened again; or it never does.                       *)
(***************************************************************************)
EXTENDS Integers, Sequences, FiniteSetsExt

CONSTANTS Key, Val, None

VARIABLES
    history,   \* the writes issued so far and whether each was acknowledged
    table,     \* what Get returns for each key of an open store, None for NotFound
    open       \* whether a process has the store open

Op == [key : Key, val : Val \cup {None}]   \* val None: Delete

Nothing == [k \in Key |-> None]
Apply(tab, op) == [tab EXCEPT ![op.key] = op.val]

Acked == {n \in DOMAIN history : history[n].acked}

(* The writes numbered in `ids`, in the order of issue, over table `tab`.  *)
ApplyAll(tab, ids) ==
    [k \in Key |->
        LET writes == {n \in ids : history[n].op.key = k}
        IN  IF writes = {} THEN tab[k] ELSE history[Max(writes)].op.val]

Init ==
    /\ history = << >>
    /\ table = Nothing
    /\ open = TRUE

(* Failed writes that no acknowledged one has followed may still happen.   *)
Late == {n \in DOMAIN history \ Acked : \A m \in Acked : m < n}

Acknowledge(op) ==
    /\ open
    /\ history' = Append(history, [op |-> op, acked |-> TRUE])
    /\ \E late \in SUBSET Late : table' = Apply(ApplyAll(table, late), op)
    /\ UNCHANGED open

(* The call returns an error, or never returns because of a crash.         *)
Fail(op) ==
    /\ open
    /\ history' = Append(history, [op |-> op, acked |-> FALSE])
    /\ \/ UNCHANGED <<table, open>>
       \/ open' = FALSE /\ table' = Nothing

Settle ==
    /\ open
    /\ \E late \in SUBSET Late : table' = ApplyAll(table, late)
    /\ UNCHANGED <<history, open>>

Close ==
    /\ open
    /\ open' = FALSE /\ table' = Nothing
    /\ UNCHANGED history

Reopen ==
    /\ ~open
    /\ open' = TRUE
    /\ \E lucky \in SUBSET (DOMAIN history \ Acked) :
          table' = ApplyAll(Nothing, Acked \cup lucky)
    /\ UNCHANGED history

Next == (\E op \in Op : Acknowledge(op) \/ Fail(op)) \/ Settle \/ Close \/ Reopen

Spec == Init /\ [][Next]_<<history, table, open>>
=============================================================================
