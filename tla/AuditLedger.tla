---------------------------- MODULE AuditLedger -----------------------------
(***************************************************************************)
(* The two audit ledgers: the table audit_events (AuditService) and the    *)
(* list AUDIT_LEDGER of the process (trust_safety).  Both chain a new      *)
(* event to the last one they read, without a lock, from the event loop    *)
(* and from pool threads.  A hash is the number of its event: SHA-256 has  *)
(* no collisions, and no two events have one content and one timestamp.    *)
(* Events of the table are numbered by created_at, taken when a call       *)
(* starts: the clock is assumed to move forward between any two calls.     *)
(***************************************************************************)
EXTENDS Naturals, Sequences, FiniteSets, FiniteSetsExt

CONSTANTS
    Writers,      \* threads that record, the event loop among them
    MaxEvents,    \* bound: events that are ever started, in either ledger
    None

ASSUME LedgerAssumption == MaxEvents \in Nat \ {0} /\ None \notin Nat

GENESIS_HASH == 0
Hashes       == 1..MaxEvents
BlockRows    == [block_index : Nat, previous_hash : Hashes \union {GENESIS_HASH},
                 current_hash : Hashes]

VARIABLES
    prev,         \* prev[e]: prev_hash of event e of the table, None if not committed
    block,        \* AUDIT_LEDGER
    made,         \* how many hashes were ever taken
    pc,
    mine,         \* the hash that a writer records
    seen,         \* what it has read: the last hash, and the length of the list
    tableMet, listMet  \* history: the length when two writers first met, or None

ledgerVars == <<prev, block, made, pc, mine, seen, tableMet, listMet>>

Nothing == [last |-> GENESIS_HASH, index |-> 0]

Committed == {e \in Hashes : prev[e] # None}

LedgerTypeOK ==
    /\ prev \in [Hashes -> Hashes \union {GENESIS_HASH, None}]
    /\ block \in Seq(BlockRows) /\ block # << >>
    /\ made \in 1..MaxEvents
    /\ pc \in [Writers -> {"idle", "last", "commit", "count", "previous", "append"}]
    /\ mine \in [Writers -> Hashes \union {None}]
    /\ seen \in [Writers -> [last : Hashes \union {GENESIS_HASH}, index : Nat]]
    /\ tableMet \in Nat \union {None} /\ listMet \in Nat \union {None}
    /\ Committed \intersect {block[i].current_hash : i \in DOMAIN block} = {}

\* The module records SYSTEM_INIT when it is loaded.
SystemInit(hash) ==
    <<[block_index |-> 0, previous_hash |-> GENESIS_HASH, current_hash |-> hash]>>

LedgerInit ==
    /\ prev = [e \in Hashes |-> None]
    /\ block = SystemInit(1)
    /\ made = 1
    /\ pc = [w \in Writers |-> "idle"]
    /\ mine = [w \in Writers |-> None]
    /\ seen = [w \in Writers |-> Nothing]
    /\ tableMet = None /\ listMet = None

GoTo(w, label) == pc' = [pc EXCEPT ![w] = label]

InTable(w) == pc[w] \in {"last", "commit"}
InList(w)  == pc[w] \in {"count", "previous", "append"}

Met(met, inside, length) == IF met = None /\ inside # {} THEN length ELSE met

\* `now` and the content are fixed before the last event is read.
TakeHash(w) ==
    /\ pc[w] = "idle" /\ made < MaxEvents
    /\ made' = made + 1
    /\ mine' = [mine EXCEPT ![w] = made + 1]

End(w) ==
    /\ GoTo(w, "idle")
    /\ mine' = [mine EXCEPT ![w] = None]
    /\ seen' = [seen EXCEPT ![w] = Nothing]

-----------------------------------------------------------------------------
(* AuditService.record_event                                               *)

RecordEvent(w) ==
    /\ TakeHash(w)
    /\ GoTo(w, "last")
    /\ tableMet' = Met(tableMet, {v \in Writers : InTable(v)}, Cardinality(Committed))
    /\ UNCHANGED <<prev, block, seen, listMet>>

\* Mutant: the oldest event.
OldestEvent == IF Committed = {} THEN GENESIS_HASH ELSE Min(Committed)

\* Mutant: the newest event of the session identity map, committed or not.
NewestEvent == Max({mine[w] : w \in {v \in Writers : pc[v] = "commit"}} \union Committed \union {GENESIS_HASH})

LastEvent == IF Committed = {} THEN GENESIS_HASH ELSE Max(Committed)

ReadLastEvent(w) ==
    /\ pc[w] = "last"
    /\ seen' = [seen EXCEPT ![w].last = LastEvent]
    /\ GoTo(w, "commit")
    /\ UNCHANGED <<prev, block, made, mine, tableMet, listMet>>

CommitEvent(w) ==
    /\ pc[w] = "commit"
    /\ prev' = [prev EXCEPT ![mine[w]] = seen[w].last]
    /\ End(w)
    /\ UNCHANGED <<block, made, tableMet, listMet>>

\* The commit fails, or an error above rolls back.
LoseEvent(w) ==
    /\ pc[w] = "commit"
    /\ End(w)
    /\ UNCHANGED <<prev, block, made, tableMet, listMet>>

-----------------------------------------------------------------------------
(* add_audit_log                                                           *)

AddAuditLog(w) ==
    /\ TakeHash(w)
    /\ GoTo(w, "count")
    /\ listMet' = Met(listMet, {v \in Writers : InList(v)}, Len(block))
    /\ UNCHANGED <<prev, block, seen, tableMet>>

CountBlocks(w) ==
    /\ pc[w] = "count"
    /\ seen' = [seen EXCEPT ![w].index = Len(block)]
    /\ GoTo(w, "previous")
    /\ UNCHANGED <<prev, block, made, mine, tableMet, listMet>>

\* Mutant: AUDIT_LEDGER[0].
FirstHash == IF block = <<>> THEN GENESIS_HASH ELSE block[1].current_hash

LastHash == IF block = <<>> THEN GENESIS_HASH ELSE block[Len(block)].current_hash

ReadPrevious(w) ==
    /\ pc[w] = "previous"
    /\ seen' = [seen EXCEPT ![w].last = LastHash]
    /\ GoTo(w, "append")
    /\ UNCHANGED <<prev, block, made, mine, tableMet, listMet>>

NewBlock(w) ==
    [block_index |-> seen[w].index, previous_hash |-> seen[w].last, current_hash |-> mine[w]]

AppendBlock(w) ==
    /\ pc[w] = "append"
    /\ block' = Append(block, NewBlock(w))
    /\ End(w)
    /\ UNCHANGED <<prev, made, tableMet, listMet>>

\* The list is gone with its process.  The table meets no writer of before.
Crash ==
    /\ made < MaxEvents
    /\ made' = made + 1
    /\ block' = SystemInit(made + 1)
    /\ pc' = [w \in Writers |-> "idle"]
    /\ mine' = [w \in Writers |-> None]
    /\ seen' = [w \in Writers |-> Nothing]
    /\ listMet' = None
    /\ UNCHANGED <<prev, tableMet>>

LedgerNext ==
    \/ \E w \in Writers :
          \/ RecordEvent(w) \/ ReadLastEvent(w) \/ CommitEvent(w) \/ LoseEvent(w)
          \/ AddAuditLog(w) \/ CountBlocks(w) \/ ReadPrevious(w) \/ AppendBlock(w)
    \/ Crash

LedgerSpec == LedgerInit /\ [][LedgerNext]_ledgerVars

-----------------------------------------------------------------------------
(* Verification walks a ledger and stops at the first link that is wrong.  *)

LinksHold(hashes, links, n) ==
    \A i \in 1..n : links[i] = IF i = 1 THEN GENESIS_HASH ELSE hashes[i - 1]

Accepted(hashes, links) ==
    SubSeq(hashes, 1, Max({n \in 0..Len(hashes) : LinksHold(hashes, links, n)}))

\* verify_ledger_integrity: by created_at.
Walk(S) ==
    [i \in 1..Cardinality(S) |->
        CHOOSE e \in S : Cardinality({f \in S : f <= e}) = i]
TableWalk     == Walk(Committed)
AcceptedTable == Accepted(TableWalk, [i \in DOMAIN TableWalk |-> prev[TableWalk[i]]])

\* verify_audit_ledger_integrity: by position.
AcceptedList ==
    Accepted([i \in DOMAIN block |-> block[i].current_hash],
             [i \in DOMAIN block |-> block[i].previous_hash])

TablePromise ==
    INSTANCE HashChain WITH chain <- AcceptedTable, size <- Cardinality(Committed),
                             met <- tableMet, First <- 0, Durable <- TRUE
ListPromise ==
    INSTANCE HashChain WITH chain <- AcceptedList, size <- Len(block),
                             met <- listMet, First <- 1, Durable <- FALSE

\* The table is a chain that every recorded event extends as long as no two
\* calls of record_event overlap.  Calls that overlap may chain to one event,
\* or store an older created_at behind a newer one: verification then reports
\* a broken link, but never at an event recorded before.
TableKeepsItsPromise == TablePromise!Spec

\* The same of the list, until the process ends.
ListKeepsItsPromise == ListPromise!Spec

\* Even then both ledgers are trees: an event is chained to the genesis hash
\* or to an event that was recorded before it, in the order of recording.
ParentsAreRecorded ==
    /\ \A e \in Committed : prev[e] \in Committed \union {GENESIS_HASH}
    /\ \A i \in DOMAIN block :
          block[i].previous_hash \in {block[j].current_hash : j \in 1..(i - 1)} \union {GENESIS_HASH}
=============================================================================
