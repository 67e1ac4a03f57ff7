------------------------------ MODULE ChangeFeed ------------------------------
(***************************************************************************)
(* How change_sequence is assigned: database transactions that write       *)
(* archive_events concurrently (the two syncs, the orphan sweep, replays,  *)
(* of one indexer or of two), the triggers on the table, and readers that  *)
(* see only what is committed.                                             *)
(*                                                                         *)
(* A sequence hands out numbers when a row is written, not when its        *)
(* transaction commits, and never takes one back.                          *)
(***************************************************************************)
EXTENDS Integers, FiniteSetsExt

CONSTANTS
    Transactions,           \* sessions, each one transaction at a time
    Rows,
    MaxLastValue,           \* bound of the exploration
    NoTransaction,
    Limit                   \* rows of a page

VARIABLES
    changeSequence,         \* committed, of each row; 0 before its insertion
    lastValue,              \* of archive_event_change_sequence_seq
    lock,                   \* who holds the transaction-level advisory lock
    written,                \* by each open transaction: rows and numbers
    cursor,                 \* the reader's
    read                    \* history: the last version read of each row

feedVars == <<changeSequence, lastValue, lock, written, cursor, read>>

ASSUME FeedAssumption ==
    /\ MaxLastValue \in Nat
    /\ Limit \in Nat \ {0}
    /\ NoTransaction \notin Transactions

Nothing == [r \in Rows |-> 0]

-----------------------------------------------------------------------------
FeedInit ==
    /\ changeSequence = Nothing
    /\ lastValue = 0
    /\ lock = NoTransaction
    /\ written = [t \in Transactions |-> Nothing]
    /\ cursor = 0
    /\ read = Nothing

\* Mutant: the statement trigger is missing, and transactions interleave.
NoLock(t) == lock \in Transactions \cup {NoTransaction} /\ lock' = lock

\* pg_advisory_xact_lock of the statement trigger: the first statement waits
\* for it, later ones have it.
AdvisoryLock(t) == lock \in {t, NoTransaction} /\ lock' = t

\* An update waits for the transaction that wrote the row before.
RowLock(t, r) == \A other \in Transactions \ {t} : written[other][r] = 0

\* An INSERT or UPDATE that changes the row.
Write(t, r) ==
    /\ lastValue < MaxLastValue
    /\ AdvisoryLock(t)
    /\ RowLock(t, r)
    /\ lastValue' = lastValue + 1
    /\ written' = [written EXCEPT ![t][r] = lastValue + 1]
    /\ UNCHANGED <<changeSequence, cursor, read>>

End(t) ==
    /\ written[t] # Nothing
    /\ written' = [written EXCEPT ![t] = Nothing]
    /\ lock' = IF lock = t THEN NoTransaction ELSE lock
    /\ UNCHANGED <<lastValue, cursor, read>>

Commit(t) ==
    /\ End(t)
    /\ changeSequence' = [r \in Rows |->
           IF written[t][r] = 0 THEN changeSequence[r] ELSE written[t][r]]

Rollback(t) == End(t) /\ UNCHANGED changeSequence

\* Mutant: the page is one of any rows above the cursor.
AnyPage == {page \in SUBSET {r \in Rows : changeSequence[r] > cursor} :
                page # {} /\ Cardinality(page) <= Limit}

\* The Limit lowest rows above the cursor.
Pages ==
    LET above == {r \in Rows : changeSequence[r] > cursor}
    IN  {page \in SUBSET above :
            /\ page # {}
            /\ Cardinality(page) = Min({Limit, Cardinality(above)})
            /\ \A r \in page, s \in above \ page :
                  changeSequence[r] < changeSequence[s]}

\* GET /events?changeSequenceAfter=cursor; the next cursor is the number of
\* the last row.
ReadPage(page, last) ==
    /\ page \in Pages
    /\ last \in page
    /\ \A r \in page : changeSequence[r] <= changeSequence[last]
    /\ cursor' = changeSequence[last]
    /\ read' = [r \in Rows |-> IF r \in page THEN changeSequence[r] ELSE read[r]]
    /\ UNCHANGED <<changeSequence, lastValue, lock, written>>

FeedNext ==
    \/ \E t \in Transactions, r \in Rows : Write(t, r)
    \/ \E t \in Transactions : Commit(t)
    \/ \E t \in Transactions : Rollback(t)
    \/ \E page \in SUBSET Rows, last \in Rows : ReadPage(page, last)

FeedSpec == FeedInit /\ [][FeedNext]_feedVars

-----------------------------------------------------------------------------
(* Properties *)

FeedTypeOK ==
    /\ changeSequence \in [Rows -> Nat]
    /\ lastValue \in Nat
    /\ lock \in Transactions \cup {NoTransaction}
    /\ written \in [Transactions -> [Rows -> Nat]]
    /\ cursor \in Nat
    /\ read \in [Rows -> Nat]

\* A reader that follows the feed has read the latest version of every row
\* up to its cursor: no transaction commits below it.
NothingMissed ==
    \A r \in Rows : changeSequence[r] <= cursor => read[r] = changeSequence[r]

\* Only the holder of the lock has numbers that are not committed, and they
\* are above every number that is.
NumbersAhead ==
    /\ \A t \in Transactions : written[t] # Nothing => lock = t
    /\ \A t \in Transactions, r, s \in Rows :
          written[t][r] # 0 => written[t][r] > changeSequence[s]
    /\ \A t \in Transactions, r \in Rows : written[t][r] <= lastValue
    /\ \A r \in Rows : changeSequence[r] <= lastValue

ReaderBehind ==
    /\ cursor <= lastValue
    /\ \A t \in Transactions, r \in Rows :
          written[t][r] # 0 => written[t][r] > cursor

\* The inductive invariant behind NothingMissed and ImplementsFeed.
FeedIInv == FeedTypeOK /\ NumbersAhead /\ ReaderBehind /\ NothingMissed

\* What is committed is a feed: the numbers of a transaction are above all
\* those committed before it.
PublishedInOrder == INSTANCE Feed WITH Sequences <- Nat

ImplementsFeed == PublishedInOrder!Spec
=============================================================================
