----------------------------- MODULE VoteReducer -----------------------------
(***************************************************************************)
(* The Vote Reducer program: proofs that reduce a batch of a proposal's    *)
(* vote actions into tallies, and proofs that merge two adjacent ones.     *)
(*                                                                         *)
(* Anyone may prove anything the circuits allow: batches start anywhere    *)
(* in the chain of actions and with any set of voters already nullified,   *)
(* are padded with dummies in any place, and are merged in any order.  An  *)
(* action state is a hash chain, so it is modelled by the number of        *)
(* actions it covers; a list of actions that is not the proposal's hashes  *)
(* to states no account has, and is left out.                              *)
(***************************************************************************)
EXTENDS Ballots

CONSTANTS
    Chains,                 \* lists of actions a proposal may have
    Targets,                \* actionStateHistoryTarget: Index -> states
    Index,                  \* the positions of an action state history
    VOTE_ACTION_BATCH_SIZE,
    MaxProofs               \* proofs a prover holds at a time

VARIABLES
    chain,                  \* the actions of the proposal
    target,                 \* the states the prover wants to have met
    proofs

reducerVars == <<chain, target, proofs>>

ASSUME ReducerAssumption ==
    /\ Chains \subseteq Seq(VoteAction)
    /\ Targets \subseteq [Index -> Nat]
    /\ VOTE_ACTION_BATCH_SIZE \in Nat \ {0}
    /\ MaxProofs \in Nat

\* A proof records the voting ledger it takes weights from, the actions and
\* nullifiers it starts from and ends with, its tally and the targets it
\* found.  All proofs of a proposal share the targets.
-----------------------------------------------------------------------------
Dummy == "DUMMY"

\* A batch takes the next n actions and puts dummies between them: the
\* places of the actions, in order, are a subset of the batch's places.
Batches(n) ==
    {batch \in [1..VOTE_ACTION_BATCH_SIZE -> {Dummy, "action"}] :
        Cardinality({i \in DOMAIN batch : batch[i] # Dummy}) = n}

Segment(from, to) == SubSeq(chain, from + 1, to)

\* The state the batch starts from and those after each of its actions, when
\* it starts with a dummy; else only those after each of its actions.
StatesMet(batch, from, to) ==
    IF batch[1] = Dummy THEN from..to ELSE (from + 1)..to

FoundIn(states) == {i \in Index : target[i] \in states}

\* voteWeight is zero for a nullified voter, in the input or in this batch.
Counts(nullified, list, i) ==
    /\ list[i].voter \notin nullified
    /\ \A j \in 1..(i - 1) : list[j].voter # list[i].voter

TallyOf(ledger, nullified, list) ==
    LET weight == [i \in DOMAIN list |-> ledger[list[i].voter]]
    IN  [vote \in Votes |->
            SumFunctionOnSet(weight,
                {i \in DOMAIN list :
                    list[i].vote = vote /\ Counts(nullified, list, i)})]

VotersOf(list) == {list[i].voter : i \in DOMAIN list}

\* A batch starts anywhere, with any nullifiers and any voting ledger.
ReduceBatch(ledger, from, nullified, n, batch) ==
    LET to == from + n
        list == Segment(from, to)
    IN  /\ Cardinality(proofs) < MaxProofs
        /\ proofs' = proofs \cup
               {[ledger |-> ledger,
                 fromActions |-> from, fromNullified |-> nullified,
                 toActions |-> to,
                 toNullified |-> nullified \cup VotersOf(list),
                 tally |-> TallyOf(ledger, nullified, list),
                 found |-> FoundIn(StatesMet(batch, from, to))]}
        /\ UNCHANGED <<chain, target>>

\* Mutant: the nullifier roots of the two proofs need not match.
AdjacentActions(p1, p2) ==
    /\ p1.ledger = p2.ledger
    /\ p1.toActions = p2.fromActions

Adjacent(p1, p2) ==
    /\ p1.ledger = p2.ledger
    /\ p1.toActions = p2.fromActions
    /\ p1.toNullified = p2.fromNullified

\* Mutant: a state counts as found only where both proofs met it.
FoundInBoth(p1, p2) == p1.found \cap p2.found

FoundInEither(p1, p2) == p1.found \cup p2.found

\* The prover keeps the merged proof in place of the two.
Merge(p1, p2) ==
    /\ Adjacent(p1, p2)
    /\ proofs' = (proofs \ {p1, p2}) \cup
           {[ledger |-> p1.ledger,
             fromActions |-> p1.fromActions,
             fromNullified |-> p1.fromNullified,
             toActions |-> p2.toActions,
             toNullified |-> p2.toNullified,
             tally |-> [vote \in Votes |-> p1.tally[vote] + p2.tally[vote]],
             found |-> FoundInEither(p1, p2)]}
    /\ UNCHANGED <<chain, target>>

ReducerInit ==
    /\ chain \in Chains
    /\ target \in Targets
    /\ proofs = {}

\* With the voting ledgers that a prover can know.
ReducerNext(ledgers) ==
    \/ \E ledger \in ledgers, from \in 0..Len(chain), nullified \in SUBSET Voters :
          \E n \in 0..VOTE_ACTION_BATCH_SIZE :
             /\ from + n <= Len(chain)
             /\ \E batch \in Batches(n) :
                   ReduceBatch(ledger, from, nullified, n, batch)
    \/ \E p1, p2 \in proofs : Merge(p1, p2)

-----------------------------------------------------------------------------
(* Properties *)

\* From the initial state and no nullifier, what the contract requires.
Complete(p) == p.fromActions = 0 /\ p.fromNullified = {}

\* Whatever batches and merges a complete proof is made of, it tallies what
\* the voters' first votes are worth.
CompleteProofsTallyTheBallot ==
    \A p \in proofs : Complete(p) =>
        \A vote \in Votes :
            p.tally[vote] =
                Weight(p.ledger, Ballot(Segment(0, p.toActions)), vote)

\* A target is found by a proof only if the proof passed it, and every
\* target strictly inside is found: a complete proof over all actions finds
\* every state that an account ever had, and nothing else.
FoundIsPassed ==
    \A p \in proofs : \A i \in Index :
        /\ i \in p.found => target[i] \in p.fromActions..p.toActions
        /\ target[i] \in (p.fromActions + 1)..p.toActions => i \in p.found
=============================================================================
