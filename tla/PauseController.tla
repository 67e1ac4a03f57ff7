--------------------------- MODULE PauseController ---------------------------
(***************************************************************************)
(* The break-glass authority: the Pause Controller contract, the messages  *)
(* its signers sign off-chain, and the pause nonce of each Proposal.       *)
(*                                                                         *)
(* A signature is public once made and stays valid for its message for     *)
(* ever; anyone may submit a message with signatures collected from        *)
(* anywhere, at any time and as often as they like.  What protects the     *)
(* controller is only what the signed data and the nonces bind.            *)
(***************************************************************************)
EXTENDS Integers, Sequences, FiniteSets

CONSTANTS
    Proposals,
    Keys,                   \* keys that sign, of members or not
    Positions,              \* the five places of a committee
    Committees,             \* ordered participant lists: Positions -> Keys
    InitialCommittee,
    Threshold,              \* MIN_VALID_MULTISIG_SIGNATURES_COUNT
    MaxNonce, MaxSignatures \* bounds of the exploration

VARIABLES
    committee,              \* what multisigCommitment commits to
    nonce,                  \* the controller account's nonce
    paused,
    proposalPaused,         \* is the Proposal's status PAUSED?
    pauseNonce,             \* of each Proposal
    signatures,             \* <<key, message>> pairs in circulation
    log                     \* history: what was applied, and under which
                            \* committee

pauseVars == <<committee, nonce, paused, proposalPaused, pauseNonce, signatures,
          log>>

ASSUME CommitteeAssumption ==
    /\ IsFiniteSet(Positions)
    /\ Committees \subseteq [Positions -> Keys]
    /\ InitialCommittee \in Committees
    /\ Threshold \in 1..Cardinality(Positions)
    /\ MaxNonce \in Nat
    /\ MaxSignatures \in Nat

Nonces == 0..MaxNonce

\* What is signed.  The prefixes keep the four kinds of message apart; only
\* a rotation names a committee, only a toggle names a Proposal.
PauseTreasuryData == [type : {"pauseTreasury"}, nonce : Nonces]
UnpauseTreasuryData == [type : {"unpauseTreasury"}, nonce : Nonces]
RotateMultisigKeysData ==
    [type : {"rotateMultisigKeys"}, old : Committees, new : Committees,
     nonce : Nonces]
TogglePauseProposalData ==
    [type : {"togglePauseProposal"}, proposal : Proposals, nonce : Nonces,
     paused : BOOLEAN]

ControllerMessage ==
    PauseTreasuryData \cup UnpauseTreasuryData \cup RotateMultisigKeysData
Message == ControllerMessage \cup TogglePauseProposalData

-----------------------------------------------------------------------------
\* Mutant: the signatures are not bound to the data they are used for.
MemberSignatures(members, data) ==
    {i \in Positions : \E other \in Message : <<members[i], other>> \in signatures}

ValidPositions(members, data) ==
    {i \in Positions : <<members[i], data>> \in signatures}

\* Valid signatures are counted per position, not per key.
Verified(members, data) ==
    Cardinality(ValidPositions(members, data)) >= Threshold

PauseInit ==
    /\ committee = InitialCommittee
    /\ nonce = 0
    /\ paused = FALSE
    /\ proposalPaused = [p \in Proposals |-> FALSE]
    /\ pauseNonce = [p \in Proposals |-> 0]
    /\ signatures = {}
    /\ log = <<>>

\* Anybody signs anything, for the nonce of the day or one still to come.
Sign(key, data) ==
    /\ Cardinality(signatures) < MaxSignatures
    /\ <<key, data>> \notin signatures
    /\ signatures' = signatures \cup {<<key, data>>}
    /\ UNCHANGED <<committee, nonce, paused, proposalPaused, pauseNonce, log>>

\* Mutant: the nonce is compared but stays as it is.
RequireNonce(n) == nonce = n /\ nonce' = nonce

RequireAndIncrementNonce(n) == nonce = n /\ nonce' = nonce + 1

Record(data) == log' = Append(log, [data |-> data, under |-> committee])

\* Mutant: the incoming committee approves itself.
ApprovedByNew(new, data) == Verified(new, data)

RotationApproved(new, data) == Verified(committee, data)

RotateMultisigKeys(new, n) ==
    LET data == [type |-> "rotateMultisigKeys", old |-> committee,
                 new |-> new, nonce |-> n]
    IN  /\ RotationApproved(new, data)
        /\ RequireAndIncrementNonce(n)
        /\ committee' = new
        /\ Record(data)
        /\ UNCHANGED <<paused, proposalPaused, pauseNonce, signatures>>

PauseTreasury(n) ==
    LET data == [type |-> "pauseTreasury", nonce |-> n]
    IN  /\ Verified(committee, data)
        /\ RequireAndIncrementNonce(n)
        /\ paused' = TRUE
        /\ Record(data)
        /\ UNCHANGED <<committee, proposalPaused, pauseNonce, signatures>>

UnpauseTreasury(n) ==
    LET data == [type |-> "unpauseTreasury", nonce |-> n]
    IN  /\ Verified(committee, data)
        /\ RequireAndIncrementNonce(n)
        /\ paused' = FALSE
        /\ Record(data)
        /\ UNCHANGED <<committee, proposalPaused, pauseNonce, signatures>>

\* setPaused of the Proposal.
SetPaused(p, n, desired) ==
    /\ pauseNonce[p] = n
    /\ proposalPaused[p] # desired
    /\ proposalPaused' = [proposalPaused EXCEPT ![p] = desired]
    /\ pauseNonce' = [pauseNonce EXCEPT ![p] = n + 1]

\* The Owner's togglePauseProposal: the controller only verifies, the
\* Proposal keeps the nonce.
TogglePauseProposal(p, n, desired) ==
    LET data == [type |-> "togglePauseProposal", proposal |-> p, nonce |-> n,
                 paused |-> desired]
    IN  /\ Verified(committee, data)
        /\ SetPaused(p, n, desired)
        /\ Record(data)
        /\ UNCHANGED <<committee, nonce, paused, signatures>>

PauseNext ==
    \/ \E key \in Keys, data \in Message : Sign(key, data)
    \/ \E new \in Committees, n \in Nonces : RotateMultisigKeys(new, n)
    \/ \E n \in Nonces : PauseTreasury(n)
    \/ \E n \in Nonces : UnpauseTreasury(n)
    \/ \E p \in Proposals, n \in Nonces, desired \in BOOLEAN :
          TogglePauseProposal(p, n, desired)

PauseSpec == PauseInit /\ [][PauseNext]_pauseVars

-----------------------------------------------------------------------------
(* Properties *)

PauseTypeOK ==
    /\ committee \in Committees
    /\ nonce \in Nat
    /\ paused \in BOOLEAN
    /\ proposalPaused \in [Proposals -> BOOLEAN]
    /\ pauseNonce \in [Proposals -> Nat]
    /\ signatures \subseteq Keys \X Message
    /\ log \in Seq([data : Message, under : Committees])

\* Messages that compete for one nonce.
SameCounter(m1, m2) ==
    \/ m1 \in ControllerMessage /\ m2 \in ControllerMessage
    \/ /\ m1 \in TogglePauseProposalData /\ m2 \in TogglePauseProposalData
       /\ m1.proposal = m2.proposal

\* However often and in whatever order messages are submitted, at most one of
\* those signed for one nonce ever takes effect, and they take effect in the
\* order of their nonces.
NoReplay ==
    \A i, j \in 1..Len(log) :
        i < j /\ SameCounter(log[i].data, log[j].data)
            => log[i].data.nonce < log[j].data.nonce

\* The committee that a sequence of applied messages leads to.
CommitteeAfter(entry) ==
    IF entry.data.type = "rotateMultisigKeys" THEN entry.data.new
    ELSE entry.under

EntryAuthorised(i) ==
    /\ Verified(log[i].under, log[i].data)
    /\ log[i].data.type = "rotateMultisigKeys"
          => log[i].data.old = log[i].under
    /\ log[i].under =
          IF i = 1 THEN InitialCommittee ELSE CommitteeAfter(log[i - 1])

\* Authority passes from committee to committee by rotations that the
\* outgoing committee signed, and everything in between was signed by a
\* threshold of the positions of the committee then in office.
ChainOfAuthority ==
    /\ \A i \in 1..Len(log) : EntryAuthorised(i)
    /\ committee = IF log = <<>> THEN InitialCommittee
                   ELSE CommitteeAfter(log[Len(log)])

\* The different keys of a committee, and those of them that signed a message.
Participants(c) == {c[pos] : pos \in Positions}

Signers(entry) ==
    {key \in Participants(entry.under) : <<key, entry.data>> \in signatures}

\* A committee may list a key several times (deploy and rotateMultisigKeys
\* take any list), and its one signature counts at each place.  Each place
\* lost that way spares at most one signer: the different keys that signed
\* what was applied, with the places that repeat a key, are Threshold.
DistinctSigners ==
    \A i \in 1..Len(log) :
        LET repeated ==
                Cardinality(Positions) - Cardinality(Participants(log[i].under))
        IN  Cardinality(Signers(log[i])) + repeated >= Threshold

\* A message that was applied is behind its counter.
CountersAhead ==
    \A i \in 1..Len(log) :
        LET data == log[i].data
        IN  /\ data \in ControllerMessage => data.nonce < nonce
            /\ data \in TogglePauseProposalData
                  => data.nonce < pauseNonce[data.proposal]

\* The inductive invariant behind NoReplay and ChainOfAuthority.
PauseIInv ==
    /\ PauseTypeOK
    /\ CountersAhead
    /\ NoReplay
    /\ ChainOfAuthority
=============================================================================
