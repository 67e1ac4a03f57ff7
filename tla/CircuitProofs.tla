---------------------------- MODULE CircuitProofs ----------------------------
(***************************************************************************)
(* Proofs about the Pause Controller and about the two zk programs of a    *)
(* tally.  What they have in common: a circuit only sees what its caller   *)
(* hands it, so whoever calls, with whatever signatures or proofs are      *)
(* about, in any order, must not matter.                                   *)
(*                                                                         *)
(* PauseController: for any committees, keys, threshold and number of      *)
(* messages.  Tally, VotingLedger and VoteReducer: for every staking       *)
(* ledger, list of votes and batch size; whatever is proved in pieces and  *)
(* merged in any order, a complete proof has counted everything once.      *)
(***************************************************************************)
EXTENDS PauseController, Tally, Sums, SequenceTheorems, TLAPS

-----------------------------------------------------------------------------
(* The Pause Controller *)

USE CommitteeAssumption


Entry == [data : Message, under : Committees]

\* What an appended history looks like.
LEMMA RecordFacts ==
    ASSUME PauseTypeOK, NEW data \in Message, Record(data)
    PROVE  /\ log' \in Seq(Entry)
           /\ Len(log') = Len(log) + 1
           /\ Len(log) \in Nat
           /\ \A i \in 1..Len(log) : log'[i] = log[i]
           /\ log'[Len(log) + 1].data = data
           /\ log'[Len(log) + 1].under = committee
<1>. DEFINE e == [data |-> data, under |-> committee]
<1>1. log \in Seq(Entry) /\ e \in Entry
  BY DEF PauseTypeOK, Entry
<1>2. log' = Append(log, e)
  BY DEF Record
<1>. HIDE DEF e
<1>3. /\ log' \in Seq(Entry)
      /\ Len(log') = Len(log) + 1
      /\ Len(log) \in Nat
      /\ \A i \in 1..Len(log) : log'[i] = log[i]
      /\ log'[Len(log) + 1] = e
  BY <1>1, <1>2
<1>. QED  BY <1>3 DEF e

\* What was applied was a message, under a committee.
LEMMA LoggedMessage ==
    ASSUME PauseTypeOK, NEW i \in 1..Len(log)
    PROVE  log[i].data \in Message /\ log[i].under \in Committees
<1>1. log \in Seq(Entry)
  BY DEF PauseTypeOK, Entry
<1>2. log[i] \in Entry
  BY <1>1
<1>. QED  BY <1>2 DEF Entry

\* Signatures only accumulate, so what was verified stays verifiable.
LEMMA VerifiedMonotone ==
    ASSUME signatures \subseteq signatures', NEW members, NEW data,
           Verified(members, data)
    PROVE  Verified(members, data)'
<1>1. ValidPositions(members, data) \subseteq ValidPositions(members, data)'
  BY DEF ValidPositions
<1>2. IsFiniteSet(ValidPositions(members, data)')
  BY FS_Subset DEF ValidPositions
<1>3. /\ Cardinality(ValidPositions(members, data)) \in Nat
      /\ Cardinality(ValidPositions(members, data)') \in Nat
      /\ Cardinality(ValidPositions(members, data))
            <= Cardinality(ValidPositions(members, data)')
  BY <1>1, <1>2, FS_Subset, FS_CardinalityType
<1>. QED  BY <1>3 DEF Verified

\* The kinds of message are disjoint.
LEMMA Kinds ==
    ASSUME NEW data \in Message
    PROVE  /\ data \in ControllerMessage <=> data.type # "togglePauseProposal"
           /\ data \in TogglePauseProposalData
                <=> data.type = "togglePauseProposal"
           /\ data \in RotateMultisigKeysData
                <=> data.type = "rotateMultisigKeys"
           /\ data.nonce \in Nat
BY DEF Message, ControllerMessage, PauseTreasuryData, UnpauseTreasuryData,
       RotateMultisigKeysData, TogglePauseProposalData, Nonces

\* A message that is ahead of every message of its counter can be recorded.
LEMMA RecordKeepsOrder ==
    ASSUME PauseTypeOK, NoReplay, NEW data \in Message, Record(data),
           \A i \in 1..Len(log) :
              SameCounter(log[i].data, data) => log[i].data.nonce < data.nonce
    PROVE  NoReplay'
<1>1. /\ Len(log') = Len(log) + 1 /\ Len(log) \in Nat
      /\ \A i \in 1..Len(log) : log'[i] = log[i]
      /\ log'[Len(log) + 1].data = data
  BY RecordFacts
<1> SUFFICES ASSUME NEW i \in 1..Len(log'), NEW j \in 1..Len(log'), i < j,
                    SameCounter(log'[i].data, log'[j].data)
             PROVE  log'[i].data.nonce < log'[j].data.nonce
  BY DEF NoReplay, SameCounter
<1>2. i \in 1..Len(log)
  BY <1>1
<1>3. CASE j \in 1..Len(log)
  BY <1>1, <1>2, <1>3 DEF NoReplay
<1>4. CASE j = Len(log) + 1
  BY <1>1, <1>2, <1>4
<1>. QED  BY <1>1, <1>3, <1>4

\* So can a message that the committee in office has signed.
LEMMA RecordKeepsChain ==
    ASSUME PauseTypeOK, ChainOfAuthority, NEW data \in Message, Record(data),
           Verified(committee, data), UNCHANGED signatures,
           data.type = "rotateMultisigKeys" => data.old = committee,
           committee' = IF data.type = "rotateMultisigKeys" THEN data.new
                        ELSE committee
    PROVE  ChainOfAuthority'
<1>0. PICK n \in Nat : n = Len(log)
  BY DEF PauseTypeOK
<1>1. /\ Len(log') = n + 1 /\ n = Len(log)
      /\ \A i \in 1..n : log'[i] = log[i]
      /\ log'[n + 1].data = data
      /\ log'[n + 1].under = committee
      /\ log' \in Seq(Entry)
  BY <1>0, RecordFacts
<1>2. log' # <<>>
  BY <1>1
<1>3. committee' = CommitteeAfter(log'[Len(log')])
  BY <1>1 DEF CommitteeAfter
<1>4. ASSUME NEW i \in 1..n PROVE EntryAuthorised(i)'
  <2>1. EntryAuthorised(i)
    BY <1>0 DEF ChainOfAuthority
  <2>2. log'[i] = log[i] /\ (i # 1 => log'[i - 1] = log[i - 1])
    BY <1>1
  <2>3. ValidPositions(log'[i].under, log'[i].data)
           = ValidPositions(log[i].under, log[i].data)
    BY <2>2
  <2>. QED
    BY <2>1, <2>2 DEF EntryAuthorised, Verified, ValidPositions, CommitteeAfter
<1>5. EntryAuthorised(n + 1)'
  <2>1. committee = IF n = 0 THEN InitialCommittee ELSE CommitteeAfter(log[n])
    <3>1. log = <<>> <=> n = 0
      BY <1>0 DEF PauseTypeOK
    <3>. QED  BY <1>0, <3>1 DEF ChainOfAuthority
  <2>2. n # 0 => log'[(n + 1) - 1] = log[n]
    BY <1>1
  <2>. QED
    BY <1>1, <2>1, <2>2
       DEF EntryAuthorised, Verified, ValidPositions, CommitteeAfter
<1>6. \A i \in 1..Len(log') : i \in 1..n \/ i = n + 1
  BY <1>1
<1>7. \A i \in 1..Len(log') : EntryAuthorised(i)'
  BY <1>4, <1>5, <1>6
<1>. QED  BY <1>2, <1>3, <1>7 DEF ChainOfAuthority

\* A controller message takes the nonce of the controller and moves it on.
LEMMA ControllerStep ==
    ASSUME PauseIInv, PauseTypeOK', NEW data \in ControllerMessage, Record(data),
           Verified(committee, data), UNCHANGED <<signatures, pauseNonce>>,
           data.nonce = nonce, nonce' = nonce + 1,
           data.type = "rotateMultisigKeys" => data.old = committee,
           committee' = IF data.type = "rotateMultisigKeys" THEN data.new
                        ELSE committee
    PROVE  PauseIInv'
<1>1. data \in Message /\ PauseTypeOK /\ NoReplay /\ ChainOfAuthority
  BY DEF Message, PauseIInv
<1>2. /\ Len(log') = Len(log) + 1 /\ Len(log) \in Nat
      /\ \A i \in 1..Len(log) : log'[i] = log[i]
      /\ log'[Len(log) + 1].data = data
  BY <1>1, RecordFacts
<1>3. \A i \in 1..Len(log) : log[i].data \in Message
  BY <1>1, LoggedMessage
<1>4. data.type # "togglePauseProposal" /\ data \notin TogglePauseProposalData
  BY <1>1, Kinds
<1>5. NoReplay'
  <2>1. ASSUME NEW i \in 1..Len(log), SameCounter(log[i].data, data)
        PROVE  log[i].data.nonce < data.nonce
    BY <1>4, <2>1 DEF PauseIInv, CountersAhead, SameCounter
  <2>. QED  BY <1>1, <2>1, RecordKeepsOrder
<1>6. ChainOfAuthority'
  BY <1>1, RecordKeepsChain
<1>7. CountersAhead'
  <2>1. nonce \in Nat
    BY <1>1 DEF PauseTypeOK
  <2>2. ASSUME NEW i \in 1..Len(log)
        PROVE  /\ log[i].data \in ControllerMessage
                    => log[i].data.nonce < nonce + 1
               /\ log[i].data \in TogglePauseProposalData
                    => log[i].data.nonce < pauseNonce[log[i].data.proposal]
    <3>1. log[i].data.nonce \in Nat
      BY <1>3, Kinds
    <3>. QED  BY <2>1, <3>1 DEF PauseIInv, CountersAhead
  <2>3. ASSUME NEW i \in 1..Len(log')
        PROVE  /\ log'[i].data \in ControllerMessage
                    => log'[i].data.nonce < nonce + 1
               /\ log'[i].data \in TogglePauseProposalData
                    => log'[i].data.nonce < pauseNonce[log'[i].data.proposal]
    <3>1. CASE i \in 1..Len(log)
      BY <1>2, <2>2, <3>1
    <3>2. CASE i = Len(log) + 1
      BY <1>2, <1>4, <2>1, <3>2
    <3>. QED  BY <1>2, <3>1, <3>2
  <2>. QED
    BY <2>3 DEF CountersAhead, ControllerMessage, PauseTreasuryData,
                UnpauseTreasuryData, RotateMultisigKeysData,
                TogglePauseProposalData
<1>. QED  BY <1>5, <1>6, <1>7 DEF PauseIInv

\* A toggle takes the nonce of its proposal and moves that one on.
LEMMA ToggleStep ==
    ASSUME PauseIInv, PauseTypeOK', NEW p \in Proposals, NEW n \in Nonces,
           NEW desired \in BOOLEAN, TogglePauseProposal(p, n, desired)
    PROVE  PauseIInv'
<1>. DEFINE data == [type |-> "togglePauseProposal", proposal |-> p,
                     nonce |-> n, paused |-> desired]
<1>1. /\ data \in TogglePauseProposalData /\ data \in Message
      /\ data.type = "togglePauseProposal"
      /\ data.nonce = n /\ data.proposal = p
  BY DEF TogglePauseProposalData, Message
<1>2. /\ Verified(committee, data) /\ Record(data)
      /\ UNCHANGED <<committee, nonce, signatures>>
      /\ pauseNonce[p] = n
      /\ pauseNonce' = [pauseNonce EXCEPT ![p] = n + 1]
  BY DEF TogglePauseProposal, SetPaused
<1>. HIDE DEF data
<1>3. PauseTypeOK /\ NoReplay /\ ChainOfAuthority /\ CountersAhead
  BY DEF PauseIInv
<1>4. /\ Len(log') = Len(log) + 1 /\ Len(log) \in Nat
      /\ \A i \in 1..Len(log) : log'[i] = log[i]
      /\ log'[Len(log) + 1].data = data
  BY <1>1, <1>2, <1>3, RecordFacts
<1>5. \A i \in 1..Len(log) : log[i].data \in Message
  BY <1>3, LoggedMessage
<1>6. data \notin ControllerMessage
  BY <1>1, Kinds
<1>7. NoReplay'
  <2>1. ASSUME NEW i \in 1..Len(log), SameCounter(log[i].data, data)
        PROVE  log[i].data.nonce < data.nonce
    BY <1>1, <1>2, <1>3, <1>6, <2>1 DEF CountersAhead, SameCounter
  <2>. QED  BY <1>1, <1>2, <1>3, <2>1, RecordKeepsOrder
<1>8. ChainOfAuthority'
  BY <1>1, <1>2, <1>3, RecordKeepsChain
<1>9. CountersAhead'
  <2>1. n \in Nat /\ pauseNonce \in [Proposals -> Nat]
    BY <1>3 DEF PauseTypeOK, Nonces
  <2>2. ASSUME NEW i \in 1..Len(log)
        PROVE  /\ log[i].data \in ControllerMessage
                    => log[i].data.nonce < nonce
               /\ log[i].data \in TogglePauseProposalData
                    => log[i].data.nonce < pauseNonce'[log[i].data.proposal]
    <3>1. log[i].data.nonce \in Nat
      BY <1>5, Kinds
    <3>2. log[i].data \in TogglePauseProposalData
             => log[i].data.proposal \in Proposals
      BY DEF TogglePauseProposalData
    <3>. QED  BY <1>2, <1>3, <2>1, <3>1, <3>2 DEF CountersAhead
  <2>3. ASSUME NEW i \in 1..Len(log')
        PROVE  /\ log'[i].data \in ControllerMessage
                    => log'[i].data.nonce < nonce
               /\ log'[i].data \in TogglePauseProposalData
                    => log'[i].data.nonce < pauseNonce'[log'[i].data.proposal]
    <3>1. CASE i \in 1..Len(log)
      BY <1>4, <2>2, <3>1
    <3>2. CASE i = Len(log) + 1
      BY <1>1, <1>2, <1>4, <1>6, <2>1, <3>2
    <3>. QED  BY <1>4, <3>1, <3>2
  <2>. QED
    BY <1>2, <2>3 DEF CountersAhead, ControllerMessage, PauseTreasuryData,
                      UnpauseTreasuryData, RotateMultisigKeysData,
                      TogglePauseProposalData
<1>. QED  BY <1>7, <1>8, <1>9 DEF PauseIInv

\* Every step keeps every variable in its type.
LEMMA NextPauseTypeOK == PauseTypeOK /\ [PauseNext]_pauseVars => PauseTypeOK'
<1> SUFFICES ASSUME PauseTypeOK, [PauseNext]_pauseVars PROVE PauseTypeOK'
  OBVIOUS
<1>1. ASSUME NEW key \in Keys, NEW data \in Message, Sign(key, data)
      PROVE  PauseTypeOK'
  BY <1>1 DEF PauseTypeOK, Sign
<1>2. ASSUME NEW data \in Message, Record(data)
      PROVE  log' \in Seq([data : Message, under : Committees])
  BY <1>2, RecordFacts DEF Entry
<1>3. ASSUME NEW new \in Committees, NEW n \in Nonces,
             RotateMultisigKeys(new, n)
      PROVE  PauseTypeOK'
  <2>1. [type |-> "rotateMultisigKeys", old |-> committee, new |-> new,
         nonce |-> n] \in Message
    BY DEF Message, ControllerMessage, RotateMultisigKeysData, PauseTypeOK
  <2>2. log' \in Seq([data : Message, under : Committees])
    BY <1>2, <1>3, <2>1 DEF RotateMultisigKeys
  <2>. QED
    BY <1>3, <2>2 DEF PauseTypeOK, RotateMultisigKeys, RequireAndIncrementNonce
<1>4. ASSUME NEW n \in Nonces, PauseTreasury(n) PROVE PauseTypeOK'
  <2>1. [type |-> "pauseTreasury", nonce |-> n] \in Message
    BY DEF Message, ControllerMessage, PauseTreasuryData
  <2>2. log' \in Seq([data : Message, under : Committees])
    BY <1>2, <1>4, <2>1 DEF PauseTreasury
  <2>. QED
    BY <1>4, <2>2 DEF PauseTypeOK, PauseTreasury, RequireAndIncrementNonce
<1>5. ASSUME NEW n \in Nonces, UnpauseTreasury(n) PROVE PauseTypeOK'
  <2>1. [type |-> "unpauseTreasury", nonce |-> n] \in Message
    BY DEF Message, ControllerMessage, UnpauseTreasuryData
  <2>2. log' \in Seq([data : Message, under : Committees])
    BY <1>2, <1>5, <2>1 DEF UnpauseTreasury
  <2>3. nonce' \in Nat
    BY <1>5 DEF PauseTypeOK, UnpauseTreasury, RequireAndIncrementNonce
  <2>4. paused' \in BOOLEAN
    BY <1>5 DEF UnpauseTreasury
  <2>. QED
    BY <1>5, <2>2, <2>3, <2>4 DEF PauseTypeOK, UnpauseTreasury
<1>6. ASSUME NEW p \in Proposals, NEW n \in Nonces, NEW desired \in BOOLEAN,
             TogglePauseProposal(p, n, desired)
      PROVE  PauseTypeOK'
  <2>1. [type |-> "togglePauseProposal", proposal |-> p, nonce |-> n,
         paused |-> desired] \in Message
    BY DEF Message, TogglePauseProposalData
  <2>2. log' \in Seq([data : Message, under : Committees])
    BY <1>2, <1>6, <2>1 DEF TogglePauseProposal
  <2>3. n + 1 \in Nat
    BY DEF Nonces
  <2>. QED
    BY <1>6, <2>2, <2>3 DEF PauseTypeOK, TogglePauseProposal, SetPaused
<1>7. CASE UNCHANGED pauseVars
  BY <1>7 DEF PauseTypeOK, pauseVars
<1>. QED  BY <1>1, <1>3, <1>4, <1>5, <1>6, <1>7 DEF PauseNext

LEMMA InitPauseIInv == PauseInit => PauseIInv
<1> SUFFICES ASSUME PauseInit PROVE PauseIInv
  OBVIOUS
<1>1. log = <<>> /\ Len(log) = 0
  BY DEF PauseInit
<1>2. log \in Seq([data : Message, under : Committees])
  BY <1>1
<1>3. PauseTypeOK
  BY <1>2 DEF PauseInit, PauseTypeOK
<1>4. 1..Len(log) = {}
  BY <1>1
<1>5. CountersAhead /\ NoReplay
  BY <1>4 DEF CountersAhead, NoReplay
<1>6. ChainOfAuthority
  BY <1>1, <1>4 DEF ChainOfAuthority, PauseInit
<1>. QED  BY <1>3, <1>5, <1>6 DEF PauseIInv

LEMMA NextPauseIInv == PauseIInv /\ [PauseNext]_pauseVars => PauseIInv'
<1> SUFFICES ASSUME PauseIInv, [PauseNext]_pauseVars PROVE PauseIInv'
  OBVIOUS
<1>1. PauseTypeOK /\ PauseTypeOK'
  BY NextPauseTypeOK DEF PauseIInv
<1>2. ASSUME UNCHANGED <<committee, nonce, pauseNonce, log>>,
             signatures \subseteq signatures'
      PROVE  PauseIInv'
  <2>1. CountersAhead' /\ NoReplay'
    BY <1>2 DEF PauseIInv, CountersAhead, NoReplay, SameCounter, ControllerMessage,
                PauseTreasuryData, UnpauseTreasuryData,
                RotateMultisigKeysData, TogglePauseProposalData
  <2>2. ASSUME NEW i \in 1..Len(log) PROVE EntryAuthorised(i)'
    <3>1. EntryAuthorised(i)
      BY DEF PauseIInv, ChainOfAuthority
    <3>2. PICK members, data : members = log[i].under /\ data = log[i].data
      OBVIOUS
    <3>3. Verified(members, data)'
      BY <1>2, <3>1, <3>2, VerifiedMonotone DEF EntryAuthorised
    <3>4. Verified(log[i].under, log[i].data)'
      BY <1>2, <3>2, <3>3 DEF Verified, ValidPositions
    <3>. QED  BY <1>2, <3>1, <3>4 DEF EntryAuthorised
  <2>3. ChainOfAuthority'
    BY <1>2, <2>2 DEF PauseIInv, ChainOfAuthority
  <2>. QED  BY <1>1, <2>1, <2>3 DEF PauseIInv
<1>3. ASSUME NEW key \in Keys, NEW data \in Message, Sign(key, data)
      PROVE  PauseIInv'
  BY <1>2, <1>3 DEF Sign
<1>4. ASSUME NEW new \in Committees, NEW n \in Nonces,
             RotateMultisigKeys(new, n)
      PROVE  PauseIInv'
  <2>1. [type |-> "rotateMultisigKeys", old |-> committee, new |-> new,
         nonce |-> n] \in ControllerMessage
    BY <1>1 DEF ControllerMessage, RotateMultisigKeysData, PauseTypeOK
  <2>. QED
    BY <1>1, <1>4, <2>1, ControllerStep
       DEF RotateMultisigKeys, RequireAndIncrementNonce, RotationApproved
<1>5. ASSUME NEW n \in Nonces, PauseTreasury(n) PROVE PauseIInv'
  <2>1. [type |-> "pauseTreasury", nonce |-> n] \in ControllerMessage
    BY DEF ControllerMessage, PauseTreasuryData
  <2>. QED
    BY <1>1, <1>5, <2>1, ControllerStep
       DEF PauseTreasury, RequireAndIncrementNonce
<1>6. ASSUME NEW n \in Nonces, UnpauseTreasury(n) PROVE PauseIInv'
  <2>1. [type |-> "unpauseTreasury", nonce |-> n] \in ControllerMessage
    BY DEF ControllerMessage, UnpauseTreasuryData
  <2>. QED
    BY <1>1, <1>6, <2>1, ControllerStep
       DEF UnpauseTreasury, RequireAndIncrementNonce
<1>7. CASE UNCHANGED pauseVars
  BY <1>2, <1>7 DEF pauseVars
<1>. QED
  BY <1>1, <1>3, <1>4, <1>5, <1>6, <1>7, ToggleStep DEF PauseNext

\* The inductive invariant holds of every reachable state.
THEOREM PauseInductive == PauseSpec => []PauseIInv
BY InitPauseIInv, NextPauseIInv, PTL DEF PauseSpec

\* For any threshold, committees and stock of signatures, at most one of the
\* messages signed for a nonce is ever applied, in the order of the nonces.
THEOREM MessagesAppliedOnce == PauseSpec => []NoReplay
<1>. PauseIInv => NoReplay
  BY DEF PauseIInv
<1>. QED  BY PauseInductive, PTL

\* Authority is handed on only by rotations the outgoing committee signed.
THEOREM AuthorityHandedOn == PauseSpec => []ChainOfAuthority
<1>. PauseIInv => ChainOfAuthority
  BY DEF PauseIInv
<1>. QED  BY PauseInductive, PTL

\* A function on a finite set takes no more values than there are arguments.
LEMMA ImageSize ==
    ASSUME NEW S, IsFiniteSet(S), NEW c
    PROVE  /\ IsFiniteSet({c[x] : x \in S})
           /\ Cardinality({c[x] : x \in S}) <= Cardinality(S)
<1>. DEFINE T == {c[x] : x \in S}
            f == [x \in S |-> c[x]]
<1>1. f \in Surjection(S, T)
  BY DEF Surjection
<1>. QED  BY <1>1, FS_Surjection

\* Each key that did not sign has a place without a valid signature, so the
\* different signers are at most as many places short of Threshold as the
\* committee repeats a key: also for committees that do.
THEOREM ThresholdOfSigners == PauseSpec => []DistinctSigners
<1>1. ASSUME PauseIInv, NEW i \in 1..Len(log)
      PROVE  Cardinality(Signers(log[i]))
                + (Cardinality(Positions)
                     - Cardinality(Participants(log[i].under)))
                >= Threshold
  <2>. DEFINE c == log[i].under
              data == log[i].data
              S == ValidPositions(c, data)
              M == Participants(c)
              T == Signers(log[i])
              R == Positions \ S
              U == {c[pos] : pos \in R}
  <2>1. IsFiniteSet(Positions) /\ S \subseteq Positions
    BY DEF ValidPositions
  <2>2. IsFiniteSet(M) /\ IsFiniteSet(R)
    BY <2>1, ImageSize, FS_Subset DEF Participants
  <2>3. IsFiniteSet(U) /\ Cardinality(U) <= Cardinality(R)
    BY <2>2, ImageSize
  <2>4. T \subseteq M /\ M \ T \subseteq U
    BY DEF Signers, Participants, ValidPositions
  <2>5. Cardinality(S) >= Threshold
    BY <1>1 DEF PauseIInv, ChainOfAuthority, EntryAuthorised, Verified
  <2>. HIDE DEF c, data, S, M, T, R, U
  <2>6. Cardinality(R) = Cardinality(Positions) - Cardinality(S)
    <3>1. Positions \cap S = S
      BY <2>1
    <3>. QED  BY <2>1, <3>1, FS_Difference DEF R
  <2>7. Cardinality(M \ T) = Cardinality(M) - Cardinality(T)
    <3>1. M \cap T = T
      BY <2>4
    <3>. QED  BY <2>2, <3>1, FS_Difference
  <2>8. Cardinality(M \ T) <= Cardinality(U)
    BY <2>3, <2>4, FS_Subset
  <2>9. /\ Cardinality(Positions) \in Nat /\ Cardinality(S) \in Nat
        /\ Cardinality(M) \in Nat /\ Cardinality(T) \in Nat
        /\ Cardinality(U) \in Nat /\ Threshold \in Nat
    BY <2>1, <2>2, <2>3, <2>4, FS_Subset, FS_CardinalityType
  <2>10. Cardinality(T) + (Cardinality(Positions) - Cardinality(M)) >= Threshold
    BY <2>3, <2>5, <2>6, <2>7, <2>8, <2>9
  <2>. QED  BY <2>10 DEF M, T, c
<1>2. PauseIInv => DistinctSigners
  BY <1>1 DEF DistinctSigners
<1>. QED  BY <1>2, PauseInductive, PTL

HIDE CommitteeAssumption

USE LedgerAssumption, ReducerAssumption, VotersDelegate

-----------------------------------------------------------------------------
(* Digests of the staking ledger *)

VotingLedgers == [Delegates -> Nat]

Indexes == {i \in 0..Len(stakingLedger) : Occupied(i)}

\* The accounts of a range that delegate to d.
Delegating(d, from, to) ==
    {i \in from..to : Occupied(i) /\ AccountAt(i).delegate = d}

\* What a digest says of the accounts in its range.
DigestSound(p) ==
    /\ p.fromIndex \in Nat /\ p.toIndex \in Nat
    /\ p.fromIndex <= p.toIndex + 1
    /\ p.fromLedger \in VotingLedgers
    /\ p.toLedger =
          [d \in Delegates |->
             p.fromLedger[d] + Delegated(d, p.fromIndex, p.toIndex)]
    /\ p.exhausted => ~ Occupied(p.toIndex + 1)

DigestInv ==
    /\ stakingLedger \in StakingLedgers
    /\ \A p \in digests : DigestSound(p)

\* The ledger is a list of accounts, and balances are natural numbers.
LEMMA AccountType ==
    ASSUME stakingLedger \in StakingLedgers
    PROVE  /\ Len(stakingLedger) \in Nat
           /\ \A i \in Nat : Occupied(i) <=> i + 1 \in DOMAIN stakingLedger
           /\ \A i \in DOMAIN stakingLedger : stakingLedger[i] \in Account
           /\ DOMAIN stakingLedger = 1..Len(stakingLedger)
<1>1. stakingLedger \in Seq(Account)
  OBVIOUS
<1>. QED  BY <1>1 DEF Occupied

\* What is delegated in a range is a natural number.
LEMMA DelegatedType ==
    ASSUME stakingLedger \in StakingLedgers,
           NEW d, NEW from \in Nat, NEW to \in Nat
    PROVE  /\ IsFiniteSet(Delegating(d, from, to))
           /\ \A i \in Delegating(d, from, to) : BalanceToAdd[i] \in Nat
           /\ Delegated(d, from, to)
                 = SumFunctionOnSet(BalanceToAdd, Delegating(d, from, to))
           /\ Delegated(d, from, to) \in Nat
<1>1. IsFiniteSet(Delegating(d, from, to))
  <2>1. IsFiniteSet(from..to)
    BY FS_Interval
  <2>2. Delegating(d, from, to) \in SUBSET (from..to)
    BY DEF Delegating
  <2>. QED  BY <2>1, <2>2, FS_Subset
<1>2. ASSUME NEW i \in Delegating(d, from, to)
      PROVE  BalanceToAdd[i] \in Nat
  <2>1. i \in Indexes /\ AccountAt(i) \in Account
    BY AccountType DEF Delegating, Indexes, AccountAt, Occupied
  <2>2. BalanceToAdd[i]
          = IF AccountAt(i).isMinaAccount THEN AccountAt(i).balance ELSE 0
    BY <2>1 DEF BalanceToAdd, Indexes
  <2>. QED  BY <2>1, <2>2 DEF Account
<1>3. Delegated(d, from, to)
        = SumFunctionOnSet(BalanceToAdd, Delegating(d, from, to))
  BY DEF Delegated, Delegating
<1>. QED  BY <1>1, <1>2, <1>3, SumType

\* Two adjacent ranges add up to the range of both.
LEMMA DelegatedAdds ==
    ASSUME stakingLedger \in StakingLedgers, NEW d,
           NEW from \in Nat, NEW mid \in Nat, NEW to \in Nat,
           from <= mid + 1, mid <= to
    PROVE  Delegated(d, from, to)
             = Delegated(d, from, mid) + Delegated(d, mid + 1, to)
<1>. DEFINE A == Delegating(d, from, mid)
            B == Delegating(d, mid + 1, to)
<1>1. Delegating(d, from, to) = A \cup B /\ A \cap B = {}
  BY DEF Delegating
<1>0. mid + 1 \in Nat
  OBVIOUS
<1>2. /\ IsFiniteSet(A) /\ IsFiniteSet(B)
      /\ \A i \in A \cup B : BalanceToAdd[i] \in Nat
  <2>1. IsFiniteSet(A) /\ \A i \in A : BalanceToAdd[i] \in Nat
    BY DelegatedType
  <2>2. IsFiniteSet(B) /\ \A i \in B : BalanceToAdd[i] \in Nat
    BY <1>0, DelegatedType
  <2>. QED  BY <2>1, <2>2
<1>3. /\ Delegated(d, from, mid) = SumFunctionOnSet(BalanceToAdd, A)
      /\ Delegated(d, mid + 1, to) = SumFunctionOnSet(BalanceToAdd, B)
      /\ Delegated(d, from, to) = SumFunctionOnSet(BalanceToAdd, A \cup B)
  <2>1. Delegated(d, from, mid) = SumFunctionOnSet(BalanceToAdd, A)
    BY DelegatedType
  <2>2. Delegated(d, mid + 1, to) = SumFunctionOnSet(BalanceToAdd, B)
    BY <1>0, DelegatedType
  <2>3. Delegated(d, from, to)
          = SumFunctionOnSet(BalanceToAdd, Delegating(d, from, to))
    BY DelegatedType
  <2>. QED  BY <1>1, <2>1, <2>2, <2>3
<1>. HIDE DEF A, B
<1>4. SumFunctionOnSet(BalanceToAdd, A \cup B)
        = SumFunctionOnSet(BalanceToAdd, A) + SumFunctionOnSet(BalanceToAdd, B)
  BY <1>1, <1>2, SumUnion
<1>. QED  BY <1>3, <1>4

\* A digest leads to a voting ledger, so a batch starts with one.
LEMMA LedgersType ==
    ASSUME DigestInv
    PROVE  Ledgers \subseteq VotingLedgers
<1>1. EmptyVotingLedger \in VotingLedgers
  BY DEF EmptyVotingLedger, VotingLedgers
<1>2. ASSUME NEW p \in digests PROVE p.toLedger \in VotingLedgers
  <2>1. DigestSound(p) /\ stakingLedger \in StakingLedgers
    BY DEF DigestInv
  <2>2. \A d \in Delegates :
           p.fromLedger[d] \in Nat /\ Delegated(d, p.fromIndex, p.toIndex) \in Nat
    BY <2>1, DelegatedType DEF DigestSound, VotingLedgers
  <2>. QED  BY <2>1, <2>2 DEF DigestSound, VotingLedgers
<1>. QED  BY <1>1, <1>2 DEF Ledgers

LEMMA DigestStep ==
    ASSUME DigestInv, NEW from \in 0..Len(stakingLedger), NEW ledger \in Ledgers,
           Digest(from, ledger)
    PROVE  DigestInv'
<1>. DEFINE to == from + ACCOUNT_BATCH_SIZE - 1
            new == [fromIndex |-> from, fromLedger |-> ledger,
                    toIndex |-> LastIndex(from),
                    toLedger |-> [d \in Delegates |->
                        ledger[d] + Delegated(d, from, to)],
                    exhausted |-> FALSE]
<1>1. /\ digests' = digests \cup {new} /\ stakingLedger' = stakingLedger
      /\ stakingLedger \in StakingLedgers
  BY DEF Digest, DigestInv
<1>2. from \in Nat /\ to \in Nat /\ from <= to + 1 /\ LastIndex(from) = to
  BY <1>1, AccountType DEF LastIndex
<1>3. ledger \in VotingLedgers
  BY LedgersType
<1>. HIDE DEF to
<1>4. DigestSound(new)
  BY <1>2, <1>3 DEF DigestSound
<1>. HIDE DEF new
<1>5. \A p : DigestSound(p)' <=> DigestSound(p)
  BY <1>1 DEF DigestSound, Occupied, Delegated, BalanceToAdd, AccountAt
<1>. QED  BY <1>1, <1>4, <1>5 DEF DigestInv

LEMMA MergeDigestsStep ==
    ASSUME DigestInv, NEW p1 \in digests, NEW p2 \in digests,
           MergeDigests(p1, p2)
    PROVE  DigestInv'
<1>. DEFINE new == [fromIndex |-> p1.fromIndex, fromLedger |-> p1.fromLedger,
                    toIndex |-> p2.toIndex, toLedger |-> p2.toLedger,
                    exhausted |-> FALSE]
<1>1. /\ digests' = (digests \ {p1, p2}) \cup {new}
      /\ stakingLedger' = stakingLedger /\ stakingLedger \in StakingLedgers
      /\ DigestSound(p1) /\ DigestSound(p2)
      /\ p1.toIndex + 1 = p2.fromIndex /\ p1.toLedger = p2.fromLedger
  BY DEF MergeDigests, AdjacentDigests, DigestInv
<1>2. /\ p1.fromIndex \in Nat /\ p1.toIndex \in Nat /\ p2.toIndex \in Nat
      /\ p1.fromIndex <= p1.toIndex + 1 /\ p1.toIndex <= p2.toIndex
      /\ p1.fromIndex <= p2.toIndex + 1
      /\ p1.fromLedger \in VotingLedgers
  BY <1>1 DEF DigestSound
<1>3. ASSUME NEW d \in Delegates
      PROVE  p2.toLedger[d]
               = p1.fromLedger[d] + Delegated(d, p1.fromIndex, p2.toIndex)
  <2>1. /\ p1.toLedger[d]
             = p1.fromLedger[d] + Delegated(d, p1.fromIndex, p1.toIndex)
        /\ p2.toLedger[d]
             = p1.toLedger[d] + Delegated(d, p1.toIndex + 1, p2.toIndex)
    BY <1>1 DEF DigestSound
  <2>2. Delegated(d, p1.fromIndex, p2.toIndex)
          = Delegated(d, p1.fromIndex, p1.toIndex)
              + Delegated(d, p1.toIndex + 1, p2.toIndex)
    BY <1>1, <1>2, DelegatedAdds
  <2>3. /\ p1.fromLedger[d] \in Nat
        /\ Delegated(d, p1.fromIndex, p1.toIndex) \in Nat
        /\ Delegated(d, p1.toIndex + 1, p2.toIndex) \in Nat
    <3>1. p1.toIndex + 1 \in Nat
      BY <1>2
    <3>2. p1.fromLedger[d] \in Nat
      BY <1>2 DEF VotingLedgers
    <3>3. Delegated(d, p1.fromIndex, p1.toIndex) \in Nat
      BY <1>1, <1>2, DelegatedType
    <3>4. Delegated(d, p1.toIndex + 1, p2.toIndex) \in Nat
      BY <1>1, <1>2, <3>1, DelegatedType
    <3>. QED  BY <3>2, <3>3, <3>4
  <2>. QED  BY <2>1, <2>2, <2>3
<1>4. p2.toLedger = [d \in Delegates |-> p2.toLedger[d]]
  BY <1>1 DEF DigestSound
<1>5. DigestSound(new)
  BY <1>2, <1>3, <1>4 DEF DigestSound
<1>. HIDE DEF new
<1>6. \A p : DigestSound(p)' <=> DigestSound(p)
  BY <1>1 DEF DigestSound, Occupied, Delegated, BalanceToAdd, AccountAt
<1>. QED  BY <1>1, <1>5, <1>6 DEF DigestInv

LEMMA ExhaustStep ==
    ASSUME DigestInv, NEW p \in digests, Exhaust(p)
    PROVE  DigestInv'
<1>. DEFINE new == [p EXCEPT !.exhausted = TRUE]
<1>1. /\ digests' = (digests \ {p}) \cup {new}
      /\ stakingLedger' = stakingLedger /\ stakingLedger \in StakingLedgers
      /\ DigestSound(p) /\ ~ Occupied(p.toIndex + 1)
  BY DEF Exhaust, LeafEmpty, DigestInv
<1>2. /\ new.fromIndex = p.fromIndex /\ new.fromLedger = p.fromLedger
      /\ new.toIndex = p.toIndex /\ new.toLedger = p.toLedger
  OBVIOUS
<1>. HIDE DEF new
<1>3. DigestSound(new)
  BY <1>1, <1>2 DEF DigestSound
<1>4. \A q : DigestSound(q)' <=> DigestSound(q)
  BY <1>1 DEF DigestSound, Occupied, Delegated, BalanceToAdd, AccountAt
<1>. QED  BY <1>1, <1>3, <1>4 DEF DigestInv

LEMMA LedgerNextStep == DigestInv /\ LedgerNext => DigestInv'
BY DigestStep, MergeDigestsStep, ExhaustStep DEF LedgerNext

LEMMA LedgerSame == DigestInv /\ UNCHANGED ledgerVars => DigestInv'
<1>. SUFFICES ASSUME DigestInv, UNCHANGED ledgerVars PROVE DigestInv'
  OBVIOUS
<1>1. \A p : DigestSound(p)' <=> DigestSound(p)
  BY DEF ledgerVars, DigestSound, Occupied, Delegated, BalanceToAdd, AccountAt
<1>. QED  BY <1>1 DEF ledgerVars, DigestInv

\* The accounts of the whole ledger that delegate MINA to d, by their places.
MinaOf(d) ==
    {i \in DOMAIN stakingLedger :
        stakingLedger[i].isMinaAccount /\ stakingLedger[i].delegate = d}

\* A range that ends at an empty leaf has every account.
LEMMA DelegatedWhole ==
    ASSUME stakingLedger \in StakingLedgers, NEW d,
           NEW to \in Nat, ~ Occupied(to + 1)
    PROVE  Delegated(d, 0, to) = SumFunctionOnSet(Balance, MinaOf(d))
<1>. DEFINE S == Delegating(d, 0, to)
            M == {i \in S : AccountAt(i).isMinaAccount}
            next == [i \in M |-> i + 1]
<1>1. /\ IsFiniteSet(S) /\ \A i \in S : BalanceToAdd[i] \in Nat
      /\ Delegated(d, 0, to) = SumFunctionOnSet(BalanceToAdd, S)
  BY DelegatedType
<1>2. \A i \in S : /\ i \in Nat /\ i + 1 \in DOMAIN stakingLedger
                   /\ AccountAt(i) = stakingLedger[i + 1]
                   /\ AccountAt(i).delegate = d
                   /\ i \in Indexes
  BY AccountType DEF Delegating, AccountAt, Indexes, Occupied
<1>3. \A i \in S : BalanceToAdd[i] =
         IF AccountAt(i).isMinaAccount THEN AccountAt(i).balance ELSE 0
  BY <1>2 DEF BalanceToAdd, Indexes
<1>4. SumFunctionOnSet(BalanceToAdd, S) = SumFunctionOnSet(BalanceToAdd, M)
  <2>1. M \in SUBSET S /\ \A i \in S \ M : BalanceToAdd[i] = 0
    BY <1>3
  <2>. HIDE DEF M, S
  <2>. QED  BY <1>1, <2>1, SumSupport
<1>5. Renames(next, BalanceToAdd, M, Balance, MinaOf(d))
  <2>1. ASSUME NEW i \in M
        PROVE  next[i] \in MinaOf(d) /\ Balance[next[i]] = BalanceToAdd[i]
    BY <1>2, <1>3 DEF MinaOf, Balance
  <2>2. ASSUME NEW i \in M, NEW j \in M, next[i] = next[j]
        PROVE  i = j
    BY <1>2, <2>2
  <2>3. ASSUME NEW k \in MinaOf(d)
        PROVE  \E i \in M : next[i] = k
    <3>0. /\ Len(stakingLedger) \in Nat /\ k \in 1..Len(stakingLedger)
          /\ Len(stakingLedger) <= to + 1
      BY AccountType DEF MinaOf, Occupied
    <3>1. /\ k - 1 \in 0..to /\ Occupied(k - 1) /\ AccountAt(k - 1) = stakingLedger[k]
      BY <3>0 DEF Occupied, AccountAt
    <3>2. k - 1 \in M
      BY <3>1 DEF MinaOf, Delegating
    <3>. QED  BY <3>2, AccountType DEF MinaOf
  <2>. HIDE DEF next, M
  <2>. QED  BY <2>1, <2>2, <2>3 DEF Renames
<1>6. IsFiniteSet(M) /\ \A i \in M : BalanceToAdd[i] \in Nat
  BY <1>1, FS_Subset
<1>. HIDE DEF M, next, S
<1>7. SumFunctionOnSet(Balance, MinaOf(d)) = SumFunctionOnSet(BalanceToAdd, M)
  BY <1>5, <1>6, SumRenamed
<1>. QED  BY <1>1, <1>4, <1>7

LEMMA DigestsWhole == DigestInv => CompleteProofsDelegateAll
<1>. SUFFICES ASSUME DigestInv, NEW p \in digests, CompleteDigest(p),
                     NEW d \in Delegates
              PROVE  p.toLedger[d] = SumFunctionOnSet(Balance, MinaOf(d))
  BY Zenon DEF CompleteProofsDelegateAll, MinaOf
<1>1. /\ stakingLedger \in StakingLedgers /\ DigestSound(p)
      /\ p.fromIndex = 0 /\ p.fromLedger = EmptyVotingLedger /\ p.exhausted
  BY DEF DigestInv, CompleteDigest
<1>2. /\ p.toIndex \in Nat /\ ~ Occupied(p.toIndex + 1)
      /\ p.toLedger[d] = p.fromLedger[d] + Delegated(d, 0, p.toIndex)
  BY <1>1 DEF DigestSound
<1>3. p.fromLedger[d] = 0
  BY <1>1 DEF EmptyVotingLedger
<1>4. Delegated(d, 0, p.toIndex) \in Nat
  <2>1. 0 \in Nat
    OBVIOUS
  <2>. QED  BY <1>1, <1>2, <2>1, DelegatedType
<1>. QED  BY <1>1, <1>2, <1>3, <1>4, DelegatedWhole

-----------------------------------------------------------------------------
(* Proofs of votes *)

\* What a vote is worth with a voting ledger, by its place in the chain.
Worth(ledger) == [k \in DOMAIN chain |-> ledger[chain[k].voter]]

\* The votes after from, up to to, that count for one of the three answers.
Counted(vote, nullified, from, to) ==
    {k \in (from + 1)..to :
        /\ chain[k].vote = vote
        /\ chain[k].voter \notin nullified
        /\ \A j \in (from + 1)..(k - 1) : chain[j].voter # chain[k].voter}

VotersIn(from, to) == {chain[k].voter : k \in (from + 1)..to}

Total(ledger, vote, nullified, from, to) ==
    SumFunctionOnSet(Worth(ledger), Counted(vote, nullified, from, to))

\* What a proof says of the votes it covers.
ProofSound(p) ==
    /\ p.ledger \in VotingLedgers
    /\ p.fromActions \in Nat /\ p.toActions \in 0..Len(chain)
    /\ p.fromActions <= p.toActions
    /\ p.toNullified = p.fromNullified \cup VotersIn(p.fromActions, p.toActions)
    /\ p.tally =
          [vote \in Votes |->
             Total(p.ledger, vote, p.fromNullified, p.fromActions, p.toActions)]
    /\ p.found \subseteq FoundIn(p.fromActions..p.toActions)
    /\ FoundIn((p.fromActions + 1)..p.toActions) \subseteq p.found

ProofInv ==
    /\ chain \in Chains
    /\ target \in Targets
    /\ \A p \in proofs : ProofSound(p)

LEMMA ChainType ==
    ASSUME chain \in Chains
    PROVE  /\ chain \in Seq(VoteAction) /\ Len(chain) \in Nat
           /\ DOMAIN chain = 1..Len(chain)
           /\ \A k \in 1..Len(chain) :
                 chain[k].voter \in Voters /\ chain[k].vote \in Votes
<1>1. chain \in Seq(VoteAction)
  OBVIOUS
<1>2. Len(chain) \in Nat /\ DOMAIN chain = 1..Len(chain)
  BY <1>1
<1>3. ASSUME NEW k \in 1..Len(chain) PROVE chain[k] \in VoteAction
  BY <1>1
<1>. QED  BY <1>1, <1>2, <1>3 DEF VoteAction

LEMMA SegmentOf ==
    ASSUME chain \in Chains, NEW from \in Nat, NEW to \in 0..Len(chain),
           from <= to
    PROVE  /\ Len(Segment(from, to)) = to - from
           /\ DOMAIN Segment(from, to) = 1..(to - from)
           /\ \A i \in 1..(to - from) : Segment(from, to)[i] = chain[from + i]
<1>1. chain \in Seq(VoteAction) /\ Len(chain) \in Nat
  BY ChainType
<1>. QED  BY <1>1 DEF Segment

LEMMA TotalType ==
    ASSUME chain \in Chains, NEW ledger \in VotingLedgers, NEW vote,
           NEW nullified, NEW from \in Nat, NEW to \in 0..Len(chain)
    PROVE  /\ IsFiniteSet(Counted(vote, nullified, from, to))
           /\ \A k \in Counted(vote, nullified, from, to) :
                 /\ k \in DOMAIN chain
                 /\ Worth(ledger)[k] \in Nat
           /\ Total(ledger, vote, nullified, from, to) \in Nat
<1>. DEFINE C == Counted(vote, nullified, from, to)
<1>1. C \in SUBSET ((from + 1)..to) /\ to \in Nat
  BY ChainType DEF Counted
<1>2. IsFiniteSet(C)
  <2>1. IsFiniteSet((from + 1)..to)
    BY <1>1, FS_Interval
  <2>. QED  BY <1>1, <2>1, FS_Subset
<1>3. ASSUME NEW k \in C PROVE k \in DOMAIN chain /\ Worth(ledger)[k] \in Nat
  <2>1. k \in 1..Len(chain)
    BY <1>1, ChainType
  <2>. QED  BY <2>1, ChainType DEF Worth, VotingLedgers
<1>4. Total(ledger, vote, nullified, from, to) \in Nat
  <2>. HIDE DEF C
  <2>1. SumFunctionOnSet(Worth(ledger), C) \in Nat
    BY <1>2, <1>3, SumType
  <2>. QED  BY <2>1 DEF Total, C
<1>. QED  BY <1>2, <1>3, <1>4

\* The tally of a batch, by the places of its votes in the chain.
LEMMA TallyOfSegment ==
    ASSUME chain \in Chains, NEW ledger \in VotingLedgers, NEW nullified,
           NEW from \in Nat, NEW to \in 0..Len(chain), from <= to
    PROVE  TallyOf(ledger, nullified, Segment(from, to))
             = [vote \in Votes |-> Total(ledger, vote, nullified, from, to)]
<1>. DEFINE list == Segment(from, to)
            weight == [i \in DOMAIN list |-> ledger[list[i].voter]]
            In(vote) == {i \in DOMAIN list :
                           list[i].vote = vote /\ Counts(nullified, list, i)}
            place == [i \in DOMAIN list |-> from + i]
<1>1. TallyOf(ledger, nullified, list)
        = [vote \in Votes |-> SumFunctionOnSet(weight, In(vote))]
  BY Zenon DEF TallyOf
<1>2. /\ DOMAIN list = 1..(to - from) /\ to \in Nat
      /\ \A i \in DOMAIN list : list[i] = chain[from + i] /\ from + i \in DOMAIN chain
  <2>1. /\ DOMAIN list = 1..(to - from)
        /\ \A i \in 1..(to - from) : list[i] = chain[from + i]
    BY SegmentOf
  <2>2. DOMAIN chain = 1..Len(chain) /\ Len(chain) \in Nat /\ to \in Nat
    BY ChainType
  <2>. HIDE DEF list
  <2>. QED  BY <2>1, <2>2
<1>. HIDE DEF list
<1>3. ASSUME NEW vote \in Votes
      PROVE  SumFunctionOnSet(weight, In(vote))
               = Total(ledger, vote, nullified, from, to)
  <2>. DEFINE C == Counted(vote, nullified, from, to)
              S == In(vote)
  <2>1. \A i \in 1..(to - from) :
           i \in S <=> from + i \in C
    <3>. SUFFICES ASSUME NEW i \in 1..(to - from)
                  PROVE  i \in S <=> from + i \in C
      OBVIOUS
    <3>1. (\A j \in 1..(i - 1) : list[j].voter # list[i].voter)
            <=> \A k \in (from + 1)..(from + i - 1) :
                   chain[k].voter # chain[from + i].voter
      <4>1. ASSUME \A j \in 1..(i - 1) : list[j].voter # list[i].voter,
                   NEW k \in (from + 1)..(from + i - 1)
            PROVE  chain[k].voter # chain[from + i].voter
        <5>1. k - from \in 1..(i - 1) /\ k - from \in DOMAIN list
              /\ from + (k - from) = k
          BY <1>2
        <5>. QED  BY <1>2, <4>1, <5>1
      <4>2. ASSUME \A k \in (from + 1)..(from + i - 1) :
                      chain[k].voter # chain[from + i].voter,
                   NEW j \in 1..(i - 1)
            PROVE  list[j].voter # list[i].voter
        <5>1. from + j \in (from + 1)..(from + i - 1) /\ j \in DOMAIN list
          BY <1>2
        <5>. QED  BY <1>2, <4>2, <5>1
      <4>. QED  BY <4>1, <4>2
    <3>2. i \in DOMAIN list /\ list[i] = chain[from + i]
      BY <1>2
    <3>3. i \in S <=> /\ list[i].vote = vote /\ list[i].voter \notin nullified
                      /\ \A j \in 1..(i - 1) : list[j].voter # list[i].voter
      BY <3>2 DEF Counts
    <3>4. from + i \in C
            <=> /\ chain[from + i].vote = vote
                /\ chain[from + i].voter \notin nullified
                /\ \A k \in (from + 1)..(from + i - 1) :
                      chain[k].voter # chain[from + i].voter
      BY <1>2 DEF Counted
    <3>. QED  BY <3>1, <3>2, <3>3, <3>4
  <2>2. S \in SUBSET (1..(to - from)) /\ C \in SUBSET ((from + 1)..to)
    BY <1>2 DEF Counted
  <2>3. Renames(place, weight, S, Worth(ledger), C)
    <3>1. ASSUME NEW i \in S
          PROVE  place[i] \in C /\ Worth(ledger)[place[i]] = weight[i]
      <4>1. i \in DOMAIN list /\ i \in 1..(to - from) /\ place[i] = from + i
        BY <1>2, <2>2
      <4>. QED  BY <1>2, <2>1, <4>1 DEF Worth
    <3>2. ASSUME NEW i \in S, NEW j \in S, place[i] = place[j]
          PROVE  i = j
      BY <1>2, <2>2, <3>2
    <3>3. ASSUME NEW k \in C PROVE \E i \in S : place[i] = k
      <4>1. k - from \in 1..(to - from) /\ from + (k - from) = k
        BY <1>2, <2>2
      <4>2. k - from \in S
        BY <2>1, <4>1
      <4>3. place[k - from] = k
        BY <1>2, <4>1
      <4>. QED  BY <4>2, <4>3
    <3>. HIDE DEF S, C, place, weight
    <3>. QED  BY <3>1, <3>2, <3>3 DEF Renames
  <2>4. IsFiniteSet(S)
    <3>1. IsFiniteSet(1..(to - from))
      BY <1>2, FS_Interval
    <3>. HIDE DEF S
    <3>. QED  BY <2>2, <3>1, FS_Subset
  <2>5. \A i \in S : weight[i] \in Nat
    BY <1>2, ChainType DEF VotingLedgers
  <2>. HIDE DEF S, C, place, weight
  <2>6. SumFunctionOnSet(Worth(ledger), C) = SumFunctionOnSet(weight, S)
    BY <2>3, <2>4, <2>5, SumRenamed
  <2>. QED  BY <2>6 DEF Total, S, C
<1>. HIDE DEF In, weight
<1>. QED  BY <1>1, <1>3 DEF list

\* The voters of a batch.
LEMMA VotersOfSegment ==
    ASSUME chain \in Chains, NEW from \in Nat, NEW to \in 0..Len(chain),
           from <= to
    PROVE  VotersOf(Segment(from, to)) = VotersIn(from, to)
<1>. DEFINE list == Segment(from, to)
<1>1. /\ DOMAIN list = 1..(to - from) /\ to \in Nat
      /\ \A i \in 1..(to - from) : list[i] = chain[from + i]
  <2>1. /\ DOMAIN list = 1..(to - from)
        /\ \A i \in 1..(to - from) : list[i] = chain[from + i]
    BY SegmentOf
  <2>2. to \in Nat
    BY ChainType
  <2>. HIDE DEF list
  <2>. QED  BY <2>1, <2>2
<1>. HIDE DEF list
<1>2. ASSUME NEW i \in DOMAIN list PROVE list[i].voter \in VotersIn(from, to)
  <2>1. from + i \in (from + 1)..to
    BY <1>1
  <2>. QED  BY <1>1, <2>1 DEF VotersIn
<1>3. ASSUME NEW k \in (from + 1)..to PROVE chain[k].voter \in VotersOf(list)
  <2>1. k - from \in DOMAIN list /\ list[k - from] = chain[from + (k - from)]
        /\ from + (k - from) = k
    BY <1>1
  <2>. QED  BY <2>1 DEF VotersOf
<1>. QED  BY <1>2, <1>3 DEF VotersOf, VotersIn, list

\* Two adjacent parts of the chain: the votes of the second part count if
\* their voters are not nullified by the first.
LEMMA CountedAdds ==
    ASSUME chain \in Chains, NEW vote, NEW nullified, NEW ledger \in VotingLedgers,
           NEW from \in Nat, NEW mid \in 0..Len(chain), NEW to \in 0..Len(chain),
           from <= mid, mid <= to
    PROVE  Total(ledger, vote, nullified, from, to)
             = Total(ledger, vote, nullified, from, mid)
                 + Total(ledger, vote, nullified \cup VotersIn(from, mid), mid, to)
<1>. DEFINE A == Counted(vote, nullified, from, mid)
            B == Counted(vote, nullified \cup VotersIn(from, mid), mid, to)
            C == Counted(vote, nullified, from, to)
<1>0. from \in Nat /\ mid \in Nat /\ to \in Nat
  BY ChainType
<1>1. A \cap B = {}
  BY <1>0 DEF Counted
<1>2. ASSUME NEW k \in (from + 1)..mid PROVE k \in C <=> k \in A
  BY <1>0 DEF Counted
<1>3. ASSUME NEW k \in (mid + 1)..to PROVE k \in C <=> k \in B
  <2>1. (\A j \in (from + 1)..(k - 1) : chain[j].voter # chain[k].voter)
          <=> /\ \A j \in (mid + 1)..(k - 1) : chain[j].voter # chain[k].voter
              /\ chain[k].voter \notin VotersIn(from, mid)
    <3>1. \A j : j \in (from + 1)..(k - 1)
                   <=> j \in (from + 1)..mid \/ j \in (mid + 1)..(k - 1)
      BY <1>0
    <3>. QED  BY <3>1 DEF VotersIn
  <2>2. k \in (from + 1)..to
    BY <1>0
  <2>. QED  BY <2>1, <2>2 DEF Counted
<1>4. C = A \cup B
  <2>1. /\ A \in SUBSET ((from + 1)..mid) /\ B \in SUBSET ((mid + 1)..to)
        /\ C \in SUBSET ((from + 1)..to)
    BY DEF Counted
  <2>2. \A k : k \in (from + 1)..to <=> k \in (from + 1)..mid \/ k \in (mid + 1)..to
    BY <1>0
  <2>. HIDE DEF A, B, C
  <2>. QED  BY <1>2, <1>3, <2>1, <2>2
<1>5. /\ IsFiniteSet(A) /\ IsFiniteSet(B)
      /\ \A k \in A \cup B : Worth(ledger)[k] \in Nat
  BY <1>0, TotalType
<1>. HIDE DEF A, B, C
<1>6. SumFunctionOnSet(Worth(ledger), A \cup B)
        = SumFunctionOnSet(Worth(ledger), A) + SumFunctionOnSet(Worth(ledger), B)
  BY <1>1, <1>5, SumUnion
<1>. QED  BY <1>4, <1>6 DEF Total, A, B, C

\* Ranges of the chain that meet, without the state between them.
LEMMA FoundAdds ==
    ASSUME target \in Targets, NEW from \in Nat, NEW mid \in Nat, NEW to \in Nat,
           from <= mid, mid <= to
    PROVE  /\ FoundIn(from..mid) \cup FoundIn(mid..to) \subseteq FoundIn(from..to)
           /\ FoundIn((from + 1)..to)
                \subseteq FoundIn((from + 1)..mid) \cup FoundIn((mid + 1)..to)
<1>1. \A i \in Index : target[i] \in Nat
  OBVIOUS
<1>. QED  BY <1>1 DEF FoundIn

\* A step that leaves the chain and the targets alone leaves the proofs sound.
LEMMA ProofSoundSame ==
    ASSUME UNCHANGED <<chain, target>>
    PROVE  \A p : ProofSound(p)' <=> ProofSound(p)
BY DEF ProofSound, VotersIn, Total, Worth, Counted, FoundIn

LEMMA ReduceBatchStep ==
    ASSUME ProofInv, NEW ledger \in VotingLedgers,
           NEW from \in 0..Len(chain), NEW nullified \in SUBSET Voters,
           NEW n \in 0..VOTE_ACTION_BATCH_SIZE, from + n <= Len(chain),
           NEW batch \in Batches(n), ReduceBatch(ledger, from, nullified, n, batch)
    PROVE  ProofInv'
<1>. DEFINE to == from + n
            list == Segment(from, to)
            new == [ledger |-> ledger,
                    fromActions |-> from, fromNullified |-> nullified,
                    toActions |-> to,
                    toNullified |-> nullified \cup VotersOf(list),
                    tally |-> TallyOf(ledger, nullified, list),
                    found |-> FoundIn(StatesMet(batch, from, to))]
<1>1. /\ proofs' = proofs \cup {new} /\ chain' = chain /\ target' = target
      /\ chain \in Chains /\ target \in Targets
  BY Zenon DEF ReduceBatch, ProofInv
<1>2. from \in Nat /\ to \in 0..Len(chain) /\ from <= to
  BY <1>1, ChainType
<1>. HIDE DEF to
<1>3. /\ VotersOf(list) = VotersIn(from, to)
      /\ TallyOf(ledger, nullified, list)
           = [vote \in Votes |-> Total(ledger, vote, nullified, from, to)]
  BY <1>1, <1>2, VotersOfSegment, TallyOfSegment
<1>4. /\ FoundIn(StatesMet(batch, from, to)) \subseteq FoundIn(from..to)
      /\ FoundIn((from + 1)..to) \subseteq FoundIn(StatesMet(batch, from, to))
  <2>1. to \in Nat
    BY <1>1, <1>2, ChainType
  <2>. QED  BY <1>2, <2>1 DEF FoundIn, StatesMet
<1>. HIDE DEF list
<1>5. ProofSound(new)
  BY <1>2, <1>3, <1>4 DEF ProofSound
<1>. HIDE DEF new
<1>6. \A p : ProofSound(p)' <=> ProofSound(p)
  BY <1>1, ProofSoundSame
<1>. QED  BY <1>1, <1>5, <1>6 DEF ProofInv

LEMMA MergeStep ==
    ASSUME ProofInv, NEW p1 \in proofs, NEW p2 \in proofs, Merge(p1, p2)
    PROVE  ProofInv'
<1>. DEFINE new == [ledger |-> p1.ledger,
                    fromActions |-> p1.fromActions,
                    fromNullified |-> p1.fromNullified,
                    toActions |-> p2.toActions,
                    toNullified |-> p2.toNullified,
                    tally |-> [vote \in Votes |-> p1.tally[vote] + p2.tally[vote]],
                    found |-> FoundInEither(p1, p2)]
            from == p1.fromActions
            mid == p1.toActions
            to == p2.toActions
<1>1. /\ proofs' = (proofs \ {p1, p2}) \cup {new}
      /\ chain' = chain /\ target' = target
      /\ chain \in Chains /\ target \in Targets
      /\ ProofSound(p1) /\ ProofSound(p2)
      /\ p1.ledger = p2.ledger
      /\ p2.fromActions = mid /\ p2.fromNullified = p1.toNullified
  BY DEF Merge, Adjacent, ProofInv
<1>2. /\ from \in Nat /\ mid \in 0..Len(chain) /\ to \in 0..Len(chain)
      /\ mid \in Nat /\ to \in Nat
      /\ from <= mid /\ mid <= to
      /\ p1.ledger \in VotingLedgers
      /\ p1.toNullified = p1.fromNullified \cup VotersIn(from, mid)
      /\ p2.toNullified = p1.toNullified \cup VotersIn(mid, to)
  BY <1>1, ChainType DEF ProofSound
<1>3. p2.toNullified = p1.fromNullified \cup VotersIn(from, to)
  <2>1. VotersIn(from, to) = VotersIn(from, mid) \cup VotersIn(mid, to)
    BY <1>2 DEF VotersIn
  <2>. QED  BY <1>2, <2>1
<1>4. ASSUME NEW vote \in Votes
      PROVE  p1.tally[vote] + p2.tally[vote]
               = Total(p1.ledger, vote, p1.fromNullified, from, to)
  <2>1. /\ p1.tally[vote] = Total(p1.ledger, vote, p1.fromNullified, from, mid)
        /\ p2.tally[vote] = Total(p1.ledger, vote, p1.toNullified, mid, to)
    BY <1>1 DEF ProofSound
  <2>. QED  BY <1>1, <1>2, <2>1, CountedAdds
<1>5. /\ FoundInEither(p1, p2) \subseteq FoundIn(from..to)
      /\ FoundIn((from + 1)..to) \subseteq FoundInEither(p1, p2)
  <2>1. /\ p1.found \subseteq FoundIn(from..mid)
        /\ FoundIn((from + 1)..mid) \subseteq p1.found
        /\ p2.found \subseteq FoundIn(mid..to)
        /\ FoundIn((mid + 1)..to) \subseteq p2.found
    BY <1>1 DEF ProofSound
  <2>2. /\ FoundIn(from..mid) \cup FoundIn(mid..to) \subseteq FoundIn(from..to)
        /\ FoundIn((from + 1)..to)
             \subseteq FoundIn((from + 1)..mid) \cup FoundIn((mid + 1)..to)
    BY <1>1, <1>2, FoundAdds
  <2>. QED  BY <2>1, <2>2 DEF FoundInEither
<1>6. ProofSound(new)
  BY <1>2, <1>3, <1>4, <1>5 DEF ProofSound
<1>. HIDE DEF new
<1>7. \A p : ProofSound(p)' <=> ProofSound(p)
  BY <1>1, ProofSoundSame
<1>. QED  BY <1>1, <1>6, <1>7 DEF ProofInv

LEMMA ReducerNextStep ==
    ASSUME ProofInv, NEW ledgers \in SUBSET VotingLedgers, ReducerNext(ledgers)
    PROVE  ProofInv'
BY ReduceBatchStep, MergeStep DEF ReducerNext

LEMMA ReducerSame == ProofInv /\ UNCHANGED reducerVars => ProofInv'
BY ProofSoundSame DEF ProofInv, reducerVars

LEMMA FoundWhole == ProofInv => FoundIsPassed
<1>. SUFFICES ASSUME ProofInv, NEW p \in proofs, NEW i \in Index
              PROVE  /\ i \in p.found => target[i] \in p.fromActions..p.toActions
                     /\ target[i] \in (p.fromActions + 1)..p.toActions => i \in p.found
  BY DEF FoundIsPassed
<1>1. ProofSound(p)
  BY DEF ProofInv
<1>. QED  BY <1>1 DEF ProofSound, FoundIn

\* A voter's first vote in the chain is the one its ballot has.
LEMMA FirstVote ==
    ASSUME chain \in Chains, NEW m \in 0..Len(chain), NEW k \in 1..m,
           \A j \in 1..(k - 1) : chain[j].voter # chain[k].voter
    PROVE  CastVote(Segment(0, m), chain[k].voter) = chain[k].vote
<1>. DEFINE list == Segment(0, m)
            casts == {i \in 1..Len(list) : list[i].voter = chain[k].voter}
<1>1. m \in Nat /\ Len(list) = m /\ \A i \in 1..m : list[i] = chain[i]
  <2>1. m \in Nat /\ 0 \in Nat /\ 0 <= m
    BY ChainType
  <2>2. /\ Len(list) = m - 0
        /\ \A i \in 1..(m - 0) : list[i] = chain[0 + i]
    BY <2>1, SegmentOf
  <2>. HIDE DEF list
  <2>. QED  BY <2>1, <2>2
<1>. HIDE DEF list
<1>2. k \in casts /\ casts \in SUBSET Nat /\ \A i \in casts : k <= i
  BY <1>1
<1>3. Min(casts) \in casts /\ \A i \in casts : Min(casts) <= i
  <2>. HIDE DEF casts
  <2>. QED  BY <1>2, NatMin
<1>4. Min(casts) = k
  <2>. DEFINE least == Min(casts)
  <2>1. least \in Nat /\ k \in Nat /\ least <= k /\ k <= least
    <3>. HIDE DEF casts
    <3>. QED  BY <1>2, <1>3
  <2>. HIDE DEF least
  <2>2. least = k
    BY <2>1
  <2>. QED  BY <2>2 DEF least
<1>5. CastVote(list, chain[k].voter)
        = IF casts = {} THEN NoVote ELSE list[Min(casts)].vote
  BY Zenon DEF CastVote
<1>. HIDE DEF casts
<1>. QED  BY <1>1, <1>2, <1>4, <1>5 DEF list

\* A vote on a ballot is the first of its voter in the chain.
LEMMA VoteCast ==
    ASSUME chain \in Chains, NEW m \in 0..Len(chain), NEW v,
           CastVote(Segment(0, m), v) # NoVote
    PROVE  \E k \in 1..m :
              /\ chain[k].voter = v
              /\ chain[k].vote = CastVote(Segment(0, m), v)
              /\ \A j \in 1..(k - 1) : chain[j].voter # v
<1>. DEFINE list == Segment(0, m)
            casts == {i \in 1..Len(list) : list[i].voter = v}
<1>1. m \in Nat /\ Len(list) = m /\ \A i \in 1..m : list[i] = chain[i]
  <2>1. m \in Nat /\ 0 \in Nat /\ 0 <= m
    BY ChainType
  <2>2. /\ Len(list) = m - 0
        /\ \A i \in 1..(m - 0) : list[i] = chain[0 + i]
    BY <2>1, SegmentOf
  <2>. HIDE DEF list
  <2>. QED  BY <2>1, <2>2
<1>2. CastVote(list, v) = IF casts = {} THEN NoVote ELSE list[Min(casts)].vote
  BY Zenon DEF CastVote
<1>. HIDE DEF list
<1>3. casts \in SUBSET Nat
  BY <1>1
<1>. HIDE DEF casts
<1>4. casts # {} /\ CastVote(list, v) = list[Min(casts)].vote
  BY <1>2 DEF list
<1>5. Min(casts) \in casts /\ \A i \in casts : Min(casts) <= i
  BY <1>3, <1>4, NatMin
<1>6. Min(casts) \in 1..m /\ chain[Min(casts)].voter = v
  BY <1>1, <1>5 DEF casts
<1>7. ASSUME NEW j \in 1..(Min(casts) - 1) PROVE chain[j].voter # v
  <2>1. j \notin casts /\ j \in 1..m
    BY <1>1, <1>5, <1>6
  <2>. QED  BY <1>1, <2>1 DEF casts
<1>8. CastVote(list, v) = chain[Min(casts)].vote
  BY <1>1, <1>4, <1>6
<1>. QED  BY <1>6, <1>7, <1>8 DEF list

\* The voters whose ballot, after m actions, has the vote.
VotersFor(vote, m) == {v \in Voters : Ballot(Segment(0, m))[v] = vote}

\* What counts in the first m actions is what the ballot is worth.
LEMMA BallotWorth ==
    ASSUME chain \in Chains, NEW ledger \in VotingLedgers, NEW vote \in Votes,
           NEW m \in 0..Len(chain)
    PROVE  /\ IsFiniteSet(VotersFor(vote, m))
           /\ Total(ledger, vote, {}, 0, m)
                = SumFunctionOnSet(ledger, VotersFor(vote, m))
<1>. DEFINE C == Counted(vote, {}, 0, m)
            V == VotersFor(vote, m)
            voter == [k \in DOMAIN chain |-> chain[k].voter]
<1>0. m \in Nat /\ 0 \in Nat
  BY ChainType
<1>1. /\ IsFiniteSet(C)
      /\ \A k \in C : k \in DOMAIN chain /\ Worth(ledger)[k] \in Nat
  BY <1>0, TotalType
<1>2. ASSUME NEW k
      PROVE  k \in C <=> /\ k \in 1..m /\ chain[k].vote = vote
                         /\ \A j \in 1..(k - 1) : chain[j].voter # chain[k].voter
  BY <1>0 DEF Counted
<1>3. ASSUME NEW v
      PROVE  v \in V <=> v \in Voters /\ CastVote(Segment(0, m), v) = vote
  BY DEF VotersFor, Ballot
<1>. HIDE DEF C, V
<1>4. Renames(voter, Worth(ledger), C, ledger, V)
  <2>1. ASSUME NEW k \in C
        PROVE  voter[k] \in V /\ ledger[voter[k]] = Worth(ledger)[k]
    <3>1. /\ k \in 1..m /\ chain[k].vote = vote
          /\ \A j \in 1..(k - 1) : chain[j].voter # chain[k].voter
      BY <1>2
    <3>2. CastVote(Segment(0, m), chain[k].voter) = vote
      BY <3>1, FirstVote
    <3>3. k \in DOMAIN chain /\ chain[k].voter \in Voters
      BY <1>0, <3>1, ChainType
    <3>. QED  BY <1>3, <3>2, <3>3 DEF Worth
  <2>2. ASSUME NEW k \in C, NEW l \in C, voter[k] = voter[l]
        PROVE  k = l
    <3>1. chain[k].voter = chain[l].voter
      BY <1>1, <2>2
    <3>2. k \in 1..m /\ l \in 1..m /\ ~ k \in 1..(l - 1) /\ ~ l \in 1..(k - 1)
      BY <1>2, <3>1
    <3>. QED  BY <1>0, <3>2
  <2>3. ASSUME NEW v \in V PROVE \E k \in C : voter[k] = v
    <3>1. CastVote(Segment(0, m), v) = vote /\ vote # NoVote
      BY <1>3 DEF Votes, NoVote
    <3>2. PICK k \in 1..m : /\ chain[k].voter = v /\ chain[k].vote = vote
                            /\ \A j \in 1..(k - 1) : chain[j].voter # v
      BY <3>1, VoteCast
    <3>3. k \in C
      BY <1>2, <3>2
    <3>. QED  BY <1>1, <3>2, <3>3
  <2>. HIDE DEF voter
  <2>. QED  BY <2>1, <2>2, <2>3 DEF Renames
<1>. HIDE DEF voter
<1>5. IsFiniteSet(V)
  BY <1>1, <1>4, RenamedFinite
<1>6. SumFunctionOnSet(ledger, V) = SumFunctionOnSet(Worth(ledger), C)
  BY <1>1, <1>4, SumRenamed
<1>. QED  BY <1>5, <1>6 DEF Total, C, V

LEMMA TalliesWhole ==
    ASSUME ProofInv, NEW p \in proofs, Complete(p), NEW vote \in Votes
    PROVE  /\ p.ledger \in VotingLedgers /\ p.toActions \in 0..Len(chain)
           /\ IsFiniteSet(VotersFor(vote, p.toActions))
           /\ p.tally[vote]
                = SumFunctionOnSet(p.ledger, VotersFor(vote, p.toActions))
<1>1. /\ chain \in Chains /\ p.ledger \in VotingLedgers
      /\ p.toActions \in 0..Len(chain)
      /\ p.tally[vote] = Total(p.ledger, vote, {}, 0, p.toActions)
  <2>1. ProofSound(p) /\ chain \in Chains /\ Complete(p)
    BY DEF ProofInv
  <2>2. p.tally[vote]
          = Total(p.ledger, vote, p.fromNullified, p.fromActions, p.toActions)
    BY <2>1 DEF ProofSound
  <2>3. p.fromNullified = {} /\ p.fromActions = 0
    BY <2>1 DEF Complete
  <2>. QED  BY <2>1, <2>2, <2>3 DEF ProofSound
<1>. QED  BY <1>1, BallotWorth

LEMMA BallotsWhole == ProofInv => CompleteProofsTallyTheBallot
BY TalliesWhole DEF CompleteProofsTallyTheBallot, Weight, VotersFor

-----------------------------------------------------------------------------
(* A tally that is accepted *)

\* The MINA accounts of the staking ledger, by their places.
MinaAccounts == {i \in DOMAIN stakingLedger : stakingLedger[i].isMinaAccount}

\* The accounts whose delegate's first vote is this one.
AccountsFor(vote, to) ==
    {i \in DOMAIN stakingLedger :
        /\ stakingLedger[i].isMinaAccount
        /\ VoteOf(stakingLedger[i], to) = vote}

LEMMA AccountsCounted ==
    DigestInv /\ ProofInv => TallyCountsAccounts
<1>. SUFFICES ASSUME DigestInv, ProofInv, NEW p \in proofs, NEW d \in digests,
                     Accepted(p, d), NEW vote \in Votes
              PROVE  p.tally[vote]
                       = SumFunctionOnSet(Balance, AccountsFor(vote, p.toActions))
  BY Zenon DEF TallyCountsAccounts, AccountsFor
<1>. DEFINE V == VotersFor(vote, p.toActions)
            S == MinaAccounts
            delegate == [i \in DOMAIN stakingLedger |-> stakingLedger[i].delegate]
<1>1. /\ IsFiniteSet(V) /\ V \in SUBSET Voters
      /\ p.tally[vote] = SumFunctionOnSet(p.ledger, V)
  <2>1. Complete(p)
    BY DEF Accepted
  <2>2. V \in SUBSET Voters
    BY DEF VotersFor
  <2>. HIDE DEF V
  <2>. QED  BY <2>1, <2>2, TalliesWhole DEF V
<1>2. \A v \in Delegates : p.ledger[v] = SumFunctionOnSet(Balance, MinaOf(v))
  BY DigestsWhole DEF CompleteProofsDelegateAll, MinaOf, Accepted, SameLedger
<1>3. \A v : Members(S, delegate, {v}) = MinaOf(v)
  BY DEF Members, MinaAccounts, MinaOf
<1>4. /\ stakingLedger \in StakingLedgers
      /\ DOMAIN stakingLedger = 1..Len(stakingLedger)
      /\ Len(stakingLedger) \in Nat
      /\ \A i \in DOMAIN stakingLedger : stakingLedger[i] \in Account
  BY AccountType DEF DigestInv
<1>5. IsFiniteSet(S) /\ \A i \in S : Balance[i] \in Nat
  <2>1. IsFiniteSet(1..Len(stakingLedger))
    BY <1>4, FS_Interval
  <2>2. S \in SUBSET (1..Len(stakingLedger))
    BY <1>4 DEF MinaAccounts
  <2>3. \A i \in S : Balance[i] \in Nat
    BY <1>4 DEF MinaAccounts, Balance, Account
  <2>. HIDE DEF S
  <2>. QED  BY <2>1, <2>2, <2>3, FS_Subset
<1>6. Members(S, delegate, V) = AccountsFor(vote, p.toActions)
  <2>1. vote # NoVote
    BY DEF Votes, NoVote
  <2>2. ASSUME NEW i \in DOMAIN stakingLedger
        PROVE  delegate[i] \in V <=> VoteOf(stakingLedger[i], p.toActions) = vote
    <3>1. delegate[i] = stakingLedger[i].delegate
      OBVIOUS
    <3>2. delegate[i] \in V
            <=> /\ delegate[i] \in Voters
                /\ CastVote(Segment(0, p.toActions), delegate[i]) = vote
      BY DEF VotersFor, Ballot
    <3>. QED  BY <2>1, <3>1, <3>2 DEF VoteOf
  <2>. HIDE DEF V, delegate
  <2>. QED  BY <2>2 DEF Members, AccountsFor, MinaAccounts
<1>. HIDE DEF V, S, delegate
<1>7. Totals(p.ledger, Balance, S, delegate, V)
  BY <1>1, <1>2, <1>3 DEF Totals
<1>8. SumFunctionOnSet(Balance, Members(S, delegate, V))
        = SumFunctionOnSet(p.ledger, V)
  BY <1>1, <1>5, <1>7, SumByGroups
<1>. QED  BY <1>1, <1>6, <1>8

-----------------------------------------------------------------------------
(* The theorems *)

TallyInv == DigestInv /\ ProofInv

LEMMA InitTallyInv == Init => TallyInv
BY DEF Init, LedgerInit, ReducerInit, TallyInv, DigestInv, ProofInv

LEMMA StepTallyInv == TallyInv /\ [Next]_vars => TallyInv'
<1>. SUFFICES ASSUME TallyInv, [Next]_vars PROVE TallyInv'
  OBVIOUS
<1>1. CASE LedgerNext /\ UNCHANGED reducerVars
  BY <1>1, LedgerNextStep, ReducerSame DEF TallyInv
<1>2. CASE ReducerNext(Ledgers) /\ UNCHANGED ledgerVars
  <2>1. Ledgers \in SUBSET VotingLedgers
    BY LedgersType DEF TallyInv
  <2>. QED  BY <1>2, <2>1, ReducerNextStep, LedgerSame DEF TallyInv
<1>3. CASE UNCHANGED vars
  BY <1>3, LedgerSame, ReducerSame DEF TallyInv, vars
<1>. QED  BY <1>1, <1>2, <1>3 DEF Next

LEMMA TallyInductive == Spec => []TallyInv
BY InitTallyInv, StepTallyInv, PTL DEF Spec

\* Every complete digest of a staking ledger gives every key the MINA of
\* exactly the accounts that delegate to it, for a ledger of any size cut into
\* batches of any size that are proved and merged in any order.
THEOREM DigestsDelegateAll == Spec => []CompleteProofsDelegateAll
<1>1. TallyInv => CompleteProofsDelegateAll
  BY DigestsWhole DEF TallyInv
<1>. QED  BY <1>1, TallyInductive, PTL

\* Every complete proof of votes tallies what the first votes of the voters
\* are worth, for any chain of votes, any batches with dummies in any place
\* and any order of merges.
THEOREM ProofsTallyTheBallot == Spec => []CompleteProofsTallyTheBallot
<1>1. TallyInv => CompleteProofsTallyTheBallot
  BY BallotsWhole DEF TallyInv
<1>. QED  BY <1>1, TallyInductive, PTL

\* A proof has found the action states that it passed, and no other.
THEOREM FoundStatesArePassed == Spec => []FoundIsPassed
<1>1. TallyInv => FoundIsPassed
  BY FoundWhole DEF TallyInv
<1>. QED  BY <1>1, TallyInductive, PTL

\* A tally that the contract accepts counts every MINA account of the staking
\* ledger once, for the first vote of its delegate.
THEOREM AcceptedTallyCountsAccounts == Spec => []TallyCountsAccounts
<1>1. TallyInv => TallyCountsAccounts
  BY AccountsCounted DEF TallyInv
<1>. QED  BY <1>1, TallyInductive, PTL
=============================================================================
