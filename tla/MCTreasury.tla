----------------------------- MODULE MCTreasury -----------------------------
(***************************************************************************)
(* An instance of Treasury for TLC.  The numbers are chosen so that every  *)
(* outcome of a vote occurs: a proposal of 20 against a treasury of 100    *)
(* needs 4 of the 10 units of currency to vote and 64.56% of the YAY and   *)
(* NAY weight to approve.  v2 (3) alone is not enough; v1 (4) alone        *)
(* decides, and v2 against it turns an approval into a rejection.  In the  *)
(* poor snapshot the Owner holds so little that the proposal is all of it. *)
(***************************************************************************)
EXTENDS TreasuryGrants

CONSTANTS v1, v2, p1, p2, r1

MCWeight == [v \in Voters |-> IF v = v1 THEN 4 ELSE 3]

Rich == [weight |-> MCWeight, ownerBalance |-> 100, totalCurrency |-> 10]
Poor == [weight |-> MCWeight, ownerBalance |-> 10, totalCurrency |-> 8]

MCSnapshots == {Rich, Poor}

\* One proposal gets every order and spread of up to MaxVotes votes; two
\* proposals compete for the balance after a vote that just approves them.
Explored ==
    /\ Exists(p1) => proposals[p1].recipient = r1
    /\ Exists(p2) =>
          /\ Exists(p1)
          /\ \A p \in Proposals :
                /\ proposals[p].snapshot = Rich
                /\ proposals[p].lifecycleId = 0
                /\ Len(actions[p]) <= HistoryLength
                /\ \A i \in DOMAIN actions[p] :
                      actions[p][i] = [voter |-> v1, vote |-> "YAY"]
=============================================================================
