------------------------------- MODULE Grants -------------------------------
(***************************************************************************)
(* What the treasury promises, without slots, statuses, pauses, action     *)
(* states or proofs: a grant collects at most one vote per voter until it  *)
(* is closed, and from then on pays, out of one shared fund and up to its  *)
(* cap, if and only if the closed ballot approves it.                      *)
(***************************************************************************)
EXTENDS Integers

CONSTANTS Proposals, Voters, Votes, Terms, NoGrant, NoVote,
          Withdrawable,    \* may the fund be debited other than by a payout?
          Cap(_), BondOf(_), Approves(_, _)

VARIABLES terms, ballot, closed, paid, fund

gvars == <<terms, ballot, closed, paid, fund>>

Granted(p) == terms[p] # NoGrant

Init ==
    /\ terms = [p \in Proposals |-> NoGrant]
    /\ ballot = [p \in Proposals |-> [v \in Voters |-> NoVote]]
    /\ closed = [p \in Proposals |-> FALSE]
    /\ paid = [p \in Proposals |-> 0]
    /\ fund = 0

Propose(p) ==
    /\ ~Granted(p)
    /\ terms'[p] \in Terms
    /\ terms' = [terms EXCEPT ![p] = terms'[p]]
    /\ fund' = fund + BondOf(terms'[p])
    /\ UNCHANGED <<ballot, closed, paid>>

\* A voter has one vote and cannot take it back.
Cast(p, v, vote) ==
    /\ Granted(p)
    /\ ~closed[p]
    /\ ballot[p][v] = NoVote
    /\ ballot' = [ballot EXCEPT ![p][v] = vote]
    /\ UNCHANGED <<terms, closed, paid, fund>>

\* Closing is final; several grants may close at once.
Close(S) ==
    /\ \A p \in S : Granted(p)
    /\ closed' = [p \in Proposals |-> closed[p] \/ p \in S]
    /\ UNCHANGED <<terms, ballot, paid, fund>>

Pay(p) ==
    /\ Granted(p)
    /\ closed[p]
    /\ Approves(terms[p], ballot[p])
    /\ paid'[p] \in paid[p]..Cap(terms[p])
    /\ paid' = [paid EXCEPT ![p] = paid'[p]]
    /\ fund' = fund - (paid'[p] - paid[p])
    /\ fund' >= 0
    /\ UNCHANGED <<terms, ballot, closed>>

Transfer ==
    /\ fund' \in Nat
    /\ fund' >= fund \/ Withdrawable
    /\ UNCHANGED <<terms, ballot, closed, paid>>

Next ==
    \/ \E p \in Proposals : Propose(p)
    \/ \E p \in Proposals, v \in Voters, vote \in Votes : Cast(p, v, vote)
    \/ \E S \in SUBSET Proposals : Close(S)
    \/ \E p \in Proposals : Pay(p)
    \/ Transfer

Spec == Init /\ [][Next]_gvars
=============================================================================
