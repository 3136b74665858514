--------------------------- MODULE MCAuthSession ---------------------------
(* Values for the constants of AuthSession: one address that two people    *)
(* sign up, and one account's sessions.                                    *)
EXTENDS AuthSession, TLC

CONSTANTS e1, n1, n2, v1, v2, s1, w1, w2, r1, r2, r3, l1

OneAddress == [u \in SignUps \cup Changes |-> e1]
OneLink == [v \in Verifies |-> e1]
FirstClaim == [s \in Sessions |-> n1]
FirstOld == [w \in Changes |-> n1]
FirstSession == [r \in Refreshes |-> s1]
EndsFirst == [l \in LogOuts |-> s1]

(* Nothing tells the verifications apart, nor the refreshes or changes.    *)
Interchangeable ==
    Permutations(Verifies) \cup Permutations(Refreshes) \cup Permutations(Changes)
=============================================================================
