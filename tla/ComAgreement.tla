---------------------------- MODULE ComAgreement ----------------------------
(***************************************************************************)
(* node/CertificateOfMembership: when two certificates of membership agree.*)
(* A certificate is a sequence of qualifiers [id, value, maxDelta], sorted *)
(* by id.                                                                  *)
(***************************************************************************)
EXTENDS Integers, Sequences

Within(a, b, maxDelta) == a - b <= maxDelta /\ b - a <= maxDelta

(* The cursor into "other" after the seek for each of the first i tuples   *)
(* of "me"; Len(other) + 1 once the seek has run off the end.              *)
Cursor(me, other) ==
    LET end == Len(other) + 1
        at[i \in 0..Len(me)] ==
            IF i = 0 THEN 1
            ELSE LET found == {k \in at[i - 1]..Len(other) : other[k].id = me[i].id}
                 IN IF found = {} THEN end
                    ELSE CHOOSE k \in found : \A l \in found : k <= l
    IN at

(* CertificateOfMembership::agreesWith.  The value compared is the one at  *)
(* the place of the tuple in "me", not at the cursor.                      *)
BugAgreesWith(me, other) ==
    /\ me # <<>> /\ other # <<>>
    /\ \A i \in 1..Len(me) : Cursor(me, other)[i] <= Len(other)

AgreesWith(me, other) ==
    /\ me # <<>> /\ other # <<>>
    /\ \A i \in 1..Len(me) :
        /\ Cursor(me, other)[i] <= Len(other)
        /\ Within(me[i].value, other[i].value, me[i].maxDelta)

(* Agreement as the comment on agreesWith() states it: every tuple of "me" *)
(* is in "other", with a value that agrees to within its maxDelta; tuples  *)
(* only "other" has are ignored.                                           *)
Agreement(me, other) ==
    /\ me # <<>> /\ other # <<>>
    /\ \A i \in 1..Len(me) : \E k \in 1..Len(other) :
        /\ other[k].id = me[i].id
        /\ Within(me[i].value, other[k].value, me[i].maxDelta)
=============================================================================
