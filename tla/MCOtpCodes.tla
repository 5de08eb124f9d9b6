----------------------------- MODULE MCOtpCodes -----------------------------
(* Instances of OtpCodes for TLC.                                          *)
EXTENDS OtpCodes, TLC

CONSTANTS r1, r2, r3, o1, o2, o3, c1, c2

TwoRequests == {r1, r2}
ThreeRequests == {r1, r2, r3}
OnlyLast == {r3}
FirstTwo == {r1, r2}
TwoOtps == {o1, o2}
ThreeOtps == {o1, o2, o3}
OneCode == {c1}
TwoCodes == {c1, c2}

(* Primary keys are drawn at random and nothing depends on them: where     *)
(* symmetry cannot be used, new rows take theirs in order.                 *)
NumberedOtps == 1..3
KeysInOrder ==
    \A r \in Requests : pc[r] = "idle" /\ pc'[r] = "latest" =>
        \A g \in Otps : Fresh(g) => tx'[r].own <= g

(* Of a mail only that it bears a row's key matters to the guards (Fresh), *)
(* and only until a row with that key is stored.  Where no property looks  *)
(* at the mails, states that differ in nothing else are the same.          *)
WithoutMails ==
    <<clock, otp, emailVerified, {g \in Otps : otp[g] = None /\ mailed[g] # None},
      ended, knew, pc, tx>>

(* No guard reads a history (ended, knew, tx.knew) and no action changes   *)
(* histories only: whether a handler is answered does not depend on them.  *)
WithoutHistories ==
    <<clock, otp, emailVerified, mailed, pc,
      [r \in Requests |-> [tx[r] EXCEPT !.knew = {}]]>>

(* Rows, codes and slots of the same kind are interchangeable.             *)
Symmetry == Permutations(Otps) \cup Permutations(Codes)
            \cup Permutations(IssueRequests \ VerifyRequests)
            \cup Permutations(VerifyRequests \ IssueRequests)
            \cup Permutations(IssueRequests \cap VerifyRequests)
=============================================================================
