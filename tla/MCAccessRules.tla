--------------------------- MODULE MCAccessRules ---------------------------
(* The access rules for TLC: browsers, requests, sessions and accounts are   *)
(* interchangeable.                                                         *)
EXTENDS AccessRules, TLC

Symmetry == Permutations(Browsers) \cup Permutations(Reqs) \cup Permutations(Ids)
            \cup Permutations(Emails)

\* Two states are one to the checker if they differ only in what is never read
\* again: the number of a request that gives no uuid, and where a browser that is
\* not orderly is sent (only AdmittedWhereSent asks, and not about that one).
Names(q) == req[q].state = "sent" /\ req[q].op /= "demo" /\ Given(q) /= NoId

Seen ==
    <<bearer, orderly, cookie, session, opened, visits,
      [q \in Reqs |-> [req[q] EXCEPT !.n = IF Names(q) THEN @ ELSE 0]],
      [b \in orderly |-> <<page[b], last[b], b \in astray>>]>>
=============================================================================
