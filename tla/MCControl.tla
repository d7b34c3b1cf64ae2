------------------------------ MODULE MCControl ------------------------------
(* Instances of Control: a user u, an identity k with a binary id.  Either *)
(* the user is the administrator, or the identity gives the user Basic.    *)
EXTENDS Control, TLC

CONSTANTS u, k, s1, s2, c1, c2

Person(rs) == [n \in Names |-> IF n = u THEN [stored |-> s1, roles |-> rs] ELSE Nobody]
Device(rs) == [n \in Names |-> IF n = k THEN [cp |-> TRUE, roles |-> rs] ELSE Nobody]
MCBooks == {[users |-> Person({"Admin"}), acl |-> Device({})],
            [users |-> Person({}), acl |-> Device({"Basic"})]}

MCRoleLists == {{"Basic"}, {"Admin"}}

(* Two who log in and a change of the book; one who logs in beside a change *)
(* and a request; two requests at once of one who does not.                 *)
MCBudgets == {[speakers |-> {c1, c2}, changes |-> 1, askers |-> {}, requests |-> 0],
              [speakers |-> {c1}, changes |-> 1, askers |-> {c1}, requests |-> 1],
              [speakers |-> {}, changes |-> 0, askers |-> {c2}, requests |-> 2]}

MCRestored == {{[owner |-> c2, client |-> c2, ext |-> 2, int |-> 2],
                [owner |-> c1, client |-> c2, ext |-> 1, int |-> 1]}}

MCConns == Permutations(Conns)
=============================================================================
