------------------------------- MODULE MCAccounts -------------------------------
(* Instances of Accounts for TLC. *)
EXTENDS Accounts, TLC

CONSTANTS e1, e2, e3, e4, p1, p2

\* Each page belongs to the owner of one mailbox; nobody reads the
\* others, of which e3 is off the whitelist and e4 is blocked.
EachTheirOwn == [e \in Emails |-> CASE e = e1 -> p1 [] e = e2 -> p2 [] OTHER -> None]

\* Addresses and their owners swapped together
Symmetry == {f \in Permutations({e1, e2, p1, p2}) :
                /\ f[e1] \in {e1, e2} /\ f[p1] \in {p1, p2}
                /\ f[e1] = e1 <=> f[p1] = p1}
===============================================================================
