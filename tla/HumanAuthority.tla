---------------------------- MODULE HumanAuthority ----------------------------
(***************************************************************************)
(* What the local control plane promises about human authority, without    *)
(* any of its machinery: a human grants a session a number of uses of one  *)
(* capability; uses are spent one at a time; they may be withdrawn; and a  *)
(* contained session, for good, neither holds nor receives any.  There are *)
(* no clocks, requests, callers or risk scores here: LocalAuthority is the *)
(* machinery, and it implements this specification.                        *)
(***************************************************************************)
EXTENDS Naturals

CONSTANTS
    Sessions,       \* who holds authority
    Grants,         \* identities of grants
    MaxUses,        \* the most uses one grant may carry
    NoOne           \* the holder of a grant that was never made: not a session

VARIABLES
    holder,     \* the session each grant was made to
    credit,     \* uses of each grant that can still be spent
    used,       \* uses of each grant that were spent
    contained   \* sessions that lost all authority

vars == <<holder, credit, used, contained>>

Init ==
    /\ holder = [g \in Grants |-> NoOne]
    /\ credit = [g \in Grants |-> 0]
    /\ used = [g \in Grants |-> 0]
    /\ contained = {}

(* A human makes a grant, once, to a session that is not contained.        *)
Grant(g, s, uses) ==
    /\ holder[g] = NoOne
    /\ s \notin contained
    /\ holder' = [holder EXCEPT ![g] = s]
    /\ credit' = [credit EXCEPT ![g] = uses]
    /\ UNCHANGED <<used, contained>>

(* A use is spent: only while credit is left and the holder is free.       *)
Spend(g) ==
    /\ credit[g] > 0
    /\ holder[g] \notin contained
    /\ credit' = [credit EXCEPT ![g] = @ - 1]
    /\ used' = [used EXCEPT ![g] = @ + 1]
    /\ UNCHANGED <<holder, contained>>

Emptied(s) == [g \in Grants |-> IF holder[g] = s THEN 0 ELSE credit[g]]

(* Everything a session holds is withdrawn; it may be granted more.        *)
Withdraw(s) ==
    /\ credit' = Emptied(s)
    /\ UNCHANGED <<holder, used, contained>>

(* The session is contained, and loses what it holds in the same instant.  *)
Contain(s) ==
    /\ contained' = contained \cup {s}
    /\ credit' = Emptied(s)
    /\ UNCHANGED <<holder, used>>

Next ==
    \/ \E g \in Grants, s \in Sessions, uses \in 1..MaxUses : Grant(g, s, uses)
    \/ \E g \in Grants : Spend(g)
    \/ \E s \in Sessions : Withdraw(s) \/ Contain(s)

Spec == Init /\ [][Next]_vars
=============================================================================
