----------------------------- MODULE CodeLedger ------------------------------
(***************************************************************************)
(* What an authorization code promises whoever hands it out: it makes at   *)
(* most as many accounts as it has uses, and none once it is revoked.      *)
(* Accounts implements this module.                                        *)
(***************************************************************************)
EXTENDS Naturals, FiniteSets

CONSTANTS
    Codes,         \* authorization codes
    People,        \* the accounts a code may make
    MaxUses(_)     \* how many accounts a code is good for

VARIABLES
    state,         \* "absent", "open" or "revoked"
    spent          \* the accounts each code has made

vars == <<state, spent>>

Issue(c) ==
    /\ state[c] = "absent"
    /\ state' = [state EXCEPT ![c] = "open"]
    /\ UNCHANGED spent

(* A code that has made an account is past revoking. *)
Revoke(c) ==
    /\ state[c] = "open"
    /\ spent[c] = {}
    /\ state' = [state EXCEPT ![c] = "revoked"]
    /\ UNCHANGED spent

Redeem(c, x) ==
    /\ state[c] = "open"
    /\ Cardinality(spent[c]) < MaxUses(c)
    /\ \A d \in Codes : x \notin spent[d]
    /\ spent' = [spent EXCEPT ![c] = @ \cup {x}]
    /\ UNCHANGED state

Init ==
    /\ state \in [Codes -> {"absent", "open"}]
    /\ spent = [c \in Codes |-> {}]

Next ==
    \E c \in Codes :
        Issue(c) \/ Revoke(c) \/ \E x \in People : Redeem(c, x)

Spec == Init /\ [][Next]_vars
=============================================================================
