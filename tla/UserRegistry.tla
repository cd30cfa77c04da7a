---------------------------- MODULE UserRegistry ----------------------------
(***************************************************************************)
(* What the list of users promises to its three clients, the command line, *)
(* the monitor and the sessions: a table with at most one entry for a      *)
(* name.  An operation concerns the entry of one name and no other.        *)
(***************************************************************************)
CONSTANTS Users, Passwords, NoPassword

VARIABLES
    registry,   \* name -> its password and whether a session holds it
    stage       \* "closed" before the server serves, "open", "over" when it stopped

Entry(p, c) == [password |-> p, connected |-> c]
Absent == Entry(NoPassword, FALSE)
Empty == [u \in Users |-> Absent]
Has(u) == registry[u] # Absent

RegistryInit == stage = "closed" /\ registry = Empty

\* The users of the command line.
Fill ==
    /\ stage = "closed" /\ stage' = "open"
    /\ registry' \in [Users -> {Entry(p, FALSE) : p \in Passwords \cup {NoPassword}}]

\* One user's entry gets the value e.
Put(u, e) ==
    /\ stage = "open"
    /\ registry' = [registry EXCEPT ![u] = e]
    /\ UNCHANGED stage

\* A new name starts with its flag clear, a known one keeps it.
Add(u, p) == Put(u, Entry(p, registry[u].connected))
Modify(u, p) == Has(u) /\ Put(u, Entry(p, registry[u].connected))
Delete(u) == Put(u, Absent)
Connect(u) ==
    Has(u) /\ ~ registry[u].connected /\ Put(u, Entry(registry[u].password, TRUE))
Disconnect(u) == Has(u) /\ Put(u, Entry(registry[u].password, FALSE))

Clear == stage = "open" /\ stage' = "over" /\ registry' = Empty

RegistryNext ==
    \/ Fill \/ Clear
    \/ \E u \in Users :
         \/ Delete(u) \/ Connect(u) \/ Disconnect(u)
         \/ \E p \in Passwords : Add(u, p) \/ Modify(u, p)

RegistrySpec == RegistryInit /\ [][RegistryNext]_<<registry, stage>>
=============================================================================
