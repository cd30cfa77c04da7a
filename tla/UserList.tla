------------------------------ MODULE UserList ------------------------------
(***************************************************************************)
(* The list of registered users (users/users.c): linked nodes, the head    *)
(* first.  A list is a sequence of nodes, and every operator is what one   *)
(* function of the file returns, or leaves of the list.                    *)
(***************************************************************************)
EXTENDS Naturals, Sequences, SequencesExt

\* getUserNode: the place of the first node with that name, zero when none has it.
GetUserNode(list, name) == SelectInSeq(list, LAMBDA node : node.name = name)

UserExists(list, name) == GetUserNode(list, name) # 0

UserIsConnected(list, name) ==
    UserExists(list, name) /\ list[GetUserNode(list, name)].connected

ToggleUserConnected(list, name, isConnected) ==
    IF UserExists(list, name)
    THEN [list EXCEPT ![GetUserNode(list, name)].connected = isConnected]
    ELSE list

\* The search does not stop at the first node of that name: it wants a node with
\* the name and the password.
ValidPassword(list, name, password) ==
    \E i \in DOMAIN list : list[i].name = name /\ list[i].password = password

\* mutant: no test for an existing user
InsertUserAlways(list, name, password) ==
    Cons([name |-> name, password |-> password, connected |-> FALSE], list)

\* insertUserNode: at the head, and not for a name that has a node.
InsertUserNode(list, name, password) ==
    IF UserExists(list, name)
    THEN list
    ELSE Cons([name |-> name, password |-> password, connected |-> FALSE], list)

ModifyUserPassword(list, name, newPassword) ==
    IF UserExists(list, name)
    THEN [list EXCEPT ![GetUserNode(list, name)].password = newPassword]
    ELSE list

\* mutant: the nodes in front of the deleted one are lost
DeleteUserKeepingTail(list, name) ==
    SubSeq(list, GetUserNode(list, name) + 1, Len(list))

\* deleteUserNode unlinks the first node of that name only.
DeleteUserNode(list, name) == RemoveFirstMatch(list, LAMBDA node : node.name = name)

ListUsers(list) == [i \in DOMAIN list |-> <<list[i].name, list[i].password>>]

RemoveAllUserNodes == <<>>
=============================================================================
