----------------------------- MODULE UserTable -----------------------------
(***************************************************************************)
(* The table of users of socks5.c: filled from the command line, changed   *)
(* through the monitoring protocol, read when a client authenticates.      *)
(* Names and passwords are C strings, compared as wholes.                  *)
(***************************************************************************)
EXTENDS Naturals, Sequences

CONSTANTS
    MaxUsers,      \* MAX_USERS
    Names,         \* the names that are tried
    Passwords,     \* the passwords that are tried
    CommandLines,  \* the lists of -u options the server may be started with
    NoUser         \* a slot that is not in use

Accounts == [name : Names, pass : Passwords]

ASSUME UserAssumption ==
    /\ MaxUsers \in Nat
    /\ NoUser \notin Accounts
    /\ \A c \in CommandLines : c \in Seq(Accounts) /\ Len(c) <= MaxUsers

VARIABLE users   \* runtime_users

Slots == 1 .. MaxUsers

Tables == [Slots -> Accounts \cup {NoUser}]

InUse(t) == {i \in Slots : t[i] # NoUser}

(* The slots of the accounts named n.                                      *)
Named(t, n) == {i \in InUse(t) : t[i].name = n}

First(S) == CHOOSE i \in S : \A j \in S : i <= j

(* socks5_init(): each option takes the next slot.                         *)
Loaded(c) == [i \in Slots |-> IF i <= Len(c) THEN c[i] ELSE NoUser]

HasUsers(t) == InUse(t) # {}

(* socks5_validate_user()                                                  *)
Valid(t, n, p) == \E i \in Named(t, n) : t[i].pass = p

(* Faulty: the search for a free slot stops at the first slot.             *)
AddedFirst(t, a) ==
    IF Named(t, a.name) # {} THEN t ELSE [t EXCEPT ![1] = a]

(* Faulty: a name that is taken gets a second slot.                        *)
AddedTwice(t, a) ==
    IF InUse(t) = Slots THEN t ELSE [t EXCEPT ![First(Slots \ InUse(t))] = a]

(* socks5_add_user(): 0, -1 when there is no free slot, -2 when taken.     *)
Added(t, a) ==
    IF Named(t, a.name) # {} \/ InUse(t) = Slots THEN t
    ELSE [t EXCEPT ![First(Slots \ InUse(t))] = a]

(* Faulty: the last slot that is in use is cleared.                        *)
DeletedLast(t, n) ==
    IF Named(t, n) = {} THEN t
    ELSE [t EXCEPT ![CHOOSE i \in InUse(t) : \A j \in InUse(t) : j <= i] = NoUser]

(* socks5_del_user(): the first slot with that name, -1 without one.       *)
Deleted(t, n) ==
    IF Named(t, n) = {} THEN t ELSE [t EXCEPT ![First(Named(t, n))] = NoUser]

TableInit == users \in {Loaded(c) : c \in CommandLines}

(* The commands of the monitoring protocol.                                *)
AddUser(a) == users' = Added(users, a)
DelUser(n) == users' = Deleted(users, n)

Change == \E a \in Accounts : AddUser(a) \/ DelUser(a.name)

TableSpec == TableInit /\ [][Change]_users

-----------------------------------------------------------------------------
(* Properties *)

(* The table keeps its type: a deletion leaves a free slot behind, an      *)
(* addition never lands outside.                                           *)
TableTypeOK == users \in Tables

(* A name has one slot at most, however additions and deletions reuse the  *)
(* slots of socks5_add_user() and socks5_del_user(), provided the -u       *)
(* options name distinct users, as for the two properties below.           *)
NamesAreUnique ==
    \A i, j \in InUse(users) : users[i].name = users[j].name => i = j

(* After DEL_USER no password lets that name in (socks5_del_user() clears  *)
(* one slot, socks5_validate_user() looks at them all), unless -u gave it  *)
(* twice.                                                                  *)
DeletedIsGone ==
    [][\A a \in Accounts : DelUser(a.name) =>
            \A w \in Passwords : ~Valid(users', a.name, w)]_users

(* The slots implement a set of accounts with distinct names: what ADD_USER*)
(* and DEL_USER do never touches another account, unless -u gave a name    *)
(* twice.                                                                  *)
UsersOf(t) == {t[i] : i \in InUse(t)}
Users == INSTANCE UserSet WITH accounts <- UsersOf(users)
ImplementsSet == Users!Spec
=============================================================================
