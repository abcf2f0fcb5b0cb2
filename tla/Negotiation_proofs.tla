------------------------- MODULE Negotiation_proofs -------------------------
(***************************************************************************)
(* Proofs about Negotiation: for any size of read_buffer, any messages of  *)
(* any length, any clients and any table of users that changes meanwhile.  *)
(*                                                                         *)
(* What a handler may rely on at its end it must know in the middle of a   *)
(* message: the invariant says, of every place a parser may be in, what    *)
(* stands in the stream up to the byte it used.  The loop of the handlers  *)
(* is a fold, whose definition is unfolded first.                          *)
(***************************************************************************)
EXTENDS Negotiation, SequenceTheorems, WellFoundedInduction, TLAPS

-----------------------------------------------------------------------------
(* The table of users, for any number of slots, names and passwords.      *)

(* The -u options name distinct users.  args.c does not ask for that, so    *)
(* it is a hypothesis of the theorems that need it.                        *)
DistinctOptions ==
    \A c \in CommandLines : \A i, j \in 1 .. Len(c) : c[i].name = c[j].name => i = j

UniqueIn(t) == \A i, j \in InUse(t) : t[i].name = t[j].name => i = j

(* A search that can succeed returns a slot it looked for.                 *)
LEMMA FirstIsMember ==
    ASSUME NEW S, S \subseteq Slots, S # {}
    PROVE  First(S) \in S
<1>1. S \subseteq Nat BY UserAssumption DEF Slots
<1> DEFINE Less == {ss \in Nat \X Nat : ss[1] < ss[2]}
<1>a. IsWellFoundedOn(Less, Nat) BY NatLessThanWellFounded DEF OpToRel
<1> HIDE DEF Less
<1>2. PICK n \in S : \A j \in S : ~ (<<j, n>> \in Less)
    BY <1>1, <1>a, WFMin
<1>3. ASSUME NEW j \in S PROVE n <= j
    <2>1. j \in Nat /\ n \in Nat BY <1>1
    <2>2. ~ (j < n) BY <1>2, <2>1 DEF Less
    <2> QED BY <2>1, <2>2
<1> QED BY <1>3 DEF First

(* A table is kept, or a free slot takes the new account.                  *)
LEMMA AddedCases ==
    ASSUME NEW t \in Tables, NEW a \in Accounts
    PROVE  \/ Added(t, a) = t
           \/ /\ Named(t, a.name) = {}
              /\ \E i \in Slots \ InUse(t) : Added(t, a) = [t EXCEPT ![i] = a]
<1>1. CASE Named(t, a.name) # {} \/ InUse(t) = Slots
    BY <1>1 DEF Added
<1>2. CASE Named(t, a.name) = {} /\ InUse(t) # Slots
    <2>1. Slots \ InUse(t) # {} BY <1>2 DEF InUse
    <2>2. First(Slots \ InUse(t)) \in Slots \ InUse(t) BY <2>1, FirstIsMember
    <2> QED BY <1>2, <2>2 DEF Added
<1> QED BY <1>1, <1>2

(* A table is kept, or a slot with that name is cleared.                   *)
LEMMA DeletedCases ==
    ASSUME NEW t \in Tables, NEW n
    PROVE  \/ Named(t, n) = {} /\ Deleted(t, n) = t
           \/ \E i \in Named(t, n) : Deleted(t, n) = [t EXCEPT ![i] = NoUser]
<1>1. CASE Named(t, n) = {}
    BY <1>1 DEF Deleted
<1>2. CASE Named(t, n) # {}
    <2>1. First(Named(t, n)) \in Named(t, n) BY <1>2, FirstIsMember DEF Named, InUse
    <2> QED BY <1>2, <2>1 DEF Deleted
<1> QED BY <1>1, <1>2

(* An addition keeps the type, and names apart.                            *)
LEMMA AddedKeeps ==
    ASSUME NEW t \in Tables, NEW a \in Accounts
    PROVE  Added(t, a) \in Tables /\ (UniqueIn(t) => UniqueIn(Added(t, a)))
<1>1. CASE Added(t, a) = t BY <1>1
<1>2. ASSUME Named(t, a.name) = {}, NEW i \in Slots \ InUse(t),
             Added(t, a) = [t EXCEPT ![i] = a]
      PROVE  Added(t, a) \in Tables /\ (UniqueIn(t) => UniqueIn(Added(t, a)))
    <2>1. Added(t, a) \in Tables BY <1>2 DEF Tables
    <2>2. InUse(Added(t, a)) = InUse(t) \cup {i}
        BY <1>2, UserAssumption DEF InUse, Tables
    <2>3. \A j \in InUse(t) : Added(t, a)[j] = t[j] /\ t[j].name # a.name
        BY <1>2 DEF InUse, Named, Tables
    <2>4. Added(t, a)[i] = a BY <1>2 DEF Tables
    <2> QED BY <2>1, <2>2, <2>3, <2>4 DEF UniqueIn
<1> QED BY <1>1, <1>2, AddedCases

(* A deletion keeps the type, and names apart.                             *)
LEMMA DeletedKeeps ==
    ASSUME NEW t \in Tables, NEW n
    PROVE  Deleted(t, n) \in Tables /\ (UniqueIn(t) => UniqueIn(Deleted(t, n)))
<1>1. CASE Deleted(t, n) = t BY <1>1
<1>2. ASSUME NEW i \in Named(t, n), Deleted(t, n) = [t EXCEPT ![i] = NoUser]
      PROVE  Deleted(t, n) \in Tables /\ (UniqueIn(t) => UniqueIn(Deleted(t, n)))
    <2>1. i \in Slots BY DEF Named, InUse
    <2>2. InUse(Deleted(t, n)) = InUse(t) \ {i} BY <1>2, <2>1 DEF InUse, Tables
    <2>3. \A j \in InUse(t) \ {i} : Deleted(t, n)[j] = t[j]
        BY <1>2 DEF InUse, Tables
    <2> QED BY <1>2, <2>1, <2>2, <2>3 DEF UniqueIn, Tables
<1> QED BY <1>1, <1>2, DeletedCases

(* With distinct names, no account of a deleted name is left.              *)
LEMMA DeletedLeavesNone ==
    ASSUME NEW t \in Tables, NEW n, UniqueIn(t)
    PROVE  Named(Deleted(t, n), n) = {}
<1>1. CASE Named(t, n) = {} /\ Deleted(t, n) = t BY <1>1
<1>2. ASSUME NEW i \in Named(t, n), Deleted(t, n) = [t EXCEPT ![i] = NoUser]
      PROVE  Named(Deleted(t, n), n) = {}
    <2>1. InUse(Deleted(t, n)) = InUse(t) \ {i} BY <1>2 DEF Named, InUse, Tables
    <2>2. \A j \in InUse(t) \ {i} : Deleted(t, n)[j] = t[j] /\ t[j].name # n
        BY <1>2 DEF InUse, Tables, Named, UniqueIn
    <2> QED BY <2>1, <2>2 DEF Named
<1> QED BY <1>1, <1>2, DeletedCases

(* The table keeps its type: every option and every command finds its slot *)
(* inside the table (socks5_init(), socks5_add_user(), socks5_del_user()). *)
THEOREM TableTypeCorrect == TableSpec => []TableTypeOK
<1>1. TableInit => TableTypeOK
    <2> SUFFICES ASSUME NEW c \in CommandLines PROVE Loaded(c) \in Tables
        BY DEF TableInit, TableTypeOK
    <2>1. c \in Seq(Accounts) BY UserAssumption
    <2> QED BY <2>1 DEF Loaded, Tables, Slots
<1>2. TableTypeOK /\ [Change]_users => TableTypeOK'
    BY AddedKeeps, DeletedKeeps DEF TableTypeOK, Change, AddUser, DelUser
<1> QED BY <1>1, <1>2, PTL DEF TableSpec

(* Where the -u options name distinct users, names stay distinct, whatever *)
(* is added and deleted (socks5_add_user() looks at every slot before it   *)
(* takes one).                                                             *)
THEOREM NamesStayUnique ==
    ASSUME DistinctOptions
    PROVE  TableSpec => []NamesAreUnique
<1>1. TableInit => UniqueIn(users)
    <2> SUFFICES ASSUME NEW c \in CommandLines PROVE UniqueIn(Loaded(c)) BY DEF TableInit
    <2>1. c \in Seq(Accounts) /\ Len(c) \in Nat BY UserAssumption
    <2>2. \A i \in InUse(Loaded(c)) : i \in 1 .. Len(c) /\ Loaded(c)[i] = c[i]
        BY <2>1 DEF InUse, Loaded, Slots
    <2> QED BY <2>2 DEF UniqueIn, DistinctOptions
<1>2. TableTypeOK /\ UniqueIn(users) /\ [Change]_users => UniqueIn(users)'
    BY AddedKeeps, DeletedKeeps DEF TableTypeOK, UniqueIn, InUse, Change, AddUser, DelUser
<1>3. UniqueIn(users) <=> NamesAreUnique BY DEF UniqueIn, NamesAreUnique
<1> QED BY <1>1, <1>2, <1>3, TableTypeCorrect, PTL DEF TableSpec

(* Where the -u options name distinct users, DEL_USER is final: after it   *)
(* no password lets that name in, although socks5_del_user() clears one    *)
(* slot only.  Where they name a user twice it is not: the second slot     *)
(* stays.                                                                  *)
THEOREM DeletionIsFinal ==
    ASSUME DistinctOptions
    PROVE  TableSpec => DeletedIsGone
<1> DEFINE Gone == \A a \in Accounts : DelUser(a.name) =>
                      \A w \in Passwords : ~Valid(users', a.name, w)
<1>1. TableTypeOK /\ NamesAreUnique /\ [Change]_users => [Gone]_users
    BY DeletedLeavesNone DEF TableTypeOK, NamesAreUnique, UniqueIn, DelUser, Valid
<1> QED BY <1>1, TableTypeCorrect, NamesStayUnique, PTL DEF TableSpec, DeletedIsGone

(* Where the -u options name distinct users, the slots implement a set of  *)
(* accounts with distinct names: a command touches the account it names    *)
(* and no other.  Where they name a user twice, two slots have the name,   *)
(* of which a deletion clears one.                                         *)
THEOREM SetRefinement ==
    ASSUME DistinctOptions
    PROVE  TableSpec => ImplementsSet
<1>1. TableInit /\ TableTypeOK /\ NamesAreUnique => Users!Init
    BY DEF Users!Init, UsersOf, TableTypeOK, Tables, NamesAreUnique, InUse
<1>2. ASSUME TableTypeOK, NamesAreUnique, NEW a \in Accounts, AddUser(a)
      PROVE  [Users!Next]_(UsersOf(users))
    <2>1. CASE users' = users BY <2>1
    <2>2. ASSUME Named(users, a.name) = {}, NEW i \in Slots \ InUse(users),
                 users' = [users EXCEPT ![i] = a]
          PROVE  Users!Add(a)
        <3>1. InUse(users') = InUse(users) \cup {i}
            BY <1>2, <2>2, UserAssumption DEF InUse, TableTypeOK, Tables
        <3>2. users'[i] = a /\ \A j \in InUse(users) : users'[j] = users[j]
            BY <1>2, <2>2 DEF InUse, TableTypeOK, Tables
        <3>3. UsersOf(users') = UsersOf(users) \cup {a} BY <3>1, <3>2 DEF UsersOf
        <3>4. Users!Named(a.name) = {} BY <2>2 DEF Users!Named, UsersOf, Named
        <3> QED BY <3>3, <3>4 DEF Users!Add
    <2> QED BY <1>2, <2>1, <2>2, AddedCases DEF AddUser, TableTypeOK, Users!Next
<1>3. ASSUME TableTypeOK, NamesAreUnique, NEW a \in Accounts, DelUser(a.name)
      PROVE  [Users!Next]_(UsersOf(users))
    <2>1. CASE users' = users BY <2>1
    <2>2. ASSUME NEW i \in Named(users, a.name), users' = [users EXCEPT ![i] = NoUser]
          PROVE  Users!Delete(a.name)
        <3>1. InUse(users') = InUse(users) \ {i}
            BY <1>3, <2>2 DEF Named, InUse, TableTypeOK, Tables
        <3>2. \A j \in InUse(users) \ {i} : users'[j] = users[j] /\ users[j].name # a.name
            BY <1>3, <2>2 DEF Named, InUse, TableTypeOK, Tables, NamesAreUnique
        <3>3. i \in InUse(users) /\ users[i].name = a.name BY DEF Named
        <3>4. Users!Named(a.name) = {users[i]} BY <3>2, <3>3 DEF Users!Named, UsersOf
        <3>5. UsersOf(users') = UsersOf(users) \ {users[i]}
            BY <3>1, <3>2, <3>3 DEF UsersOf
        <3> QED BY <3>4, <3>5 DEF Users!Delete
    <2> QED BY <1>3, <2>1, <2>2, DeletedCases DEF DelUser, TableTypeOK, Users!Next
<1>4. TableTypeOK /\ NamesAreUnique /\ [Change]_users => [Users!Next]_(UsersOf(users))
    BY <1>2, <1>3 DEF Change, UsersOf, InUse
<1> QED BY <1>1, <1>4, TableTypeCorrect, NamesStayUnique, PTL DEF TableSpec, ImplementsSet, Users!Spec

-----------------------------------------------------------------------------
(* Counting, and the loop of the read handlers one byte at a time.         *)

(* A set of numbers that is not empty has a least one.                     *)
LEMMA LeastNumber ==
    ASSUME NEW S \in SUBSET Nat, S # {}
    PROVE  \E x \in S : \A y \in S : x <= y
<1>1. PICK x \in S : \A y \in S : ~ (<<y, x>> \in OpToRel(<, Nat))
  BY WFMin, NatLessThanWellFounded
<1>2. \A y \in S : ~(y < x)
  BY <1>1 DEF OpToRel
<1> QED  BY <1>2

(* What has 0, and with a number the next one, has every number: by the    *)
(* least number it has not.                                                *)
LEMMA CountingUp ==
    ASSUME NEW S \in SUBSET Nat, 0 \in S, \A k \in S : k + 1 \in S
    PROVE  S = Nat
<1>1. SUFFICES ASSUME S # Nat PROVE FALSE
  OBVIOUS
<1>2. PICK x \in Nat \ S : \A y \in Nat \ S : x <= y
  <2>1. (Nat \ S) \in SUBSET Nat /\ Nat \ S # {}
    BY <1>1
  <2> QED  BY <2>1, LeastNumber
<1>3. x - 1 \in Nat /\ x - 1 + 1 = x /\ ~(x <= x - 1)
  BY <1>2
<1> QED  BY <1>2, <1>3

(* The loop of Parse on one byte.                                          *)
Step(state, acc, b) ==
    IF Over(acc.q) THEN acc ELSE [q |-> Feed(state, acc.q, b), used |-> acc.used + 1]

(* f is the recursive function by which the community modules define       *)
(* FoldLeft over a sequence: FoldLeft itself is the CHOICE of such a       *)
(* function.                                                               *)
IsFold(state, q, s, f, D) ==
    f = [t \in SUBSET D |->
            IF t = {} THEN [q |-> q, used |-> 0]
            ELSE Step(state, f[t \ {Max(t)}], s[Max(t)])]

(* Parse is that choice, at the whole sequence.                            *)
LEMMA ParseIsFold ==
    ASSUME NEW state, NEW q, NEW s
    PROVE  Parse(state, q, s) = (CHOOSE f : IsFold(state, q, s, f, DOMAIN s))[DOMAIN s]
BY DEF Parse, FoldLeft, MapThenFoldSet, IsFold, Step

(* The positions are folded from the greatest down.                        *)
LEMMA MaxOfSome ==
    ASSUME NEW k \in Nat, NEW t \in SUBSET (1 .. k), t # {}
    PROVE  Max(t) \in t /\ \A x \in t : x <= Max(t)
<1> DEFINE D == {k - x : x \in t}
<1>1. \A x \in t : x \in Nat /\ x <= k /\ k - x \in Nat
  OBVIOUS
<1>2. D \in SUBSET Nat /\ D # {}
  BY <1>1
<1>3. PICK d \in D : \A e \in D : d <= e
  BY <1>2, LeastNumber
<1>4. PICK x \in t : d = k - x
  BY <1>3
<1>5. \A y \in t : x >= y
  <2>1. ASSUME NEW y \in t PROVE x >= y
    <3>1. d <= k - y
      BY <1>3
    <3> QED  BY <1>1, <1>4, <3>1
  <2> QED  BY <2>1
<1>6. Max(t) \in t /\ \A y \in t : Max(t) >= y
  BY <1>5 DEF Max
<1> QED  BY <1>1, <1>6

(* There is such a function for every length, so that the choice is one.   *)
LEMMA FoldExists ==
    ASSUME NEW state, NEW q, NEW s, NEW m \in Nat
    PROVE  \E f : IsFold(state, q, s, f, 1 .. m)
<1> DEFINE S == {k \in Nat : \E f : IsFold(state, q, s, f, 1 .. k)}
<1>1. 0 \in S
  <2> DEFINE f == [t \in SUBSET (1 .. 0) |-> [q |-> q, used |-> 0]]
  <2>1. \A t \in SUBSET (1 .. 0) : t = {}
    OBVIOUS
  <2>2. IsFold(state, q, s, f, 1 .. 0)
    BY <2>1 DEF IsFold
  <2> QED  BY <2>2
<1>2. ASSUME NEW k \in S PROVE k + 1 \in S
  <2>1. PICK f : IsFold(state, q, s, f, 1 .. k)
    OBVIOUS
  <2> DEFINE g == [t \in SUBSET (1 .. k + 1) |->
                     IF t = {} THEN [q |-> q, used |-> 0]
                     ELSE Step(state, f[t \ {Max(t)}], s[Max(t)])]
  <2>2. ASSUME NEW t \in SUBSET (1 .. k + 1), t # {}
        PROVE  Max(t) \in t /\ t \ {Max(t)} \in SUBSET (1 .. k)
    <3>1. k \in Nat /\ k + 1 \in Nat
      OBVIOUS
    <3>2. Max(t) \in t /\ \A x \in t : x <= Max(t)
      BY <2>2, <3>1, MaxOfSome
    <3>3. \A x \in t : x \in Nat /\ 1 <= x /\ x <= k + 1
      OBVIOUS
    <3>4. ASSUME NEW x \in t \ {Max(t)} PROVE x \in 1 .. k
      <4>1. x \in Nat /\ 1 <= x /\ x <= Max(t) /\ x # Max(t) /\ Max(t) <= k + 1 /\ Max(t) \in Nat
        BY <3>2, <3>3
      <4> QED  BY <3>1, <4>1
    <3> QED  BY <3>2, <3>4
  <2>3. \A t \in SUBSET (1 .. k) : g[t] = f[t]
    <3>1. SUBSET (1 .. k) \subseteq SUBSET (1 .. k + 1)
      OBVIOUS
    <3>2. \A t \in SUBSET (1 .. k) : g[t] =
             IF t = {} THEN [q |-> q, used |-> 0]
             ELSE Step(state, f[t \ {Max(t)}], s[Max(t)])
      BY <3>1
    <3>3. \A t \in SUBSET (1 .. k) : f[t] =
             IF t = {} THEN [q |-> q, used |-> 0]
             ELSE Step(state, f[t \ {Max(t)}], s[Max(t)])
      BY <2>1 DEF IsFold
    <3> QED  BY <3>2, <3>3
  <2>4. IsFold(state, q, s, g, 1 .. k + 1)
    <3>1. \A t \in SUBSET (1 .. k + 1) : t # {} => g[t \ {Max(t)}] = f[t \ {Max(t)}]
      BY <2>2, <2>3
    <3> QED  BY <3>1 DEF IsFold
  <2> QED  BY <2>4
<1> HIDE DEF S
<1>3. S = Nat
  <2>1. S \in SUBSET Nat
    BY DEF S
  <2> QED  BY <1>1, <1>2, <2>1, CountingUp
<1> QED  BY <1>3 DEF S

(* run[k] is what acc is after k bytes of s.                               *)
IsRun(run, state, q, s, m) ==
    /\ run[0] = [q |-> q, used |-> 0]
    /\ \A k \in 1 .. m : run[k] = Step(state, run[k - 1], s[k])
    /\ Parse(state, q, s) = run[m]

(* The fold of Parse, unfolded: a run of Step over the bytes.              *)
LEMMA ParseRuns ==
    ASSUME NEW state, NEW q, NEW s, NEW m \in Nat, DOMAIN s = 1 .. m
    PROVE  \E run : IsRun(run, state, q, s, m)
<1> DEFINE F == CHOOSE f : IsFold(state, q, s, f, 1 .. m)
           run == [k \in 0 .. m |-> F[1 .. k]]
<1>1. IsFold(state, q, s, F, 1 .. m)
  BY FoldExists
<1>2. Parse(state, q, s) = F[1 .. m]
  BY ParseIsFold
<1> HIDE DEF F
<1>3. \A t \in SUBSET (1 .. m) : F[t] =
         IF t = {} THEN [q |-> q, used |-> 0] ELSE Step(state, F[t \ {Max(t)}], s[Max(t)])
  BY <1>1 DEF IsFold
<1>4. run[0] = [q |-> q, used |-> 0]
  <2>1. 1 .. 0 = {} /\ 0 \in 0 .. m
    OBVIOUS
  <2> QED  BY <1>3, <2>1
<1>5. ASSUME NEW k \in 1 .. m PROVE run[k] = Step(state, run[k - 1], s[k])
  <2>1. k \in Nat /\ (1 .. k) \in SUBSET (1 .. m) /\ 1 .. k # {} /\ k \in 0 .. m
        /\ k - 1 \in 0 .. m
    <3>1. k \in Nat /\ 1 <= k /\ k <= m /\ k \in 1 .. k
      OBVIOUS
    <3> QED  BY <3>1
  <2>2. Max(1 .. k) \in 1 .. k /\ \A x \in 1 .. k : x <= Max(1 .. k)
    BY <2>1, MaxOfSome
  <2>3. Max(1 .. k) = k
    BY <2>1, <2>2
  <2>4. (1 .. k) \ {k} = 1 .. (k - 1)
    BY <2>1
  <2>5. F[1 .. k] = Step(state, F[(1 .. k) \ {k}], s[k])
    BY <1>3, <2>1, <2>3
  <2> QED  BY <2>1, <2>4, <2>5
<1> HIDE DEF run
<1>6. Parse(state, q, s) = run[m]
  BY <1>2 DEF run
<1> QED  BY <1>4, <1>5, <1>6 DEF IsRun
-----------------------------------------------------------------------------
(* What the parsers know, and the invariant *)

(* Bytes, as the client says them and as it receives them.                 *)
Text == Seq(Byte)

Places == {"VERSION", "NMETHODS", "METHODS", "ULEN", "UNAME", "PLEN", "PASSWD", "CMD", "RSV",
           "ATYP", "DADDR_LEN", "DADDR", "DPORT", "DONE", "ERROR"}

(* The fields of the parser union.                                         *)
Parsers == [at : Places, left : Byte, offered : SUBSET {NoAuth, UserPass}, selected : Byte,
            uname : Text, passwd : Text, ok : BOOLEAN, cmd : Byte, atyp : Byte,
            addr : Text, port : Text]

(* A parser that has read no name, no address.                             *)
Unnamed(q) == q.uname = <<>> /\ q.passwd = <<>>
Unasked(q) == q.addr = <<>> /\ q.port = <<>>

(* HelloEnd, Offered and the others of Negotiation, as functions of what   *)
(* was said: what a longer stream leaves as it is can be told.             *)
HelloEndOf(s) == 2 + s[2]

(* The methods among the first u bytes.                                    *)
MethodsIn(s, u) == {s[i] : i \in 3 .. u} \cap {NoAuth, UserPass}

(* What hello_feed() knows after u bytes of s: its place is the place of   *)
(* byte u in the grammar of a hello, and offered is what stands there.     *)
HelloAt(s, q, u) ==
    /\ q.at \in {"VERSION", "NMETHODS", "METHODS", "DONE", "ERROR"} /\ u <= Len(s)
    /\ Unnamed(q) /\ Unasked(q)
    /\ q.at = "VERSION" => u = 0 /\ q.offered = {}
    /\ q.at = "NMETHODS" => u = 1 /\ s[1] = 5 /\ q.offered = {}
    /\ q.at \in {"METHODS", "DONE"} => u >= 2 /\ s[1] = 5 /\ q.offered = MethodsIn(s, u)
    /\ q.at = "METHODS" => q.left > 0 /\ u + q.left = HelloEndOf(s)
    /\ q.at = "DONE" => u = HelloEndOf(s)

(* The same for a username/password message that follows byte a.           *)
PlenOf(s, a)    == a + 3 + s[a + 2]
AuthEndOf(s, a) == PlenOf(s, a) + s[PlenOf(s, a)]

(* What auth_feed() knows at byte u of s, when its message follows byte a. *)
AuthAt(s, a, q, u) ==
    /\ q.at \in {"VERSION", "ULEN", "UNAME", "PLEN", "PASSWD", "DONE", "ERROR"} /\ u <= Len(s)
    /\ Unasked(q)
    /\ q.at = "VERSION" => u = a /\ Unnamed(q)
    /\ q.at \notin {"VERSION", "ERROR"} => u > a /\ s[a + 1] = 1
    /\ q.at = "ULEN" => u = a + 1 /\ Unnamed(q)
    /\ q.at \in {"UNAME", "PLEN", "PASSWD", "DONE"} => u > a + 1
    /\ q.at \in {"UNAME", "PLEN"} => q.uname = SubSeq(s, a + 3, u) /\ q.passwd = <<>>
    /\ q.at = "UNAME" => q.left > 0 /\ u + q.left = PlenOf(s, a) - 1
    /\ q.at = "PLEN" => u = PlenOf(s, a) - 1
    /\ q.at \in {"PASSWD", "DONE"} =>
          /\ u >= PlenOf(s, a)
          /\ q.uname = SubSeq(s, a + 3, PlenOf(s, a) - 1)
          /\ q.passwd = SubSeq(s, PlenOf(s, a) + 1, u)
    /\ q.at = "PASSWD" => q.left > 0 /\ u + q.left = AuthEndOf(s, a)
    /\ q.at = "DONE" => u = AuthEndOf(s, a)

AddrFrom(s, a) == a + IF s[a + 4] = FQDN THEN 6 ELSE 5

AddrEndOf(s, a) ==
    a + (CASE s[a + 4] = IPv4 -> 8 [] s[a + 4] = IPv6 -> 20
           [] s[a + 4] = FQDN -> 5 + s[a + 5])

(* What request_feed() knows at byte u of s, when its message follows byte *)
(* a.                                                                      *)
AskAt(s, a, q, u) ==
    /\ q.at \in {"VERSION", "CMD", "RSV", "ATYP", "DADDR_LEN", "DADDR", "DPORT", "DONE", "ERROR"}
    /\ u <= Len(s)
    /\ q.at = "VERSION" => u = a
    /\ q.at = "CMD" => u = a + 1
    /\ q.at = "RSV" => u = a + 2
    /\ q.at = "ATYP" => u = a + 3
    /\ q.at = "DADDR_LEN" => u = a + 4 /\ s[a + 4] = FQDN
    /\ q.at \in {"VERSION", "CMD", "RSV", "ATYP", "DADDR_LEN"} => Unasked(q)
    /\ q.at \notin {"VERSION", "ERROR"} => u > a /\ s[a + 1] = 5
    /\ q.at \notin {"VERSION", "CMD", "ERROR"} => u > a + 1 /\ q.cmd = s[a + 2]
    /\ q.at \notin {"VERSION", "CMD", "RSV", "ERROR"} => u > a + 2 /\ s[a + 3] = 0
    /\ q.at \in {"DADDR", "DPORT", "DONE"} =>
          /\ u > a + 3 /\ s[a + 4] \in {IPv4, IPv6, FQDN}
          /\ s[a + 4] = FQDN => u > a + 4
    /\ q.at = "DADDR" =>
          /\ u >= AddrFrom(s, a) - 1 /\ q.left > 0 /\ u + q.left = AddrEndOf(s, a)
          /\ q.addr = SubSeq(s, AddrFrom(s, a), u) /\ q.port = <<>>
    /\ q.at \in {"DPORT", "DONE"} =>
          /\ q.addr = SubSeq(s, AddrFrom(s, a), AddrEndOf(s, a))
          /\ q.port = SubSeq(s, AddrEndOf(s, a) + 1, u)
    /\ q.at = "DPORT" => u \in {AddrEndOf(s, a), AddrEndOf(s, a) + 1}
    /\ q.at = "DONE" => u = AddrEndOf(s, a) + 2

(* Which parser a state has in the union.                                  *)
Hellos == {"HELLO_READ", "HELLO_WRITE"}
Auths  == {"AUTH_READ", "AUTH_WRITE"}
Asks   == {"REQUEST_READ", "SERVED"}

At(state, s, a, q, u) ==
    /\ state \in Hellos => HelloAt(s, q, u)
    /\ state \in Auths => AuthAt(s, a, q, u)
    /\ state \in Asks => AskAt(s, a, q, u)

(* A whole hello, a whole username/password message stand at the start of  *)
(* s.                                                                      *)
HelloSaid(s) == Len(s) >= 2 /\ s[1] = 5 /\ HelloEndOf(s) <= Len(s)
OfferedOf(s) == {s[i] : i \in 3 .. HelloEndOf(s)}

AuthSaid(s) ==
    LET a == HelloEndOf(s)
    IN  /\ HelloSaid(s) /\ a + 1 < Len(s) /\ s[a + 1] = 1
        /\ PlenOf(s, a) <= Len(s) /\ AuthEndOf(s, a) <= Len(s)

UsernameOf(s) == SubSeq(s, HelloEndOf(s) + 3, PlenOf(s, HelloEndOf(s)) - 1)
PasswordOf(s) == SubSeq(s, PlenOf(s, HelloEndOf(s)) + 1, AuthEndOf(s, HelloEndOf(s)))

AskFrom(s) == IF got = <<5, NoAuth>> THEN HelloEndOf(s) ELSE AuthEndOf(s, HelloEndOf(s))

(* Where the message of the present state starts.                          *)
From(s) == IF stm \in Hellos THEN 0 ELSE IF stm \in Auths THEN HelloEndOf(s) ELSE AskFrom(s)

(* What let the client in: the answers it got and the tables they          *)
(* followed.                                                               *)
Entitled(s) ==
    \/ got = <<5, NoAuth>> /\ HelloSaid(s) /\ NoAuth \in OfferedOf(s) /\ ~HasUsers(atHello)
    \/ /\ got = <<5, UserPass, 1, 0>> /\ AuthSaid(s) /\ UserPass \in OfferedOf(s)
       /\ Valid(atAuth, CString(UsernameOf(s)), CString(PasswordOf(s)))

(* The parser of each state knows what its message says up to the byte it  *)
(* used, and a state behind an answer has a whole message behind it.       *)
Where(s) ==
    /\ At(stm, s, From(s), p, Used)
    /\ stm \in {"HELLO_WRITE", "AUTH_WRITE", "SERVED"} => p.at = "DONE"
    /\ stm \in Auths => HelloSaid(s) /\ UserPass \in OfferedOf(s)
    /\ stm \in {"REQUEST_READ", "REQUEST_WRITE", "SERVED"} => Entitled(s)
    /\ stm = "SERVED" => p.cmd = 1

(* An answer that was not yet sent agrees with the table it followed.      *)
Decisions ==
    /\ stm = "HELLO_WRITE" => p.selected = Method(p.offered, atHello)
    /\ stm = "AUTH_WRITE" =>
          (p.ok <=> Valid(atAuth, CString(p.uname), CString(p.passwd)))

(* What was received and what is still to send are the answers so far.     *)
Answers ==
    /\ got \in Text /\ wbuf \in Text
    /\ stm \in ReadStates => wbuf = <<>>
    /\ stm \in WriteStates => wbuf # <<>>
    /\ stm = "HELLO_READ" => got = <<>>
    /\ stm = "HELLO_WRITE" => got \o wbuf = <<5, p.selected>>
    /\ stm = "AUTH_READ" => got = <<5, UserPass>>
    /\ stm = "AUTH_WRITE" => got \o wbuf = <<5, UserPass, 1, IF p.ok THEN 0 ELSE 1>>

(* The buffer b holds the bytes of s from u on, with its positions in      *)
(* order, and starts again at 0 when it is empty.                          *)
Waiting(b, s, u) ==
    /\ b \in Buffers /\ b.read <= b.write
    /\ b.read = b.write => b.write = 0
    /\ u \in Nat /\ u + Count(b) <= Len(s)
    /\ \A i \in b.read .. b.write - 1 : b.data[i] = s[u + 1 + (i - b.read)]

Types ==
    /\ users \in Tables /\ client \in Clients /\ said \in Text /\ taken \in 0 .. Len(said)
    /\ stm \in ReadStates \cup WriteStates \cup Ends
    /\ p \in Parsers /\ reply \in {NoReply, GeneralFailure, CommandNotSupported}

(* The second message of s, from byte a, has nothing behind its end.       *)
AuthFitsAt(s, a) ==
    Len(s) >= a + 2 /\ s[a + 1] = 1 /\ Len(s) >= PlenOf(s, a) => Len(s) <= AuthEndOf(s, a)

(* A client that waits for its turn: nothing of it waits in the buffer,    *)
(* and what it said last is the message of the present state.              *)
Turns ==
    ~client.ahead =>
        /\ stm \notin Ends => rbuf.read = rbuf.write
        /\ stm = "HELLO_READ" =>
              \/ spoken = "nothing" /\ said = <<>>
              \/ spoken = "hello" /\ HelloFits(said)
        /\ stm = "HELLO_WRITE" => spoken = "hello" /\ Len(said) = HelloEndOf(said)
        /\ stm = "AUTH_READ" =>
              \/ spoken = "hello" /\ Len(said) = HelloEndOf(said)
              \/ spoken = "auth" /\ AuthFitsAt(said, HelloEndOf(said))
        /\ stm = "AUTH_WRITE" => spoken = "auth"

(* The inductive invariant.  MessagesAreWhole is not inductive: it says    *)
(* nothing of a parser in the middle of a message.                         *)
Inv ==
    /\ Types /\ Where(said) /\ Decisions /\ Answers
    /\ Waiting(rbuf, said, Used)
    /\ Turns

-----------------------------------------------------------------------------
(* One byte more *)

(* A byte is a number up to 255.                                           *)
LEMMA Bytes ==
    /\ \A x \in Byte : x \in Nat /\ x <= 255
    /\ \A x \in Nat : x <= 255 => x \in Byte
BY DEF Byte

(* What stands in a text is a byte.                                        *)
LEMMA TextBytes ==
    ASSUME NEW s \in Text
    PROVE  /\ Len(s) \in Nat /\ DOMAIN s = 1 .. Len(s)
           /\ \A i \in 1 .. Len(s) : s[i] \in Byte /\ s[i] \in Nat
           /\ \A i \in Nat : 1 <= i /\ i <= Len(s) => s[i] \in Byte /\ s[i] \in Nat
<1>1. Len(s) \in Nat /\ DOMAIN s = 1 .. Len(s) /\ \A i \in 1 .. Len(s) : s[i] \in Byte
  BY DEF Text
<1> QED  BY <1>1, Bytes

(* A field that gets one byte more is one byte longer in the text.         *)
LEMMA BytesJoin ==
    ASSUME NEW s \in Text, NEW a \in Nat, NEW u \in Nat, 0 < a, a <= u + 1, u < Len(s)
    PROVE  /\ SubSeq(s, a, u) \in Text
           /\ Append(SubSeq(s, a, u), s[u + 1]) = SubSeq(s, a, u + 1)
           /\ Append(SubSeq(s, a, u), s[u + 1]) \in Text
           /\ Len(SubSeq(s, a, u)) = u + 1 - a
BY DEF Text

(* A field that has just begun is empty.                                   *)
LEMMA NoBytes ==
    ASSUME NEW s \in Text, NEW u \in Nat
    PROVE  SubSeq(s, u + 1, u) = <<>> /\ <<>> \in Text
BY DEF Text

(* One byte through hello_feed().                                          *)
LEMMA HelloStep ==
    ASSUME NEW s \in Text, NEW u \in Nat, u < Len(s), NEW q \in Parsers, HelloAt(s, q, u), ~Over(q)
    PROVE  /\ HelloFeed(q, s[u + 1]) \in Parsers
           /\ HelloAt(s, HelloFeed(q, s[u + 1]), u + 1)
<1> DEFINE b == s[u + 1]
           r == HelloFeed(q, b)
<1>1. b \in Byte /\ b \in Nat /\ u + 1 \in Nat /\ u + 1 <= Len(s) /\ Len(s) \in Nat
  BY TextBytes
<1>2. CASE q.at = "VERSION"
  <2>1. r = [q EXCEPT !.at = IF b = 5 THEN "NMETHODS" ELSE "ERROR"]
    BY <1>2 DEF HelloFeed
  <2>2. /\ r \in Parsers /\ r.at = (IF b = 5 THEN "NMETHODS" ELSE "ERROR")
        /\ r.offered = q.offered
        /\ r.uname = q.uname /\ r.passwd = q.passwd /\ r.addr = q.addr /\ r.port = q.port
    BY <2>1 DEF Parsers, Places
  <2> HIDE DEF r
  <2>3. HelloAt(s, r, u + 1)
    BY <1>1, <1>2, <2>2 DEF HelloAt, Unnamed, Unasked
  <2> QED  BY <2>2, <2>3 DEF r
<1>3. CASE q.at = "NMETHODS"
  <2>1. r = [q EXCEPT !.left = b, !.at = IF b = 0 THEN "DONE" ELSE "METHODS"]
    BY <1>3 DEF HelloFeed
  <2>2. /\ r \in Parsers /\ r.at = (IF b = 0 THEN "DONE" ELSE "METHODS")
        /\ r.left = b /\ r.offered = q.offered
        /\ r.uname = q.uname /\ r.passwd = q.passwd /\ r.addr = q.addr /\ r.port = q.port
    BY <1>1, <2>1 DEF Parsers, Places
  <2> HIDE DEF r
  <2>3. MethodsIn(s, 2) = {}
    BY DEF MethodsIn
  <2>4. u = 1 /\ s[2] = b /\ s[1] = 5 /\ q.offered = {}
    BY <1>3 DEF HelloAt
  <2>5. HelloAt(s, r, u + 1)
    BY <1>1, <1>3, <2>2, <2>3, <2>4 DEF HelloAt, Unnamed, Unasked, HelloEndOf
  <2> QED  BY <2>2, <2>5 DEF r
<1>4. CASE q.at = "METHODS"
  <2>1. r = [q EXCEPT !.offered = q.offered \cup ({b} \cap {NoAuth, UserPass}),
                      !.left = q.left - 1, !.at = IF q.left = 1 THEN "DONE" ELSE "METHODS"]
    BY <1>4 DEF HelloFeed
  <2>2. q.left \in Byte /\ q.left \in Nat /\ q.left - 1 \in Int /\ q.left <= 255
    BY Bytes DEF Parsers
  <2>3. /\ u >= 2 /\ q.offered = MethodsIn(s, u) /\ q.left > 0 /\ u + q.left = HelloEndOf(s)
        /\ s[1] = 5
    BY <1>4 DEF HelloAt
  <2>4. q.left - 1 \in Byte
    BY <2>2, <2>3, Bytes
  <2>5. 3 .. u + 1 = (3 .. u) \cup {u + 1}
    BY <2>3
  <2>6. MethodsIn(s, u + 1) = MethodsIn(s, u) \cup ({b} \cap {NoAuth, UserPass})
    BY <2>5 DEF MethodsIn
  <2>7. /\ r \in Parsers /\ r.at = (IF q.left = 1 THEN "DONE" ELSE "METHODS")
        /\ r.left = q.left - 1 /\ r.offered = MethodsIn(s, u + 1)
        /\ r.uname = q.uname /\ r.passwd = q.passwd /\ r.addr = q.addr /\ r.port = q.port
    BY ZenonT(30), <2>1, <2>3, <2>4, <2>6 DEF Parsers, Places
  <2> HIDE DEF r
  <2>8. HelloAt(s, r, u + 1)
    BY SMTT(20), <1>1, <1>4, <2>2, <2>3, <2>7 DEF HelloAt, Unnamed, Unasked
  <2> QED  BY <2>7, <2>8 DEF r
<1> QED  BY <1>2, <1>3, <1>4 DEF HelloAt, Over

(* The length of the password stands behind the name.                      *)
LEMMA PlenIsNat ==
    ASSUME NEW s \in Text, NEW a \in Nat, NEW u \in Nat, u > a + 1, u <= Len(s)
    PROVE  PlenOf(s, a) \in Nat /\ PlenOf(s, a) > a + 2
<1>1. s[a + 2] \in Nat
  BY TextBytes
<1> QED  BY <1>1 DEF PlenOf

(* One byte through auth_feed().                                           *)
LEMMA AuthStep ==
    ASSUME NEW s \in Text, NEW a \in Nat, NEW u \in Nat, u < Len(s),
           NEW q \in Parsers, AuthAt(s, a, q, u), ~Over(q)
    PROVE  /\ AuthFeed(q, s[u + 1]) \in Parsers
           /\ AuthAt(s, a, AuthFeed(q, s[u + 1]), u + 1)
<1> DEFINE b == s[u + 1]
           r == AuthFeed(q, b)
<1>1. b \in Byte /\ b \in Nat /\ u + 1 \in Nat /\ u + 1 <= Len(s) /\ Len(s) \in Nat
  BY TextBytes
<1>2. q.left \in Nat /\ (q.left > 0 => q.left - 1 \in Byte)
  <2>1. q.left \in Byte
    BY DEF Parsers
  <2>2. q.left \in Nat /\ q.left <= 255
    BY <2>1, Bytes
  <2> QED  BY <2>2, Bytes
<1>3. CASE q.at = "VERSION"
  <2>1. r = [q EXCEPT !.at = IF b = 1 THEN "ULEN" ELSE "ERROR"]
    BY <1>3 DEF AuthFeed
  <2>2. /\ r \in Parsers /\ r.at = (IF b = 1 THEN "ULEN" ELSE "ERROR")
        /\ r.uname = q.uname /\ r.passwd = q.passwd /\ r.addr = q.addr /\ r.port = q.port
    BY <2>1 DEF Parsers, Places
  <2> HIDE DEF r
  <2>3. AuthAt(s, a, r, u + 1)
    BY <1>1, <1>3, <2>2 DEF AuthAt, Unnamed, Unasked
  <2> QED  BY <2>2, <2>3 DEF r
<1>4. CASE q.at = "ULEN"
  <2>1. r = [q EXCEPT !.left = b, !.at = IF b = 0 THEN "PLEN" ELSE "UNAME"]
    BY <1>4 DEF AuthFeed
  <2>2. /\ r \in Parsers /\ r.at = (IF b = 0 THEN "PLEN" ELSE "UNAME") /\ r.left = b
        /\ r.uname = q.uname /\ r.passwd = q.passwd /\ r.addr = q.addr /\ r.port = q.port
    BY <1>1, <2>1 DEF Parsers, Places
  <2> HIDE DEF r
  <2>3. u + 1 = a + 2 /\ s[a + 1] = 1 /\ s[a + 2] = b /\ Unnamed(q) /\ Unasked(q)
    BY <1>4 DEF AuthAt
  <2>4. SubSeq(s, a + 3, u + 1) = <<>>
    BY <2>3, NoBytes
  <2>5. PlenOf(s, a) = u + 2 + b
    BY <1>1, <2>3 DEF PlenOf
  <2>6. AuthAt(s, a, r, u + 1)
    BY <1>1, <2>2, <2>3, <2>4, <2>5 DEF AuthAt, Unnamed, Unasked
  <2> QED  BY <2>2, <2>6 DEF r
<1>5. CASE q.at = "UNAME"
  <2> DEFINE name == SubSeq(s, a + 3, u + 1)
  <2>2. /\ u > a + 1 /\ s[a + 1] = 1 /\ q.left > 0 /\ u + q.left = PlenOf(s, a) - 1
        /\ q.uname = SubSeq(s, a + 3, u) /\ q.passwd = <<>> /\ Unasked(q)
    BY <1>5 DEF AuthAt
  <2>3. Append(q.uname, b) = name /\ name \in Text
    <3>1. a + 3 \in Nat /\ 0 < a + 3 /\ a + 3 <= u + 1
      BY <2>2
    <3>2. /\ Append(SubSeq(s, a + 3, u), s[u + 1]) = SubSeq(s, a + 3, u + 1)
          /\ Append(SubSeq(s, a + 3, u), s[u + 1]) \in Text
      BY <3>1, BytesJoin
    <3> QED  BY <2>2, <3>2
  <2> HIDE DEF name
  <2>1. r = [q EXCEPT !.uname = name, !.left = q.left - 1,
                      !.at = IF q.left = 1 THEN "PLEN" ELSE "UNAME"]
    BY <1>5, <2>3 DEF AuthFeed
  <2>4. /\ r \in Parsers /\ r.at = (IF q.left = 1 THEN "PLEN" ELSE "UNAME")
        /\ r.left = q.left - 1 /\ r.uname = name
        /\ r.passwd = q.passwd /\ r.addr = q.addr /\ r.port = q.port
    BY ZenonT(30), <1>2, <2>1, <2>2, <2>3 DEF Parsers, Places
  <2> HIDE DEF r
  <2>5. PlenOf(s, a) \in Nat
    BY <2>2, PlenIsNat
  <2>6. AuthAt(s, a, r, u + 1)
    BY SMTT(20), <1>1, <1>2, <2>2, <2>4, <2>5 DEF AuthAt, Unasked, name
  <2> QED  BY <2>4, <2>6 DEF r
<1>6. CASE q.at = "PLEN"
  <2>1. r = [q EXCEPT !.left = b, !.at = IF b = 0 THEN "DONE" ELSE "PASSWD"]
    BY <1>6 DEF AuthFeed
  <2>2. /\ r \in Parsers /\ r.at = (IF b = 0 THEN "DONE" ELSE "PASSWD") /\ r.left = b
        /\ r.uname = q.uname /\ r.passwd = q.passwd /\ r.addr = q.addr /\ r.port = q.port
    BY <1>1, <2>1 DEF Parsers, Places
  <2> HIDE DEF r
  <2>3. /\ u > a + 1 /\ s[a + 1] = 1 /\ u = PlenOf(s, a) - 1
        /\ q.uname = SubSeq(s, a + 3, u) /\ q.passwd = <<>> /\ Unasked(q)
    BY <1>6 DEF AuthAt
  <2>4. PlenOf(s, a) \in Nat
    BY <2>3, PlenIsNat
  <2>5. PlenOf(s, a) = u + 1 /\ AuthEndOf(s, a) = u + 1 + b
    BY <1>1, <2>3, <2>4 DEF AuthEndOf
  <2>6. SubSeq(s, u + 2, u + 1) = <<>>
    BY NoBytes
  <2>7. /\ SubSeq(s, a + 3, PlenOf(s, a) - 1) = r.uname
        /\ SubSeq(s, PlenOf(s, a) + 1, u + 1) = r.passwd
    <3>1. PlenOf(s, a) - 1 = u /\ PlenOf(s, a) + 1 = u + 2
      BY <2>5
    <3> QED  BY <2>2, <2>3, <2>6, <3>1
  <2>8. /\ r.at = "PASSWD" => r.left > 0 /\ u + 1 + r.left = AuthEndOf(s, a)
        /\ r.at = "DONE" => u + 1 = AuthEndOf(s, a)
        /\ r.at \in {"PASSWD", "DONE"} /\ u + 1 > a + 1 /\ s[a + 1] = 1
        /\ u + 1 >= PlenOf(s, a) /\ Unasked(r)
    <3>1. /\ u > a + 1 /\ s[a + 1] = 1 /\ PlenOf(s, a) = u + 1 /\ AuthEndOf(s, a) = u + 1 + b
          /\ Unasked(r)
      BY <2>2, <2>3, <2>5 DEF Unasked
    <3>2. CASE b = 0
      BY <1>1, <2>2, <3>1, <3>2
    <3>3. CASE b # 0
      BY <1>1, <2>2, <3>1, <3>3
    <3> QED  BY <3>2, <3>3
  <2>9. AuthAt(s, a, r, u + 1)
    BY <1>1, <2>7, <2>8 DEF AuthAt
  <2> QED  BY <2>2, <2>9 DEF r
<1>7. CASE q.at = "PASSWD"
  <2>2. /\ u > a + 1 /\ s[a + 1] = 1 /\ q.left > 0 /\ u + q.left = AuthEndOf(s, a)
        /\ q.uname = SubSeq(s, a + 3, PlenOf(s, a) - 1) /\ u >= PlenOf(s, a)
        /\ q.passwd = SubSeq(s, PlenOf(s, a) + 1, u) /\ Unasked(q)
    BY <1>7 DEF AuthAt
  <2>3. PlenOf(s, a) \in Nat /\ PlenOf(s, a) <= u
    <3>1. PlenOf(s, a) \in Nat
      BY <2>2, PlenIsNat
    <3> QED  BY <2>2, <3>1
  <2> DEFINE word == SubSeq(s, PlenOf(s, a) + 1, u + 1)
  <2>4. Append(q.passwd, b) = word /\ word \in Text
    <3>1. PlenOf(s, a) + 1 \in Nat /\ 0 < PlenOf(s, a) + 1 /\ PlenOf(s, a) + 1 <= u + 1
      BY <2>3
    <3> QED  BY ZenonT(30), <2>2, <3>1, BytesJoin
  <2> HIDE DEF word
  <2>1. r = [q EXCEPT !.passwd = word, !.left = q.left - 1,
                      !.at = IF q.left = 1 THEN "DONE" ELSE "PASSWD"]
    BY <1>7, <2>4 DEF AuthFeed
  <2>5. /\ r \in Parsers /\ r.at = (IF q.left = 1 THEN "DONE" ELSE "PASSWD")
        /\ r.left = q.left - 1 /\ r.passwd = word
        /\ r.uname = q.uname /\ r.addr = q.addr /\ r.port = q.port
    BY <1>2, <2>1, <2>2, <2>4 DEF Parsers, Places
  <2> HIDE DEF r
  <2>6. AuthEndOf(s, a) = u + q.left
    BY <2>2
  <2>7. /\ u + 1 >= PlenOf(s, a) /\ u + 1 > a + 1
        /\ r.at = "PASSWD" => r.left > 0 /\ u + 1 + r.left = AuthEndOf(s, a)
        /\ r.at = "DONE" => u + 1 = AuthEndOf(s, a)
        /\ r.at \in {"PASSWD", "DONE"}
    <3>1. q.left > 0 /\ q.left \in Nat /\ PlenOf(s, a) <= u /\ PlenOf(s, a) \in Nat /\ u > a + 1
      BY <1>2, <2>2, <2>3
    <3>2. CASE q.left = 1
      BY <2>5, <2>6, <3>1, <3>2
    <3>3. CASE q.left # 1
      BY <2>5, <2>6, <3>1, <3>3
    <3> QED  BY <3>2, <3>3
  <2>8. AuthAt(s, a, r, u + 1)
    BY <1>1, <2>2, <2>5, <2>7 DEF AuthAt, Unasked, word
  <2> QED  BY <2>5, <2>8 DEF r
<1> QED  BY <1>3, <1>4, <1>5, <1>6, <1>7 DEF AuthAt, Over
(* One byte through request_feed().                                        *)
LEMMA AskStep ==
    ASSUME NEW s \in Text, NEW a \in Nat, NEW u \in Nat, u < Len(s),
           NEW q \in Parsers, AskAt(s, a, q, u), ~Over(q)
    PROVE  /\ RequestFeed(q, s[u + 1]) \in Parsers
           /\ AskAt(s, a, RequestFeed(q, s[u + 1]), u + 1)
<1> DEFINE b == s[u + 1]
           r == RequestFeed(q, b)
<1>1. b \in Byte /\ b \in Nat /\ u + 1 \in Nat /\ u + 1 <= Len(s) /\ Len(s) \in Nat
  BY TextBytes
<1>2. q.left \in Nat /\ (q.left > 0 => q.left - 1 \in Byte) /\ 4 \in Byte /\ 16 \in Byte
  <2>1. q.left \in Byte
    BY DEF Parsers
  <2>2. q.left \in Nat /\ q.left <= 255
    BY <2>1, Bytes
  <2> QED  BY <2>2, Bytes
<1>3. CASE q.at = "VERSION"
  <2>1. r = [q EXCEPT !.at = IF b = 5 THEN "CMD" ELSE "ERROR"]
    BY <1>3 DEF RequestFeed
  <2>2. /\ r \in Parsers /\ r.at = (IF b = 5 THEN "CMD" ELSE "ERROR")
        /\ r.addr = q.addr /\ r.port = q.port
    BY <2>1 DEF Parsers, Places
  <2> HIDE DEF r
  <2>3. AskAt(s, a, r, u + 1)
    BY <1>1, <1>3, <2>2 DEF AskAt, Unasked
  <2> QED  BY <2>2, <2>3 DEF r
<1>4. CASE q.at = "CMD"
  <2>1. r = [q EXCEPT !.cmd = b, !.at = "RSV"]
    BY <1>4 DEF RequestFeed
  <2>2. /\ r \in Parsers /\ r.at = "RSV" /\ r.cmd = b /\ r.addr = q.addr /\ r.port = q.port
    BY <1>1, <2>1 DEF Parsers, Places
  <2> HIDE DEF r
  <2>3. AskAt(s, a, r, u + 1)
    BY <1>1, <1>4, <2>2 DEF AskAt, Unasked
  <2> QED  BY <2>2, <2>3 DEF r
<1>5. CASE q.at = "RSV"
  <2>1. r = [q EXCEPT !.at = IF b = 0 THEN "ATYP" ELSE "ERROR"]
    BY <1>5 DEF RequestFeed
  <2>2. /\ r \in Parsers /\ r.at = (IF b = 0 THEN "ATYP" ELSE "ERROR")
        /\ r.cmd = q.cmd /\ r.addr = q.addr /\ r.port = q.port
    BY <2>1 DEF Parsers, Places
  <2> HIDE DEF r
  <2>3. AskAt(s, a, r, u + 1)
    BY <1>1, <1>5, <2>2 DEF AskAt, Unasked
  <2> QED  BY <2>2, <2>3 DEF r
<1>6. CASE q.at = "ATYP"
  <2> DEFINE n == IF b = IPv4 THEN 4 ELSE IF b = IPv6 THEN 16 ELSE q.left
             next == IF b \in {IPv4, IPv6} THEN "DADDR"
                     ELSE IF b = FQDN THEN "DADDR_LEN" ELSE "ERROR"
  <2>1. r = [q EXCEPT !.atyp = b, !.left = n, !.at = next]
    BY <1>6 DEF RequestFeed
  <2>2. n \in Byte
    BY <1>2 DEF Parsers
  <2>3. /\ r \in Parsers /\ r.at = next /\ r.left = n
        /\ r.cmd = q.cmd /\ r.addr = q.addr /\ r.port = q.port
    BY <1>1, <2>1, <2>2 DEF Parsers, Places
  <2> HIDE DEF r
  <2>4. /\ u = a + 3 /\ Unasked(q) /\ s[a + 1] = 5 /\ q.cmd = s[a + 2] /\ s[a + 3] = 0
        /\ s[a + 4] = b
    BY <1>6 DEF AskAt
  <2>5. SubSeq(s, a + 5, u + 1) = <<>>
    BY <2>4, NoBytes
  <2>6. CASE b = IPv4
    <3>1. AddrFrom(s, a) = a + 5 /\ AddrEndOf(s, a) = a + 8
      BY <2>4, <2>6 DEF AddrFrom, AddrEndOf, IPv4, IPv6, FQDN
    <3>2. /\ r.at = "DADDR" /\ r.left = 4 /\ u + 1 = a + 4 /\ u + 1 > a + 3
          /\ u + 1 >= AddrFrom(s, a) - 1 /\ r.left > 0 /\ u + 1 + r.left = AddrEndOf(s, a)
          /\ s[a + 4] \in {IPv4, IPv6, FQDN} /\ s[a + 4] # FQDN
      BY <2>3, <2>4, <2>6, <3>1 DEF IPv4, IPv6, FQDN
    <3>3. r.addr = SubSeq(s, AddrFrom(s, a), u + 1) /\ r.port = <<>> /\ r.cmd = s[a + 2]
      BY <2>3, <2>4, <2>5, <3>1 DEF Unasked
    <3>4. AskAt(s, a, r, u + 1)
      BY <1>1, <2>4, <3>2, <3>3 DEF AskAt
    <3> QED  BY <2>3, <3>4 DEF r
  <2>7. CASE b = IPv6
    <3>1. AddrFrom(s, a) = a + 5 /\ AddrEndOf(s, a) = a + 20 /\ n = 16
      BY <2>4, <2>7 DEF AddrFrom, AddrEndOf, IPv4, IPv6, FQDN
    <3>2. /\ r.at = "DADDR" /\ r.left = 16 /\ u + 1 = a + 4 /\ u + 1 > a + 3
          /\ u + 1 >= AddrFrom(s, a) - 1 /\ r.left > 0 /\ u + 1 + r.left = AddrEndOf(s, a)
          /\ s[a + 4] \in {IPv4, IPv6, FQDN} /\ s[a + 4] # FQDN
      BY <2>3, <2>4, <2>7, <3>1 DEF IPv4, IPv6, FQDN
    <3>3. r.addr = SubSeq(s, AddrFrom(s, a), u + 1) /\ r.port = <<>> /\ r.cmd = s[a + 2]
      BY <2>3, <2>4, <2>5, <3>1 DEF Unasked
    <3>4. AskAt(s, a, r, u + 1)
      BY <1>1, <2>4, <3>2, <3>3 DEF AskAt
    <3> QED  BY <2>3, <3>4 DEF r
  <2>8. CASE b \notin {IPv4, IPv6}
    <3>1. r.at = (IF b = FQDN THEN "DADDR_LEN" ELSE "ERROR")
      BY <2>3, <2>8
    <3> QED  BY <1>1, <2>3, <2>4, <2>8, <3>1 DEF AskAt, Unasked, r
  <2> QED  BY <2>6, <2>7, <2>8
<1>7. CASE q.at = "DADDR_LEN"
  <2>1. r = [q EXCEPT !.left = b, !.at = IF b = 0 THEN "ERROR" ELSE "DADDR"]
    BY <1>7 DEF RequestFeed
  <2>2. /\ r \in Parsers /\ r.at = (IF b = 0 THEN "ERROR" ELSE "DADDR") /\ r.left = b
        /\ r.cmd = q.cmd /\ r.addr = q.addr /\ r.port = q.port
    BY <1>1, <2>1 DEF Parsers, Places
  <2> HIDE DEF r
  <2>3. /\ u = a + 4 /\ Unasked(q) /\ s[a + 1] = 5 /\ q.cmd = s[a + 2] /\ s[a + 3] = 0
        /\ s[a + 4] = FQDN /\ s[a + 5] = b
    BY <1>7 DEF AskAt
  <2>4. AddrFrom(s, a) = a + 6 /\ AddrEndOf(s, a) = a + (5 + b)
    BY <2>3 DEF AddrFrom, AddrEndOf, IPv4, IPv6, FQDN
  <2>5. SubSeq(s, a + 6, u + 1) = <<>>
    BY <2>3, NoBytes
  <2>6. CASE b = 0
    BY <1>1, <2>2, <2>6 DEF AskAt, r
  <2>7. CASE b # 0
    <3>1. /\ u + 1 >= AddrFrom(s, a) - 1 /\ r.left > 0 /\ u + 1 + r.left = AddrEndOf(s, a)
          /\ r.at = "DADDR" /\ u + 1 > a + 3
      <4>1. r.at = "DADDR" /\ r.left = b /\ u = a + 4
        BY <2>2, <2>3, <2>7
      <4>2. u + 1 >= AddrFrom(s, a) - 1 /\ u + 1 > a + 3
        BY <2>4, <4>1
      <4>3. r.left > 0 /\ u + 1 + r.left = AddrEndOf(s, a)
        BY <1>1, <2>4, <2>7, <4>1
      <4> QED  BY <4>1, <4>2, <4>3
    <3> QED  BY <1>1, <2>2, <2>3, <2>4, <2>5, <3>1 DEF AskAt, Unasked, r
  <2> QED  BY <2>6, <2>7
<1>8. CASE q.at = "DADDR"
  <2>1. /\ u > a + 3 /\ s[a + 1] = 5 /\ q.cmd = s[a + 2] /\ s[a + 3] = 0
        /\ s[a + 4] \in {IPv4, IPv6, FQDN} /\ u >= AddrFrom(s, a) - 1 /\ q.left > 0
        /\ u + q.left = AddrEndOf(s, a)
        /\ q.addr = SubSeq(s, AddrFrom(s, a), u) /\ q.port = <<>>
    BY <1>8 DEF AskAt
  <2>2. AddrFrom(s, a) \in Nat /\ AddrFrom(s, a) > 0
    BY DEF AddrFrom
  <2> DEFINE name == SubSeq(s, AddrFrom(s, a), u + 1)
  <2>3. Append(q.addr, b) = name /\ name \in Text
    <3>1. AddrFrom(s, a) <= u + 1
      BY <2>1, <2>2
    <3>2. /\ Append(SubSeq(s, AddrFrom(s, a), u), s[u + 1]) = SubSeq(s, AddrFrom(s, a), u + 1)
          /\ Append(SubSeq(s, AddrFrom(s, a), u), s[u + 1]) \in Text
      BY <2>2, <3>1, BytesJoin
    <3> QED  BY <2>1, <3>2
  <2> HIDE DEF name
  <2>4. r = [q EXCEPT !.addr = name, !.left = q.left - 1,
                      !.at = IF q.left = 1 THEN "DPORT" ELSE "DADDR"]
    BY <1>8, <2>3 DEF RequestFeed
  <2>5. /\ r \in Parsers /\ r.at = (IF q.left = 1 THEN "DPORT" ELSE "DADDR")
        /\ r.left = q.left - 1 /\ r.addr = name /\ r.cmd = q.cmd /\ r.port = q.port
    BY <1>2, <2>1, <2>3, <2>4 DEF Parsers, Places
  <2> HIDE DEF r
  <2>6. CASE q.left = 1
    <3>1. AddrEndOf(s, a) = u + 1 /\ r.at = "DPORT" /\ u + 1 > a + 3
      BY <2>1, <2>5, <2>6
    <3>2. SubSeq(s, AddrEndOf(s, a) + 1, u + 1) = <<>>
      BY <1>1, <3>1, NoBytes
    <3>3. r.addr = SubSeq(s, AddrFrom(s, a), AddrEndOf(s, a))
      BY <2>5, <3>1 DEF name
    <3>4. r.port = SubSeq(s, AddrEndOf(s, a) + 1, u + 1)
      BY <2>1, <2>5, <3>2
    <3>5. AskAt(s, a, r, u + 1)
      BY <1>1, <2>1, <2>5, <3>1, <3>3, <3>4 DEF AskAt
    <3> QED  BY <2>5, <3>5 DEF r
  <2>7. CASE q.left # 1
    <3>1. /\ r.left > 0 /\ u + 1 + r.left = AddrEndOf(s, a) /\ r.at = "DADDR"
          /\ u + 1 >= AddrFrom(s, a) - 1 /\ u + 1 > a + 3
      <4>1. q.left \in Nat /\ q.left > 0 /\ q.left # 1 /\ u + q.left = AddrEndOf(s, a)
            /\ r.left = q.left - 1
        BY <1>2, <2>1, <2>5, <2>7
      <4>2. r.left > 0 /\ u + 1 + r.left = AddrEndOf(s, a)
        BY <4>1
      <4>3. r.at = "DADDR" /\ u + 1 >= AddrFrom(s, a) - 1 /\ u + 1 > a + 3
        BY <2>1, <2>2, <2>5, <2>7
      <4> QED  BY <4>2, <4>3
    <3> QED  BY <1>1, <2>1, <2>5, <3>1 DEF AskAt, r, name
  <2> QED  BY <2>6, <2>7
<1>9. CASE q.at = "DPORT"
  <2> DEFINE e == AddrEndOf(s, a)
             two == SubSeq(s, e + 1, u + 1)
  <2>1. /\ u > a + 3 /\ s[a + 1] = 5 /\ q.cmd = s[a + 2] /\ s[a + 3] = 0
        /\ s[a + 4] \in {IPv4, IPv6, FQDN} /\ u \in {e, e + 1}
        /\ q.addr = SubSeq(s, AddrFrom(s, a), e) /\ q.port = SubSeq(s, e + 1, u)
    BY <1>9 DEF AskAt
  <2>2. e \in Nat
    <3>1. s[a + 5] \in Nat
      <4>1. a + 5 \in Nat /\ 1 <= a + 5 /\ a + 5 <= Len(s)
        BY <1>1, <2>1
      <4> QED  BY <4>1, TextBytes
    <3>2. \/ AddrEndOf(s, a) = a + 8 \/ AddrEndOf(s, a) = a + 20
          \/ AddrEndOf(s, a) = a + (5 + s[a + 5])
      BY SMTT(20), <2>1 DEF AddrEndOf, IPv4, IPv6, FQDN
    <3> QED  BY <3>1, <3>2
  <2> HIDE DEF e
  <2>3. /\ Append(q.port, b) = two /\ two \in Text /\ Len(q.port) = u - e
    <3>1. e + 1 \in Nat /\ 0 < e + 1 /\ e + 1 <= u + 1 /\ u + 1 - (e + 1) = u - e
      BY <2>1, <2>2
    <3>2. /\ Append(SubSeq(s, e + 1, u), s[u + 1]) = SubSeq(s, e + 1, u + 1)
          /\ Append(SubSeq(s, e + 1, u), s[u + 1]) \in Text
          /\ Len(SubSeq(s, e + 1, u)) = u + 1 - (e + 1)
      BY <3>1, BytesJoin
    <3> QED  BY <2>1, <3>1, <3>2
  <2> HIDE DEF two
  <2>4. r = [q EXCEPT !.port = two, !.at = IF Len(q.port) = 1 THEN "DONE" ELSE "DPORT"]
    BY <1>9, <2>3 DEF RequestFeed
  <2>5. /\ r \in Parsers /\ r.at = (IF Len(q.port) = 1 THEN "DONE" ELSE "DPORT")
        /\ r.port = two /\ r.addr = q.addr /\ r.cmd = q.cmd
    BY <2>3, <2>4 DEF Parsers, Places
  <2> HIDE DEF r
  <2>6. CASE u = e
    <3>1. r.at = "DPORT" /\ u + 1 = e + 1 /\ u + 1 > a + 3
      BY <2>1, <2>2, <2>3, <2>5, <2>6
    <3> QED  BY <1>1, <2>1, <2>5, <3>1 DEF AskAt, r, two, e
  <2>7. CASE u = e + 1
    <3>1. r.at = "DONE" /\ u + 1 = e + 2 /\ u + 1 > a + 3
      BY <2>1, <2>2, <2>3, <2>5, <2>7
    <3> QED  BY <1>1, <2>1, <2>5, <3>1 DEF AskAt, r, two, e
  <2> QED  BY <2>1, <2>6, <2>7
<1> QED  BY <1>3, <1>4, <1>5, <1>6, <1>7, <1>8, <1>9 DEF AskAt, Over
-----------------------------------------------------------------------------
(* The loop of a read handler *)

(* One byte through the parser of any state.                               *)
LEMMA OneByte ==
    ASSUME NEW state \in ReadStates, NEW s \in Text, NEW a \in Nat, NEW u \in Nat, u < Len(s),
           NEW q \in Parsers, At(state, s, a, q, u), ~Over(q)
    PROVE  /\ Feed(state, q, s[u + 1]) \in Parsers
           /\ At(state, s, a, Feed(state, q, s[u + 1]), u + 1)
<1>1. CASE state = "HELLO_READ"
  BY <1>1, HelloStep DEF At, Feed, Hellos, Auths, Asks
<1>2. CASE state = "AUTH_READ"
  BY <1>2, AuthStep DEF At, Feed, Hellos, Auths, Asks
<1>3. CASE state = "REQUEST_READ"
  BY <1>3, AskStep DEF At, Feed, Hellos, Auths, Asks
<1> QED  BY <1>1, <1>2, <1>3 DEF ReadStates

(* The loop of a read handler, over whatever recv() returned: the parser   *)
(* stops at a byte it used, and it stops early only at its end.            *)
LEMMA Parsed ==
    ASSUME NEW state \in ReadStates, NEW s \in Text, NEW a \in Nat, NEW u \in Nat,
           NEW q \in Parsers, At(state, s, a, q, u),
           NEW c \in Text, u + Len(c) <= Len(s), \A i \in 1 .. Len(c) : c[i] = s[u + i]
    PROVE  /\ Parse(state, q, c).q \in Parsers
           /\ Parse(state, q, c).used \in 0 .. Len(c)
           /\ At(state, s, a, Parse(state, q, c).q, u + Parse(state, q, c).used)
           /\ ~Over(Parse(state, q, c).q) => Parse(state, q, c).used = Len(c)
<1>1. Len(c) \in Nat /\ DOMAIN c = 1 .. Len(c) /\ Len(s) \in Nat
  BY TextBytes
<1>2. PICK run : IsRun(run, state, q, c, Len(c))
  BY <1>1, ParseRuns
<1> DEFINE Good(k) == /\ run[k].q \in Parsers /\ run[k].used \in 0 .. k
                      /\ At(state, s, a, run[k].q, u + run[k].used)
                      /\ ~Over(run[k].q) => run[k].used = k
           S == {k \in Nat : k <= Len(c) => Good(k)}
<1>3. 0 \in S
  <2>1. run[0].q = q /\ run[0].used = 0 /\ u + 0 = u
    BY <1>2 DEF IsRun
  <2> QED  BY <2>1
<1>4. ASSUME NEW k \in S PROVE k + 1 \in S
  <2>1. k \in Nat /\ k + 1 \in Nat
    OBVIOUS
  <2>2. SUFFICES ASSUME k + 1 <= Len(c) PROVE Good(k + 1)
    BY <2>1
  <2>3. k <= Len(c)
    BY <1>1, <2>1, <2>2
  <2>4. Good(k)
    BY <2>1, <2>3
  <2>5. run[k + 1] = Step(state, run[k], c[k + 1])
    <3>1. k + 1 \in 1 .. Len(c) /\ k + 1 - 1 = k
      BY <1>1, <2>1, <2>2
    <3> QED  BY <1>2, <3>1 DEF IsRun
  <2>6. CASE Over(run[k].q)
    <3>1. run[k + 1] = run[k]
      BY <2>5, <2>6 DEF Step
    <3>2. run[k].used \in 0 .. k + 1
      BY <2>1, <2>4
    <3> QED  BY <2>4, <2>6, <3>1, <3>2
  <2>7. CASE ~Over(run[k].q)
    <3>1. run[k + 1].q = Feed(state, run[k].q, c[k + 1]) /\ run[k + 1].used = run[k].used + 1
      BY <2>5, <2>7 DEF Step
    <3>2. run[k].used = k
      BY <2>4, <2>7
    <3>3. u + k \in Nat /\ u + k < Len(s) /\ c[k + 1] = s[u + k + 1]
      <4>1. k + 1 \in 1 .. Len(c) /\ u + (k + 1) = u + k + 1
        BY <1>1, <2>1, <2>2
      <4>2. c[k + 1] = s[u + (k + 1)]
        BY <4>1
      <4> QED  BY <1>1, <2>1, <2>2, <4>1, <4>2
    <3>4. /\ Feed(state, run[k].q, s[u + k + 1]) \in Parsers
          /\ At(state, s, a, Feed(state, run[k].q, s[u + k + 1]), u + k + 1)
      BY <2>4, <2>7, <3>2, <3>3, OneByte
    <3>5. run[k + 1].used = k + 1 /\ k + 1 \in 0 .. k + 1 /\ u + (k + 1) = u + k + 1
      BY SMTT(20), <2>1, <3>1, <3>2
    <3> QED  BY <3>1, <3>3, <3>4, <3>5
  <2> QED  BY <2>6, <2>7
<1> HIDE DEF Good
<1>5. S = Nat
  <2>1. S \in SUBSET Nat
    OBVIOUS
  <2> HIDE DEF S
  <2> QED  BY <1>3, <1>4, <2>1, CountingUp
<1>6. Good(Len(c))
  BY <1>1, <1>5
<1> QED  BY <1>2, <1>6 DEF Good, IsRun

-----------------------------------------------------------------------------
(* The client says more *)

(* t is s with more said.                                                  *)
Grown(s, t) ==
    /\ s \in Text /\ t \in Text /\ Len(s) <= Len(t)
    /\ \A i \in Nat : 1 <= i /\ i <= Len(s) => t[i] = s[i]
    /\ \A a, b \in Int : 0 < a /\ b <= Len(s) => SubSeq(t, a, b) = SubSeq(s, a, b)

(* What was said stays where it is.                                        *)
LEMMA PartGrows ==
    ASSUME NEW s, NEW t, Grown(s, t), NEW a \in Int, NEW b \in Int, 0 < a, b <= Len(s)
    PROVE  SubSeq(t, a, b) = SubSeq(s, a, b)
BY DEF Grown

(* A message more is a text that has grown.                                *)
LEMMA JoinGrows ==
    ASSUME NEW s \in Text, NEW m \in Text
    PROVE  Grown(s, s \o m) /\ Len(s \o m) = Len(s) + Len(m)
           /\ \A i \in 1 .. Len(m) : (s \o m)[Len(s) + i] = m[i]
<1>1. s \o m \in Text /\ Len(s) <= Len(s \o m) /\ Len(s \o m) = Len(s) + Len(m)
  BY DEF Text
<1>2. \A i \in Nat : 1 <= i /\ i <= Len(s) => (s \o m)[i] = s[i]
  BY DEF Text
<1>3. ASSUME NEW a \in Int, NEW b \in Int, 0 < a, b <= Len(s)
      PROVE  SubSeq(s \o m, a, b) = SubSeq(s, a, b)
  BY <1>3 DEF Text
<1>4. \A i \in 1 .. Len(m) : (s \o m)[Len(s) + i] = m[i]
  BY DEF Text
<1> QED  BY <1>1, <1>2, <1>3, <1>4 DEF Grown

(* A hello that was said stays a hello, with the same methods.             *)
LEMMA HelloGrows ==
    ASSUME NEW s, NEW t, Grown(s, t), HelloSaid(s)
    PROVE  /\ HelloSaid(t) /\ HelloEndOf(t) = HelloEndOf(s)
           /\ HelloEndOf(s) \in Nat /\ HelloEndOf(s) <= Len(s) /\ HelloEndOf(s) >= 2
           /\ OfferedOf(t) = OfferedOf(s)
<1>1. s \in Text /\ t \in Text /\ Len(s) \in Nat /\ Len(t) \in Nat /\ Len(s) <= Len(t)
      /\ s[1] = 5 /\ Len(s) >= 2
  BY TextBytes DEF Grown, HelloSaid
<1>2. t[1] = s[1] /\ t[2] = s[2]
  BY <1>1 DEF Grown
<1>3. s[2] \in Nat
  BY <1>1, TextBytes
<1>4. HelloEndOf(t) = HelloEndOf(s) /\ HelloEndOf(s) \in Nat /\ HelloEndOf(s) >= 2
      /\ HelloEndOf(s) <= Len(s)
  BY <1>2, <1>3 DEF HelloEndOf, HelloSaid
<1>5. \A i \in 3 .. HelloEndOf(s) : t[i] = s[i]
  BY <1>1, <1>4 DEF Grown
<1>6. OfferedOf(t) = OfferedOf(s)
  BY <1>4, <1>5 DEF OfferedOf
<1>7. HelloSaid(t)
  BY <1>1, <1>2, <1>4 DEF HelloSaid
<1> QED  BY <1>4, <1>6, <1>7

(* The places of a username/password message stay where they are.          *)
LEMMA PlenGrows ==
    ASSUME NEW s, NEW t, Grown(s, t), NEW a \in Nat, NEW u \in Nat, u > a + 1, u <= Len(s)
    PROVE  /\ t[a + 1] = s[a + 1] /\ PlenOf(t, a) = PlenOf(s, a)
           /\ PlenOf(s, a) \in Nat /\ PlenOf(s, a) > a + 2
           /\ PlenOf(s, a) <= u => AuthEndOf(t, a) = AuthEndOf(s, a) /\ AuthEndOf(s, a) \in Nat
                                   /\ AuthEndOf(s, a) >= PlenOf(s, a)
<1>1. s \in Text /\ t \in Text /\ Len(s) \in Nat
  BY TextBytes DEF Grown
<1>2. t[a + 1] = s[a + 1] /\ t[a + 2] = s[a + 2]
  BY <1>1 DEF Grown
<1>3. PlenOf(t, a) = PlenOf(s, a)
  BY <1>2 DEF PlenOf
<1>4. PlenOf(s, a) \in Nat /\ PlenOf(s, a) > a + 2
  BY <1>1, PlenIsNat
<1>5. ASSUME PlenOf(s, a) <= u
      PROVE  AuthEndOf(t, a) = AuthEndOf(s, a) /\ AuthEndOf(s, a) \in Nat
             /\ AuthEndOf(s, a) >= PlenOf(s, a)
  <2>1. PlenOf(s, a) >= 1 /\ PlenOf(s, a) <= Len(s)
    BY <1>1, <1>4, <1>5
  <2>2. t[PlenOf(s, a)] = s[PlenOf(s, a)]
    BY <1>4, <2>1 DEF Grown
  <2>3. s[PlenOf(s, a)] \in Nat
    BY <1>1, <1>4, <2>1, TextBytes
  <2> QED  BY <1>3, <1>4, <2>2, <2>3 DEF AuthEndOf
<1> QED  BY <1>2, <1>3, <1>4, <1>5

(* A name and a password that were said stay the same.                     *)
LEMMA AuthGrows ==
    ASSUME NEW s, NEW t, Grown(s, t), AuthSaid(s)
    PROVE  /\ AuthSaid(t) /\ AuthEndOf(s, HelloEndOf(s)) \in Nat
           /\ AuthEndOf(t, HelloEndOf(t)) = AuthEndOf(s, HelloEndOf(s))
           /\ UsernameOf(t) = UsernameOf(s) /\ PasswordOf(t) = PasswordOf(s)
<1> DEFINE a == HelloEndOf(s)
<1>1. /\ HelloSaid(s) /\ a + 1 < Len(s) /\ s[a + 1] = 1
      /\ PlenOf(s, a) <= Len(s) /\ AuthEndOf(s, a) <= Len(s)
  BY DEF AuthSaid
<1>2. HelloSaid(t) /\ HelloEndOf(t) = a /\ a \in Nat
  BY <1>1, HelloGrows
<1> HIDE DEF a
<1>3. s \in Text /\ t \in Text /\ Len(s) \in Nat /\ Len(t) \in Nat /\ Len(s) <= Len(t)
  BY TextBytes DEF Grown
<1>4. /\ t[a + 1] = s[a + 1] /\ PlenOf(t, a) = PlenOf(s, a)
      /\ PlenOf(s, a) \in Nat /\ PlenOf(s, a) > a + 2
      /\ AuthEndOf(t, a) = AuthEndOf(s, a) /\ AuthEndOf(s, a) \in Nat
      /\ AuthEndOf(s, a) >= PlenOf(s, a)
  BY <1>1, <1>2, <1>3, PlenGrows
<1>5. AuthSaid(t)
  BY <1>1, <1>2, <1>3, <1>4 DEF AuthSaid
<1>6. SubSeq(t, a + 3, PlenOf(s, a) - 1) = SubSeq(s, a + 3, PlenOf(s, a) - 1)
  <2>1. a + 3 \in Int /\ 0 < a + 3 /\ PlenOf(s, a) - 1 \in Int /\ PlenOf(s, a) - 1 <= Len(s)
    BY <1>1, <1>2, <1>3, <1>4
  <2> QED  BY <2>1 DEF Grown
<1>7. SubSeq(t, PlenOf(s, a) + 1, AuthEndOf(s, a)) = SubSeq(s, PlenOf(s, a) + 1, AuthEndOf(s, a))
  <2>1. PlenOf(s, a) + 1 \in Int /\ 0 < PlenOf(s, a) + 1 /\ AuthEndOf(s, a) \in Int
        /\ AuthEndOf(s, a) <= Len(s)
    BY <1>1, <1>4
  <2> QED  BY ZenonT(30), <2>1, PartGrows
<1>8. UsernameOf(t) = UsernameOf(s) /\ PasswordOf(t) = PasswordOf(s)
  BY <1>2, <1>4, <1>6, <1>7 DEF UsernameOf, PasswordOf, a
<1> QED  BY <1>2, <1>4, <1>5, <1>8 DEF a

(* What hello_feed() knows stays true when the client says more.           *)
LEMMA HelloAtGrows ==
    ASSUME NEW s, NEW t, Grown(s, t), NEW q \in Parsers, NEW u \in Nat, HelloAt(s, q, u)
    PROVE  HelloAt(t, q, u)
<1>1. s \in Text /\ t \in Text /\ Len(s) \in Nat /\ Len(t) \in Nat /\ Len(s) <= Len(t) /\ u <= Len(s)
  BY TextBytes DEF Grown, HelloAt
<1>2. u >= 1 => t[1] = s[1]
  BY <1>1 DEF Grown
<1>3. u >= 2 => HelloEndOf(t) = HelloEndOf(s)
  BY <1>1 DEF Grown, HelloEndOf
<1>4. MethodsIn(t, u) = MethodsIn(s, u)
  <2>1. \A i \in 3 .. u : t[i] = s[i]
    BY <1>1 DEF Grown
  <2> QED  BY <2>1 DEF MethodsIn
<1> QED  BY <1>1, <1>2, <1>3, <1>4 DEF HelloAt

(* What auth_feed() knows stays true when the client says more.            *)
LEMMA AuthAtGrows ==
    ASSUME NEW s, NEW t, Grown(s, t), NEW a \in Nat, NEW q \in Parsers, NEW u \in Nat,
           AuthAt(s, a, q, u)
    PROVE  AuthAt(t, a, q, u)
<1>1. s \in Text /\ t \in Text /\ Len(s) \in Nat /\ Len(t) \in Nat /\ Len(s) <= Len(t) /\ u <= Len(s)
  BY TextBytes DEF Grown, AuthAt
<1>2. u > a => t[a + 1] = s[a + 1]
  BY <1>1 DEF Grown
<1>3. CASE u > a + 1
  <2>1. /\ PlenOf(t, a) = PlenOf(s, a) /\ PlenOf(s, a) \in Nat /\ PlenOf(s, a) > a + 2
        /\ PlenOf(s, a) <= u => AuthEndOf(t, a) = AuthEndOf(s, a)
    BY <1>1, <1>3, PlenGrows
  <2>2. SubSeq(t, a + 3, u) = SubSeq(s, a + 3, u)
    BY <1>1 DEF Grown
  <2>3. PlenOf(s, a) <= u =>
          /\ SubSeq(t, a + 3, PlenOf(s, a) - 1) = SubSeq(s, a + 3, PlenOf(s, a) - 1)
          /\ SubSeq(t, PlenOf(s, a) + 1, u) = SubSeq(s, PlenOf(s, a) + 1, u)
    <3>1. SUFFICES ASSUME PlenOf(s, a) <= u
                   PROVE  /\ SubSeq(t, a + 3, PlenOf(s, a) - 1) = SubSeq(s, a + 3, PlenOf(s, a) - 1)
                          /\ SubSeq(t, PlenOf(s, a) + 1, u) = SubSeq(s, PlenOf(s, a) + 1, u)
      OBVIOUS
    <3>2. a + 3 \in Int /\ 0 < a + 3 /\ PlenOf(s, a) - 1 \in Int /\ PlenOf(s, a) - 1 <= Len(s)
      BY <1>1, <2>1, <3>1
    <3>3. SubSeq(t, a + 3, PlenOf(s, a) - 1) = SubSeq(s, a + 3, PlenOf(s, a) - 1)
      BY ZenonT(30), <3>2, PartGrows
    <3>4. PlenOf(s, a) + 1 \in Int /\ 0 < PlenOf(s, a) + 1 /\ u \in Int /\ u <= Len(s)
      BY <1>1, <2>1
    <3>5. SubSeq(t, PlenOf(s, a) + 1, u) = SubSeq(s, PlenOf(s, a) + 1, u)
      BY ZenonT(30), <3>4, PartGrows
    <3> QED  BY <3>3, <3>5
  <2>4. u > a /\ (q.at \in {"PASSWD", "DONE"} => PlenOf(s, a) <= u)
    BY <1>3, <2>1 DEF AuthAt
  <2>5. u <= Len(t) /\ t[a + 1] = s[a + 1] /\ q.at \notin {"VERSION", "ULEN"}
    BY <1>1, <1>2, <1>3 DEF AuthAt
  <2>6. CASE q.at \in {"UNAME", "PLEN", "ERROR"}
    BY <2>1, <2>2, <2>5, <2>6 DEF AuthAt
  <2>7. CASE q.at \in {"PASSWD", "DONE"}
    BY <2>1, <2>3, <2>4, <2>5, <2>7 DEF AuthAt
  <2> QED  BY <2>5, <2>6, <2>7 DEF AuthAt
<1>4. CASE ~(u > a + 1)
  BY <1>1, <1>2, <1>4 DEF AuthAt
<1> QED  BY <1>3, <1>4

(* What request_feed() knows stays true when the client says more.         *)
LEMMA AskAtGrows ==
    ASSUME NEW s, NEW t, Grown(s, t), NEW a \in Nat, NEW q \in Parsers, NEW u \in Nat,
           AskAt(s, a, q, u)
    PROVE  AskAt(t, a, q, u)
<1>1. s \in Text /\ t \in Text /\ Len(s) \in Nat /\ Len(t) \in Nat /\ Len(s) <= Len(t) /\ u <= Len(s)
  BY TextBytes DEF Grown, AskAt
<1>2. /\ u > a => t[a + 1] = s[a + 1]
      /\ u > a + 1 => t[a + 2] = s[a + 2]
      /\ u > a + 2 => t[a + 3] = s[a + 3]
      /\ u > a + 3 => t[a + 4] = s[a + 4]
      /\ u > a + 4 => t[a + 5] = s[a + 5]
  BY <1>1 DEF Grown
<1>3. CASE q.at \in {"DADDR", "DPORT", "DONE"}
  <2>1. u > a + 3 /\ s[a + 4] \in {IPv4, IPv6, FQDN} /\ (s[a + 4] = FQDN => u > a + 4)
    BY <1>3 DEF AskAt
  <2>2. AddrFrom(t, a) = AddrFrom(s, a) /\ AddrFrom(s, a) \in Nat /\ AddrFrom(s, a) > 0
    BY <1>2, <2>1 DEF AddrFrom
  <2>3. AddrEndOf(t, a) = AddrEndOf(s, a) /\ AddrEndOf(s, a) \in Nat
    <3>1. CASE s[a + 4] = FQDN
      <4>1. s[a + 5] \in Nat /\ t[a + 5] = s[a + 5] /\ t[a + 4] = FQDN
        BY <1>1, <1>2, <2>1, <3>1, TextBytes
      <4> QED  BY <3>1, <4>1 DEF AddrEndOf, IPv4, IPv6, FQDN
    <3>2. CASE s[a + 4] # FQDN
      BY <1>2, <2>1, <3>2 DEF AddrEndOf, IPv4, IPv6, FQDN
    <3> QED  BY <3>1, <3>2
  <2>4. SubSeq(t, AddrFrom(s, a), u) = SubSeq(s, AddrFrom(s, a), u)
    <3>1. AddrFrom(s, a) \in Int /\ 0 < AddrFrom(s, a) /\ u \in Int /\ u <= Len(s)
      BY <1>1, <2>2
    <3> QED  BY ZenonT(30), <3>1, PartGrows
  <2>5. AddrEndOf(s, a) <= u =>
          /\ SubSeq(t, AddrFrom(s, a), AddrEndOf(s, a)) = SubSeq(s, AddrFrom(s, a), AddrEndOf(s, a))
          /\ SubSeq(t, AddrEndOf(s, a) + 1, u) = SubSeq(s, AddrEndOf(s, a) + 1, u)
    <3>1. SUFFICES ASSUME AddrEndOf(s, a) <= u
                   PROVE  /\ SubSeq(t, AddrFrom(s, a), AddrEndOf(s, a))
                                = SubSeq(s, AddrFrom(s, a), AddrEndOf(s, a))
                          /\ SubSeq(t, AddrEndOf(s, a) + 1, u) = SubSeq(s, AddrEndOf(s, a) + 1, u)
      OBVIOUS
    <3>2. /\ AddrFrom(s, a) \in Int /\ 0 < AddrFrom(s, a)
          /\ AddrEndOf(s, a) \in Int /\ AddrEndOf(s, a) <= Len(s)
      BY <1>1, <2>2, <2>3, <3>1
    <3>3. SubSeq(t, AddrFrom(s, a), AddrEndOf(s, a)) = SubSeq(s, AddrFrom(s, a), AddrEndOf(s, a))
      BY ZenonT(30), <3>2, PartGrows
    <3>4. AddrEndOf(s, a) + 1 \in Int /\ 0 < AddrEndOf(s, a) + 1 /\ u \in Int /\ u <= Len(s)
      BY <1>1, <2>3
    <3>5. SubSeq(t, AddrEndOf(s, a) + 1, u) = SubSeq(s, AddrEndOf(s, a) + 1, u)
      BY ZenonT(30), <3>4, PartGrows
    <3> QED  BY <3>3, <3>5
  <2>6. q.at \in {"DPORT", "DONE"} => AddrEndOf(s, a) <= u
    BY <2>3 DEF AskAt
  <2>7. /\ u <= Len(t) /\ t[a + 1] = s[a + 1] /\ t[a + 2] = s[a + 2]
        /\ t[a + 3] = s[a + 3] /\ t[a + 4] = s[a + 4]
    BY <1>1, <1>2, <2>1
  <2>8. CASE q.at = "DADDR"
    BY <2>2, <2>3, <2>4, <2>7, <2>8 DEF AskAt
  <2>9. CASE q.at = "DPORT"
    BY <2>2, <2>3, <2>5, <2>6, <2>7, <2>9 DEF AskAt
  <2>10. CASE q.at = "DONE"
    BY <2>2, <2>3, <2>5, <2>6, <2>7, <2>10 DEF AskAt
  <2> QED  BY <1>3, <2>8, <2>9, <2>10
<1>4. CASE q.at \notin {"DADDR", "DPORT", "DONE"}
  BY <1>1, <1>2, <1>4 DEF AskAt
<1> QED  BY <1>3, <1>4

-----------------------------------------------------------------------------
(* The buffer *)

(* recv() may take n bytes: there is space, and they were said.            *)
Receivable(b, s, u, n) == n \in 1 .. Space(b) /\ u + Count(b) + n <= Len(s)

(* What recv() stores, behind what waits, is what was said next.           *)
LEMMA StoredWaits ==
    ASSUME NEW b, NEW s \in Text, NEW u \in Nat, NEW n \in Nat,
           Waiting(b, s, u), Receivable(b, s, u, n)
    PROVE  /\ Waiting(Stored(b, n, SubSeq(s, u + Count(b) + 1, u + Count(b) + n)), s, u)
           /\ Count(Stored(b, n, SubSeq(s, u + Count(b) + 1, u + Count(b) + n))) = Count(b) + n
<1> DEFINE m == u + Count(b)
           x == SubSeq(s, m + 1, m + n)
           c == Stored(b, n, x)
<1>0. Size \in Nat /\ Len(s) \in Nat
  BY BufferAssumption, TextBytes
<1>a. /\ b.read \in Nat /\ b.write \in Nat /\ b.read <= b.write /\ n \in Nat
      /\ b.write + n <= Size /\ Size \in Nat
  BY <1>0 DEF Waiting, Receivable, Buffers, Count, Space
<1>1. /\ b \in Buffers /\ b.read \in Nat /\ b.write \in Nat /\ b.read <= b.write /\ b.write <= Size
      /\ u \in Nat /\ Count(b) = b.write - b.read /\ Count(b) \in Nat /\ m \in Nat
      /\ n \in Nat /\ n >= 1 /\ b.write + n <= Size /\ m + n <= Len(s)
      /\ b.data \in [Cells -> Nat]
  BY SMTT(20), <1>0 DEF Waiting, Receivable, Buffers, Count, Space
<1>2. \A i \in b.read .. b.write - 1 : b.data[i] = s[u + 1 + (i - b.read)]
  BY DEF Waiting
<1> HIDE DEF m
<1>3. \A i \in 1 .. n : x[i] = s[m + i] /\ x[i] \in Nat
  <2>1. ASSUME NEW i \in 1 .. n PROVE x[i] = s[m + i]
    <3>1. i \in 1 .. (m + n) - (m + 1) + 1
      BY <1>1
    <3>2. x[i] = s[(m + 1) + i - 1]
      BY <1>1, <3>1 DEF Text
    <3> QED  BY <1>1, <3>2
  <2>2. ASSUME NEW i \in 1 .. n PROVE s[m + i] \in Nat
    <3>1. m + i \in 1 .. Len(s)
      <4>1. m \in Nat /\ m + n <= Len(s) /\ n \in Nat /\ Len(s) \in Nat
        BY <1>0, <1>1
      <4> QED  BY <4>1
    <3> QED  BY <3>1, TextBytes
  <2> QED  BY <2>1, <2>2
<1> HIDE DEF x
<1>4. /\ c.read = b.read /\ c.write = b.write + n
      /\ \A i \in Cells : c.data[i] = IF i \in b.write .. b.write + n - 1
                                      THEN x[i - b.write + 1] ELSE b.data[i]
  BY DEF Stored
<1>5. ASSUME NEW i \in b.write .. b.write + n - 1
      PROVE  /\ i \in Cells /\ i - b.write + 1 \in 1 .. n
             /\ x[i - b.write + 1] = s[u + 1 + (i - b.read)]
             /\ x[i - b.write + 1] \in Nat
  <2> DEFINE j == i - b.write + 1
  <2>1. j \in 1 .. n /\ i \in Nat /\ i < Size /\ i >= 0
    BY <1>a
  <2>2. x[j] = s[m + j] /\ x[j] \in Nat
    BY <1>3, <2>1
  <2>3. m + j = u + 1 + (i - b.read)
    <3>1. m = u + (b.write - b.read)
      BY DEF m, Count
    <3>2. b.read \in Nat /\ b.write \in Nat /\ i \in Nat
      BY <1>a, <2>1
    <3>3. u + (b.write - b.read) + (i - b.write + 1) = u + 1 + (i - b.read)
      BY <3>2
    <3> QED  BY <3>1, <3>3
  <2>4. i \in Cells
    BY <1>a, <2>1 DEF Cells
  <2> HIDE DEF j
  <2>5. x[j] = s[u + 1 + (i - b.read)]
    BY <2>2, <2>3
  <2> QED  BY <2>1, <2>2, <2>4, <2>5 DEF j
<1>6. c \in Buffers
  <2>1. b.data \in [Cells -> Nat]
    BY <1>1
  <2>2. c.data \in [Cells -> Nat]
    BY <1>5, <2>1 DEF Stored
  <2>3. c.read \in 0 .. Size /\ c.write \in 0 .. Size
    BY <1>a, <1>4
  <2> QED  BY <2>2, <2>3 DEF Stored, Buffers
<1> HIDE DEF c
<1>7. ASSUME NEW i \in c.read .. c.write - 1
      PROVE  c.data[i] = s[u + 1 + (i - c.read)]
  <2>1. CASE i \in b.write .. b.write + n - 1
    BY <1>1, <1>4, <1>5, <2>1
  <2>2. CASE i \in b.read .. b.write - 1
    <3>1. i \in Cells /\ i \notin b.write .. b.write + n - 1
      BY <1>a, <2>2 DEF Cells
    <3> QED  BY <1>2, <1>4, <2>2, <3>1
  <2> QED  BY <1>1, <1>4, <2>1, <2>2
<1>8. c.read <= c.write /\ c.read # c.write /\ Count(c) = Count(b) + n
  BY <1>1, <1>4 DEF Count
<1>9. u + Count(c) <= Len(s)
  BY <1>0, <1>1, <1>8 DEF m
<1>10. Waiting(c, s, u)
  BY <1>1, <1>6, <1>7, <1>8, <1>9 DEF Waiting
<1> QED  BY <1>8, <1>10 DEF c, x, m

(* What a handler reads from the buffer is what was said from u on.        *)
LEMMA ContentsWait ==
    ASSUME NEW c, NEW s \in Text, NEW u \in Nat, Waiting(c, s, u)
    PROVE  /\ Contents(c) \in Text /\ Len(Contents(c)) = Count(c)
           /\ u \in Nat /\ u + Len(Contents(c)) <= Len(s) /\ Count(c) \in Nat
           /\ \A i \in 1 .. Len(Contents(c)) : Contents(c)[i] = s[u + i]
<1>1. /\ Count(c) \in Nat /\ u \in Nat /\ u + Count(c) <= Len(s) /\ Len(s) \in Nat
      /\ c.read \in Nat /\ c.write \in Nat /\ c.read <= c.write /\ Count(c) = c.write - c.read
      /\ \A i \in c.read .. c.write - 1 : c.data[i] = s[u + 1 + (i - c.read)]
  <2>1. Size \in Nat /\ Len(s) \in Nat
    BY BufferAssumption, TextBytes
  <2> QED  BY <2>1 DEF Waiting, Buffers, Count
<1>2. \A i \in 1 .. Count(c) : s[u + i] \in Byte
  <2>1. \A i \in 1 .. Count(c) : u + i \in 1 .. Len(s)
    BY <1>1
  <2> QED  BY <2>1, TextBytes
<1>3. ASSUME NEW i \in 1 .. Count(c) PROVE c.data[c.read + i - 1] = s[u + i]
  <2> DEFINE j == c.read + i - 1
  <2>1. j \in c.read .. c.write - 1 /\ u + 1 + (j - c.read) = u + i
    BY SMTT(20), <1>1
  <2> HIDE DEF j
  <2>2. c.data[j] = s[u + 1 + (j - c.read)]
    BY <1>1, <2>1
  <2> QED  BY <2>1, <2>2 DEF j
<1>4. Contents(c) = [i \in 1 .. Count(c) |-> s[u + i]]
  BY <1>3 DEF Contents
<1>5. Contents(c) \in Text /\ Len(Contents(c)) = Count(c)
  <2>1. Count(c) \in Nat
    BY <1>1
  <2> HIDE DEF Contents
  <2> DEFINE k == Count(c)
  <2> HIDE DEF k
  <2>2. k \in Nat /\ \A i \in 1 .. k : s[u + i] \in Byte
    BY <1>2, <2>1 DEF k
  <2>3. [i \in 1 .. k |-> s[u + i]] \in Text /\ Len([i \in 1 .. k |-> s[u + i]]) = k
    BY <2>2 DEF Text
  <2> QED  BY <1>4, <2>3 DEF k
<1> QED  BY <1>1, <1>4, <1>5

(* buffer_read_adv(): the rest waits, and an empty buffer starts again.    *)
LEMMA ReadAdvWaits ==
    ASSUME NEW c, NEW s \in Text, NEW u \in Nat, Waiting(c, s, u), NEW k \in 0 .. Count(c)
    PROVE  /\ Waiting(ReadAdv(c, k), s, u + k)
           /\ Count(ReadAdv(c, k)) = Count(c) - k
<1> DEFINE a == [c EXCEPT !.read = @ + k]
           d == ReadAdv(c, k)
<1>0. Size \in Nat /\ Len(s) \in Nat
  BY BufferAssumption, TextBytes
<1>1. /\ c.read \in Nat /\ c.write \in Nat /\ c.read <= c.write
      /\ c.write <= Size /\ k \in Nat /\ c.data \in [Cells -> Nat]
      /\ c.read + k <= c.write /\ Count(c) = c.write - c.read
      /\ u \in Nat /\ u + (c.write - c.read) <= Len(s)
  BY <1>0 DEF Waiting, Buffers, Count
<1>2. a.read = c.read + k /\ a.write = c.write /\ a.data = c.data /\ a \in Buffers
  BY <1>0, <1>1 DEF Waiting, Buffers
<1>3. CASE a.read # a.write
  <2>1. d = a
    BY <1>3 DEF ReadAdv
  <2>2. ASSUME NEW i \in d.read .. d.write - 1
        PROVE  d.data[i] = s[u + k + 1 + (i - d.read)]
    <3>1. i \in c.read .. c.write - 1 /\ u + k + 1 + (i - d.read) = u + 1 + (i - c.read)
      BY <1>1, <1>2, <2>1
    <3>2. c.data[i] = s[u + 1 + (i - c.read)]
      BY <3>1 DEF Waiting
    <3> QED  BY <1>2, <2>1, <3>1, <3>2
  <2>3. Count(d) = Count(c) - k /\ d.read <= d.write /\ u + k \in Nat /\ u + k + Count(d) <= Len(s)
    BY <1>0, <1>1, <1>2, <2>1 DEF Count
  <2> HIDE DEF a
  <2> QED  BY <1>2, <1>3, <2>1, <2>2, <2>3 DEF Waiting
<1>4. CASE a.read = a.write
  <2>1. d = Compact(a)
    BY <1>4 DEF ReadAdv
  <2>2. d.read = 0 /\ d.write = 0 /\ d \in Buffers
    <3>1. CASE a.read = 0
      BY <1>2, <1>4, <2>1, <3>1 DEF Compact
    <3>2. CASE a.read # 0
      <4>1. d = [a EXCEPT !.read = 0, !.write = 0]
        BY <1>4, <2>1, <3>2 DEF Compact
      <4>2. a.data \in [Cells -> Nat] /\ 0 \in 0 .. Size
        BY <1>0, <1>1, <1>2 DEF Buffers
      <4>3. d = [data |-> a.data, read |-> 0, write |-> 0]
        BY <1>2, <4>1 DEF Buffers
      <4> QED  BY <4>2, <4>3 DEF Buffers
    <3> QED  BY <3>1, <3>2
  <2> HIDE DEF a, d
  <2>3. Count(d) = 0 /\ Count(c) - k = 0 /\ u + k \in Nat /\ u + k + Count(d) <= Len(s)
    BY <1>0, <1>1, <1>2, <1>4, <2>2 DEF Count
  <2>4. Waiting(d, s, u + k)
    BY <2>2, <2>3 DEF Waiting
  <2> QED  BY <2>3, <2>4 DEF d
<1> QED  BY <1>3, <1>4

(* What waits is not touched by what is said later.                        *)
LEMMA WaitingGrows ==
    ASSUME NEW b, NEW s, NEW t, NEW u \in Nat, Grown(s, t), Waiting(b, s, u)
    PROVE  Waiting(b, t, u)
<1>1. s \in Text /\ t \in Text /\ Len(s) \in Nat /\ Len(t) \in Nat /\ Len(s) <= Len(t)
  BY TextBytes DEF Grown
<1>2. /\ u \in Nat /\ Count(b) \in Nat /\ u + Count(b) <= Len(s)
      /\ b.read \in Nat /\ b.write \in Nat /\ Count(b) = b.write - b.read
  <2>1. Size \in Nat
    BY BufferAssumption
  <2> QED  BY <2>1 DEF Waiting, Buffers, Count
<1>3. ASSUME NEW i \in b.read .. b.write - 1
      PROVE  t[u + 1 + (i - b.read)] = s[u + 1 + (i - b.read)]
  <2>1. LET j == u + 1 + (i - b.read) IN j \in Nat /\ 1 <= j /\ j <= Len(s)
    <3>1. i \in Int /\ b.read <= i /\ i < b.write
      BY <1>2
    <3>2. i - b.read \in Nat /\ i - b.read < Count(b)
      BY <1>2, <3>1
    <3> DEFINE d == i - b.read
    <3>3. d \in Nat /\ d < Count(b) /\ Count(b) \in Nat /\ u + Count(b) <= Len(s) /\ Len(s) \in Nat
      BY <1>1, <1>2, <3>2
    <3> HIDE DEF d
    <3>4. u + 1 + d \in Nat /\ 1 <= u + 1 + d /\ u + 1 + d <= Len(s)
      BY <3>3
    <3> QED  BY <3>4 DEF d
  <2> QED  BY <2>1 DEF Grown
<1>4. u + Count(b) <= Len(t)
  BY <1>1, <1>2
<1> QED  BY <1>3, <1>4 DEF Waiting

-----------------------------------------------------------------------------
(* The actions of the client *)

(* A text that did not change has grown by nothing.                        *)
LEMMA GrownItself ==
    ASSUME NEW s \in Text
    PROVE  Grown(s, s) /\ Len(s) \in Nat
BY TextBytes DEF Grown

(* Where the present message starts is a place in what was said.           *)
LEMMA FromIsNat ==
    ASSUME said \in Text, stm \in Hellos \cup Auths \cup Asks,
           stm \in Auths => HelloSaid(said), stm \in Asks => Entitled(said)
    PROVE  From(said) \in Nat
<1>1. Grown(said, said)
  BY GrownItself
<1>2. HelloSaid(said) => HelloEndOf(said) \in Nat
  BY <1>1, HelloGrows
<1>3. AuthSaid(said) => AuthEndOf(said, HelloEndOf(said)) \in Nat
  BY <1>1, AuthGrows
<1>4. CASE stm \in Hellos
  BY <1>4 DEF From
<1>5. CASE stm \in Auths
  BY <1>2, <1>5 DEF From, Hellos, Auths
<1>6. CASE stm \in Asks
  <2>1. From(said) = AskFrom(said)
    BY <1>6 DEF From, Hellos, Auths, Asks
  <2>2. AskFrom(said) \in Nat
    <3>1. CASE got = <<5, NoAuth>> /\ HelloSaid(said)
      BY <1>2, <3>1 DEF AskFrom
    <3>2. CASE got = <<5, UserPass, 1, 0>> /\ AuthSaid(said)
      <4>1. got # <<5, NoAuth>>
        BY <3>2
      <4> QED  BY <1>3, <3>2, <4>1 DEF AskFrom
    <3> QED  BY <1>6, <3>1, <3>2 DEF Entitled
  <2> QED  BY <2>1, <2>2
<1> QED  BY <1>4, <1>5, <1>6

(* What let a client in still does when it says more.                      *)
LEMMA EntitledGrows ==
    ASSUME NEW t, Grown(said, t), Entitled(said)
    PROVE  Entitled(t) /\ AskFrom(t) = AskFrom(said)
<1>1. CASE got = <<5, NoAuth>> /\ HelloSaid(said)
  <2>1. HelloSaid(t) /\ HelloEndOf(t) = HelloEndOf(said) /\ OfferedOf(t) = OfferedOf(said)
    BY <1>1, HelloGrows
  <2> QED  BY <1>1, <2>1 DEF Entitled, AskFrom
<1>2. CASE got = <<5, UserPass, 1, 0>> /\ AuthSaid(said)
  <2>1. HelloSaid(said)
    BY <1>2 DEF AuthSaid
  <2>2. HelloEndOf(t) = HelloEndOf(said) /\ OfferedOf(t) = OfferedOf(said)
    BY <2>1, HelloGrows
  <2>3. /\ AuthSaid(t) /\ AuthEndOf(t, HelloEndOf(t)) = AuthEndOf(said, HelloEndOf(said))
        /\ UsernameOf(t) = UsernameOf(said) /\ PasswordOf(t) = PasswordOf(said)
    BY <1>2, AuthGrows
  <2>4. got # <<5, NoAuth>>
    BY <1>2
  <2>5. AskFrom(t) = AskFrom(said)
    BY <2>3, <2>4 DEF AskFrom
  <2>6. UserPass \in OfferedOf(said)
        /\ Valid(atAuth, CString(UsernameOf(said)), CString(PasswordOf(said)))
    BY <2>4 DEF Entitled
  <2> QED  BY <1>2, <2>2, <2>3, <2>5, <2>6 DEF Entitled
<1> QED  BY <1>1, <1>2 DEF Entitled

(* What the parsers know stays true when the client says more.             *)
LEMMA WhereGrows ==
    ASSUME NEW t, said \in Text, p \in Parsers, Used \in Nat, Grown(said, t), Where(said)
    PROVE  Where(t)
<1>1. stm \in Auths => HelloSaid(said) /\ UserPass \in OfferedOf(said)
  BY DEF Where
<1>2. stm \in {"REQUEST_READ", "REQUEST_WRITE", "SERVED"} => Entitled(said)
  BY DEF Where
<1>3. stm \in Auths => HelloSaid(t) /\ OfferedOf(t) = OfferedOf(said)
                       /\ HelloEndOf(t) = HelloEndOf(said)
  BY <1>1, HelloGrows
<1>4. stm \in {"REQUEST_READ", "REQUEST_WRITE", "SERVED"} =>
        Entitled(t) /\ AskFrom(t) = AskFrom(said)
  BY <1>2, EntitledGrows
<1>5. At(stm, said, From(said), p, Used)
  BY DEF Where
<1>6. At(stm, t, From(t), p, Used)
  <2>1. CASE stm \in Hellos
    BY <1>5, <2>1, HelloAtGrows DEF At, Hellos, Auths, Asks
  <2>2. CASE stm \in Auths
    <3>1. From(said) \in Nat /\ From(t) = From(said)
      BY <1>1, <1>3, <2>2, FromIsNat DEF From, Hellos, Auths, Asks
    <3>2. AuthAt(t, From(t), p, Used)
      BY <1>5, <2>2, <3>1, AuthAtGrows DEF At
    <3> QED  BY <2>2, <3>2 DEF At, Hellos, Auths, Asks
  <2>3. CASE stm \in Asks
    <3>1. From(said) \in Nat /\ From(t) = From(said)
      BY <1>2, <1>4, <2>3, FromIsNat DEF From, Hellos, Auths, Asks
    <3>2. AskAt(t, From(t), p, Used)
      BY <1>5, <2>3, <3>1, AskAtGrows DEF At
    <3> QED  BY <2>3, <3>2 DEF At, Hellos, Auths, Asks
  <2> QED  BY <2>1, <2>2, <2>3 DEF At
<1> QED  BY <1>1, <1>3, <1>4, <1>6 DEF Where

(* An answer that is not yet sent to its end is none the client may        *)
(* follow.                                                                 *)
LEMMA Unfinished ==
    ASSUME got \in Text, wbuf \in Text, wbuf # <<>>
    PROVE  /\ \A x, y : got \o wbuf = <<x, y>> => got \notin {<<5, NoAuth>>, <<5, UserPass>>}
           /\ \A x, y, z, w : got \o wbuf = <<x, y, z, w>> => got # <<5, UserPass, 1, 0>>
<1>1. Len(got) < Len(got \o wbuf)
  BY DEF Text
<1>2. ASSUME NEW x, NEW y, got \o wbuf = <<x, y>>
      PROVE  got \notin {<<5, NoAuth>>, <<5, UserPass>>}
  <2>1. Len(got) < 2
    BY <1>1, <1>2
  <2> QED  BY <2>1
<1>3. ASSUME NEW x, NEW y, NEW z, NEW w, got \o wbuf = <<x, y, z, w>>
      PROVE  got # <<5, UserPass, 1, 0>>
  <2>1. Len(got) < 4
    BY <1>1, <1>3
  <2> QED  BY SMTT(20), <2>1
<1> QED  BY <1>2, <1>3

(* A username/password message with nothing behind its end has nothing     *)
(* behind its end after a hello either.                                    *)
LEMMA FitsLater ==
    ASSUME NEW s \in Text, NEW m \in Text, HelloSaid(s), Len(s) = HelloEndOf(s), AuthFits(m)
    PROVE  AuthFitsAt(s \o m, HelloEndOf(s \o m))
<1> DEFINE t == s \o m
           a == HelloEndOf(s)
<1>1. /\ Grown(s, t) /\ Len(t) = Len(s) + Len(m) /\ \A i \in 1 .. Len(m) : t[Len(s) + i] = m[i]
  BY JoinGrows
<1>2. HelloEndOf(t) = a /\ a \in Nat /\ Len(s) = a
  BY <1>1, HelloGrows
<1>3. Len(m) \in Nat /\ \A i \in 1 .. Len(m) : m[i] \in Nat
  BY TextBytes
<1> HIDE DEF t, a
<1>4. \A i \in 1 .. Len(m) : t[a + i] = m[i]
  BY <1>1, <1>2
<1>5. ASSUME Len(t) >= a + 2, t[a + 1] = 1, Len(t) >= PlenOf(t, a)
      PROVE  Len(t) <= AuthEndOf(t, a)
  <2>1. Len(m) >= 2 /\ m[1] = t[a + 1] /\ m[2] = t[a + 2] /\ m[2] \in Nat
    BY <1>1, <1>2, <1>3, <1>4, <1>5
  <2>2. PlenOf(t, a) = a + (3 + m[2]) /\ Len(m) >= 3 + m[2]
    BY <1>1, <1>2, <1>3, <1>5, <2>1 DEF PlenOf
  <2>3. t[a + (3 + m[2])] = m[3 + m[2]] /\ m[3 + m[2]] \in Nat
    <3>1. 3 + m[2] \in 1 .. Len(m)
      BY <1>3, <2>1, <2>2
    <3> QED  BY <1>3, <1>4, <3>1
  <2>4. Len(m) <= 3 + m[2] + m[3 + m[2]]
    BY <1>5, <2>1, <2>2 DEF AuthFits
  <2>5. AuthEndOf(t, a) = a + (3 + m[2]) + m[3 + m[2]]
    BY <2>2, <2>3 DEF AuthEndOf
  <2> QED  BY SMTT(20), <1>1, <1>2, <1>3, <2>1, <2>3, <2>4, <2>5
<1> QED  BY <1>2, <1>5 DEF AuthFitsAt, t

(* The client says one message more.                                       *)
LEMMA SayKeeps ==
    ASSUME Inv, NEW kind \in {"hello", "auth", "request"}, NEW m \in Text, Say(kind, m),
           ~client.ahead => (kind = "hello" => HelloFits(m)) /\ (kind = "auth" => AuthFits(m))
    PROVE  Inv'
<1>1. /\ said' = said \o m /\ spoken' = kind /\ MaySay(kind)
      /\ UNCHANGED <<users, client, fin, got, taken, rbuf, wbuf, stm, p, reply, atHello, atAuth>>
  BY DEF Say, serverVars
<1>2. said \in Text /\ p \in Parsers /\ Used \in Nat /\ Waiting(rbuf, said, Used)
  BY DEF Inv, Types, Waiting
<1>3. Grown(said, said') /\ said' \in Text /\ Len(said) <= Len(said') /\ Len(said') \in Nat
      /\ Len(said) \in Nat /\ Len(said') = Len(said) + Len(m)
  <2>1. Grown(said, said \o m) /\ Len(said \o m) = Len(said) + Len(m)
    BY <1>2, JoinGrows
  <2>2. Grown(said, said') /\ Len(said') = Len(said) + Len(m)
    BY <1>1, <2>1
  <2>3. said' \in Text /\ Len(said) <= Len(said')
    BY <2>2 DEF Grown
  <2> QED  BY <1>2, <2>2, <2>3, TextBytes
<1>4. Types'
  <2>1. taken \in 0 .. Len(said')
    BY <1>3 DEF Inv, Types
  <2> QED  BY <1>1, <1>3, <2>1 DEF Inv, Types
<1>5. Where(said)'
  <2>1. Where(said')
    BY <1>2, <1>3, WhereGrows DEF Inv
  <2> QED  BY <1>1, <2>1 DEF Where, At, From, AskFrom, Entitled, Used
<1>6. Decisions' /\ Answers'
  BY <1>1 DEF Inv, Decisions, Answers
<1>7. Waiting(rbuf, said, Used)'
  <2>1. Waiting(rbuf, said', Used)
    BY <1>2, <1>3, WaitingGrows
  <2>2. Used' = Used
    BY <1>1 DEF Used
  <2> QED  BY <1>1, <2>1, <2>2
<1>8. Turns'
  <2>1. SUFFICES ASSUME ~client.ahead PROVE Turns'
    BY <1>1 DEF Turns
  <2>2. /\ stm \notin Ends => rbuf.read = rbuf.write
        /\ stm = "HELLO_READ" => \/ spoken = "nothing" /\ said = <<>>
                                 \/ spoken = "hello" /\ HelloFits(said)
        /\ stm = "HELLO_WRITE" => spoken = "hello" /\ Len(said) = HelloEndOf(said)
        /\ stm = "AUTH_READ" => \/ spoken = "hello" /\ Len(said) = HelloEndOf(said)
                                \/ spoken = "auth" /\ AuthFitsAt(said, HelloEndOf(said))
        /\ stm = "AUTH_WRITE" => spoken = "auth"
    BY <2>1 DEF Inv, Turns
  <2>3. /\ got \in Text /\ wbuf \in Text
        /\ stm = "HELLO_READ" => got = <<>>
        /\ stm = "HELLO_WRITE" => wbuf # <<>> /\ got \o wbuf = <<5, p.selected>>
        /\ stm = "AUTH_READ" => got = <<5, UserPass>>
        /\ stm = "AUTH_WRITE" =>
              wbuf # <<>> /\ got \o wbuf = <<5, UserPass, 1, IF p.ok THEN 0 ELSE 1>>
    BY DEF Inv, Answers, WriteStates
  <2>4. /\ kind = "hello" => spoken = "nothing" /\ HelloFits(m)
        /\ kind = "auth" => spoken = "hello" /\ got = <<5, UserPass>> /\ AuthFits(m)
        /\ kind = "request" => \/ spoken = "hello" /\ got = <<5, NoAuth>>
                               \/ spoken = "auth" /\ got = <<5, UserPass, 1, 0>>
    BY <1>1, <2>1 DEF MaySay
  <2>5. CASE stm = "HELLO_READ"
    <3>1. got # <<5, NoAuth>> /\ got # <<5, UserPass>> /\ got # <<5, UserPass, 1, 0>>
      BY <2>3, <2>5
    <3>2. kind = "hello" /\ said = <<>>
      BY <2>2, <2>4, <2>5, <3>1
    <3>3. said' = m
      BY <1>1, <3>2 DEF Text
    <3> QED  BY <1>1, <2>2, <2>4, <2>5, <3>2, <3>3 DEF Turns
  <2>6. CASE stm = "HELLO_WRITE"
    <3>1. got \notin {<<5, NoAuth>>, <<5, UserPass>>}
      BY <2>3, <2>6, Unfinished
    <3>2. FALSE
      BY <2>2, <2>4, <2>6, <3>1
    <3> QED  BY <3>2
  <2>7. CASE stm = "AUTH_WRITE"
    <3>1. got # <<5, UserPass, 1, 0>>
      BY <2>3, <2>7, Unfinished
    <3>2. FALSE
      BY <2>2, <2>4, <2>7, <3>1
    <3> QED  BY <3>2
  <2>8. CASE stm = "AUTH_READ"
    <3>1. got # <<5, NoAuth>> /\ got # <<5, UserPass, 1, 0>>
      BY <2>3, <2>8 DEF NoAuth, UserPass
    <3>2. kind = "auth" /\ spoken = "hello" /\ Len(said) = HelloEndOf(said) /\ AuthFits(m)
      BY <2>2, <2>4, <2>8, <3>1
    <3>3. HelloSaid(said)
      BY <2>8 DEF Inv, Where, Auths
    <3>4. AuthFitsAt(said', HelloEndOf(said'))
      BY <1>1, <1>2, <3>2, <3>3, FitsLater
    <3> QED  BY <1>1, <2>2, <2>8, <3>2, <3>4 DEF Turns
  <2> QED  BY <1>1, <2>2, <2>5, <2>6, <2>7, <2>8 DEF Turns
<1> QED  BY <1>4, <1>5, <1>6, <1>7, <1>8 DEF Inv

-----------------------------------------------------------------------------
(* The handlers *)

(* The handler of the present state, with a parser that stopped at q.      *)
Handled(q) ==
    \/ stm = "HELLO_READ"   /\ HelloRead(q)
    \/ stm = "AUTH_READ"    /\ AuthRead(q)
    \/ stm = "REQUEST_READ" /\ RequestRead(q)

(* socks_recv() and the loop that follows it: the handler of the state     *)
(* gets a parser that knows what was said up to the last byte used.        *)
LEMMA ReadHandles ==
    ASSUME Inv, NEW n \in 1 .. Size, Read(n)
    PROVE  /\ taken' \in 0 .. Len(said) /\ taken' >= 1
           /\ Waiting(rbuf', said, Used')
           /\ \E q \in Parsers : /\ At(stm, said, From(said), q, Used')
                                 /\ ~Over(q) => rbuf'.read = rbuf'.write
                                 /\ Handled(q)
<1> DEFINE c == Stored(rbuf, n, SubSeq(said, taken + 1, taken + n))
           r == Parse(stm, p, Contents(c))
<1>0. Size \in Nat /\ n \in Nat
  BY BufferAssumption
<1>1. /\ stm \in ReadStates /\ n \in 1 .. Space(rbuf) /\ taken + n <= Len(said)
      /\ taken' = taken + n /\ rbuf' = ReadAdv(c, r.used) /\ Handled(r.q)
  BY DEF Read, Handled
<1>2. /\ said \in Text /\ p \in Parsers /\ Used \in Nat /\ Waiting(rbuf, said, Used)
      /\ taken \in Nat /\ Len(said) \in Nat
  <2>1. said \in Text /\ p \in Parsers /\ Waiting(rbuf, said, Used) /\ taken \in 0 .. Len(said)
    BY DEF Inv, Types
  <2>2. Len(said) \in Nat /\ Used \in Nat
    BY <2>1, TextBytes DEF Waiting
  <2> QED  BY <2>1, <2>2
<1>3. Count(rbuf) \in Nat /\ taken = Used + Count(rbuf)
  <2>1. Count(rbuf) \in Nat
    BY <1>2, ContentsWait
  <2> QED  BY <1>2, <2>1 DEF Used
<1>4. Waiting(c, said, Used) /\ Count(c) = Count(rbuf) + n
  <2>1. Receivable(rbuf, said, Used, n)
    BY <1>1, <1>3 DEF Receivable
  <2> QED  BY <1>0, <1>2, <1>3, <2>1, StoredWaits
<1> HIDE DEF c
<1>5. /\ Contents(c) \in Text /\ Len(Contents(c)) = Count(c) /\ Count(c) \in Nat
      /\ Used + Len(Contents(c)) <= Len(said)
      /\ \A i \in 1 .. Len(Contents(c)) : Contents(c)[i] = said[Used + i]
  BY <1>2, <1>4, ContentsWait
<1>6. At(stm, said, From(said), p, Used) /\ From(said) \in Nat
  <2>1. From(said) \in Nat
    BY <1>1, <1>2, FromIsNat DEF Inv, Where, ReadStates, Hellos, Auths, Asks
  <2> QED  BY <2>1 DEF Inv, Where
<1>7. /\ r.q \in Parsers /\ r.used \in 0 .. Count(c)
      /\ At(stm, said, From(said), r.q, Used + r.used)
      /\ ~Over(r.q) => r.used = Count(c)
  BY SMTT(20), <1>1, <1>2, <1>5, <1>6, Parsed
<1> HIDE DEF r
<1>8. Waiting(rbuf', said, Used + r.used) /\ Count(rbuf') = Count(c) - r.used
  BY <1>1, <1>2, <1>4, <1>7, ReadAdvWaits
<1>9. Used' = Used + r.used
  <2>1. Used' = taken' - Count(rbuf')
    BY DEF Used, Count
  <2>2. Used' = (Used + Count(rbuf) + n) - ((Count(rbuf) + n) - r.used)
    <3>1. taken' = Used + Count(rbuf) + n
      BY <1>1, <1>3
    <3>2. Count(rbuf') = (Count(rbuf) + n) - r.used
      <4>1. Count(rbuf') = Count(c) - r.used
        BY <1>8
      <4>2. Count(c) = Count(rbuf) + n
        BY <1>4
      <4> QED  BY <4>1, <4>2
    <3> QED  BY <2>1, <3>1, <3>2
  <2>3. r.used \in Nat
    BY <1>5, <1>7
  <2> QED  BY <1>0, <1>2, <1>3, <2>2, <2>3
<1>10. ~Over(r.q) => rbuf'.read = rbuf'.write
  <2>1. SUFFICES ASSUME ~Over(r.q) PROVE rbuf'.read = rbuf'.write
    OBVIOUS
  <2>2. Count(rbuf') = 0
    BY <1>5, <1>7, <1>8, <2>1
  <2>3. rbuf'.read \in Nat /\ rbuf'.write \in Nat
    BY <1>0, <1>8 DEF Waiting, Buffers
  <2> QED  BY <2>2, <2>3 DEF Count
<1>11. taken' \in 0 .. Len(said) /\ taken' >= 1
  BY <1>0, <1>1, <1>2
<1> QED  BY <1>1, <1>7, <1>8, <1>9, <1>10, <1>11

(* Nothing is left in the buffer when everything that was said was used.   *)
LEMMA NothingMore ==
    ASSUME NEW STATE s, s \in Text, Waiting(rbuf', s, Used'), Used' = Len(s)
    PROVE  rbuf'.read = rbuf'.write
<1>1. /\ Size \in Nat /\ Len(s) \in Nat /\ rbuf'.read \in Nat /\ rbuf'.write \in Nat
      /\ Used' + Count(rbuf') <= Len(s) /\ rbuf'.read <= rbuf'.write
  BY BufferAssumption, TextBytes DEF Waiting, Buffers
<1>2. Count(rbuf') <= 0
  BY <1>1 DEF Count
<1> QED  BY <1>1, <1>2 DEF Count

(* What no read handler touches.                                           *)
Settled == UNCHANGED <<users, client, said, spoken, fin, got>>

(* A read handler touches none of these.                                   *)
LEMMA ReadSettles ==
    ASSUME Inv, NEW n \in 1 .. Size, Read(n)
    PROVE  Settled
BY DEF Read, Settled, clientVars

(* hello_on_read_ready() behind its loop.                                  *)
LEMMA HelloReadKeeps ==
    ASSUME Inv, stm = "HELLO_READ", NEW q \in Parsers, HelloRead(q), Settled,
           taken' \in 0 .. Len(said), taken' >= 1, Waiting(rbuf', said, Used'),
           HelloAt(said, q, Used'), ~Over(q) => rbuf'.read = rbuf'.write
    PROVE  Inv'
<1>0. UNCHANGED <<users, client, said, spoken, fin, got>>
  BY DEF Settled
<1>1. /\ users \in Tables /\ client \in Clients /\ said \in Text /\ p \in Parsers
      /\ reply \in {NoReply, GeneralFailure, CommandNotSupported}
      /\ got = <<>> /\ wbuf = <<>> /\ Len(said) \in Nat
  BY TextBytes DEF Inv, Types, Answers, ReadStates
<1>2. Waiting(rbuf, said, Used)'
  BY <1>0
<1>3. CASE q.at = "ERROR" /\ Close(q)
  BY <1>0, <1>1, <1>2, <1>3
     DEF Close, Inv, Types, Where, At, Decisions, Answers, Turns, Hellos, Auths, Asks,
         ReadStates, WriteStates, Ends
<1>4. CASE ~Over(q) /\ KeepReading(q)
  <2>1. p' = q /\ stm' = stm /\ wbuf' = wbuf /\ reply' = reply
    BY <1>4 DEF KeepReading
  <2>2. Types' /\ Decisions' /\ Answers'
    BY <1>0, <1>1, <2>1 DEF Inv, Types, Decisions, Answers, ReadStates, WriteStates
  <2>3. Where(said)'
    BY <1>0, <2>1 DEF Where, At, Hellos, Auths, Asks
  <2>4. Turns'
    BY <1>0, <1>4, <2>1 DEF Inv, Turns
  <2> QED  BY <1>2, <2>2, <2>3, <2>4 DEF Inv
<1>5. CASE q.at = "DONE" /\ stm' = "HELLO_WRITE"
  <2> DEFINE m == Method(q.offered, users)
  <2>1. /\ p' = [q EXCEPT !.selected = m] /\ wbuf' = wbuf \o <<5, m>>
        /\ atHello' = users /\ UNCHANGED <<reply, atAuth>>
    BY <1>5 DEF HelloRead, Close, KeepReading, Over
  <2>2. m \in Byte /\ 5 \in Byte
    BY DEF Method, Byte, UserPass, NoAuth, NoAcceptable
  <2>3. /\ p' \in Parsers /\ p'.selected = m /\ p'.at = "DONE" /\ p'.offered = q.offered
        /\ p'.left = q.left /\ Unnamed(p') /\ Unasked(p')
    BY <1>5, <2>1, <2>2 DEF Parsers, HelloAt, Unnamed, Unasked
  <2>4. wbuf' = <<5, m>> /\ wbuf' \in Text /\ <<>> \o wbuf' = <<5, m>> /\ wbuf' # <<>>
    BY <1>1, <2>1, <2>2 DEF Text
  <2> HIDE DEF m
  <2>5. Types'
    BY <1>0, <1>1, <1>5, <2>1, <2>3 DEF Types, WriteStates
  <2>6. Decisions'
    BY <1>5, <2>1, <2>3 DEF Decisions, m
  <2>7. Answers'
    BY <1>0, <1>1, <1>5, <2>3, <2>4 DEF Inv, Answers, ReadStates, WriteStates
  <2>8. Where(said)'
    <3>1. HelloAt(said, p', Used')
      BY <1>5, <2>3 DEF HelloAt
    <3> QED  BY <1>0, <1>5, <2>3, <3>1 DEF Where, At, Hellos, Auths, Asks
  <2>9. Turns'
    <3>1. SUFFICES ASSUME ~client.ahead PROVE Turns'
      BY <1>0 DEF Turns
    <3>2. \/ spoken = "nothing" /\ said = <<>>
          \/ spoken = "hello" /\ HelloFits(said)
      BY <3>1 DEF Inv, Turns
    <3>3. /\ Used' = HelloEndOf(said) /\ said[1] = 5 /\ Used' >= 2 /\ Used' \in Nat
          /\ Used' <= Len(said)
      BY <1>5 DEF HelloAt, Waiting
    <3>4. said # <<>>
      BY <3>3, <1>1
    <3>5. Len(said) <= HelloEndOf(said)
      BY <1>1, <3>2, <3>3, <3>4 DEF HelloFits, HelloEndOf
    <3>6. Len(said) = HelloEndOf(said)
      BY <1>1, <3>3, <3>5
    <3>7. rbuf'.read = rbuf'.write
      BY <1>1, <3>3, <3>6, NothingMore
    <3> QED  BY <1>0, <1>5, <3>2, <3>4, <3>6, <3>7 DEF Turns
  <2> QED  BY <1>2, <2>5, <2>6, <2>7, <2>8, <2>9 DEF Inv
<1> QED  BY <1>3, <1>4, <1>5 DEF HelloRead

(* A username/password message that was parsed to its end.                 *)
LEMMA AuthOver ==
    ASSUME NEW s \in Text, NEW q \in Parsers, NEW u \in Nat, HelloSaid(s),
           AuthAt(s, HelloEndOf(s), q, u), q.at = "DONE"
    PROVE  /\ AuthSaid(s) /\ q.uname = UsernameOf(s) /\ q.passwd = PasswordOf(s)
           /\ u = AuthEndOf(s, HelloEndOf(s)) /\ u > HelloEndOf(s) + 1 /\ u <= Len(s)
           /\ PlenOf(s, HelloEndOf(s)) <= Len(s) /\ s[HelloEndOf(s) + 1] = 1
<1> DEFINE a == HelloEndOf(s)
<1>1. Grown(s, s) /\ Len(s) \in Nat
  BY GrownItself
<1>2. a \in Nat /\ a <= Len(s)
  BY <1>1, HelloGrows
<1>3. /\ u <= Len(s) /\ u > a + 1 /\ s[a + 1] = 1 /\ u >= PlenOf(s, a)
      /\ q.uname = SubSeq(s, a + 3, PlenOf(s, a) - 1)
      /\ q.passwd = SubSeq(s, PlenOf(s, a) + 1, u) /\ u = AuthEndOf(s, a)
  BY DEF AuthAt
<1>4. PlenOf(s, a) \in Nat /\ PlenOf(s, a) <= Len(s) /\ a + 1 < Len(s)
  <2>1. PlenOf(s, a) \in Nat
    BY <1>1, <1>2, <1>3, PlenIsNat
  <2> QED  BY SMTT(20), <1>1, <1>2, <1>3, <2>1
<1> QED  BY <1>3, <1>4 DEF AuthSaid, UsernameOf, PasswordOf

(* The two answers together.                                               *)
LEMMA TwoAndTwo ==
    ASSUME NEW S, NEW a \in S, NEW b \in S, NEW c \in S, NEW d \in S
    PROVE  <<a, b>> \o <<c, d>> = <<a, b, c, d>>
<1> DEFINE s == <<a, b>>
           t == <<c, d>>
           r == <<a, b, c, d>>
<1>1. /\ Len(s) = 2 /\ s[1] = a /\ s[2] = b /\ s \in Seq(S)
      /\ Len(t) = 2 /\ t[1] = c /\ t[2] = d /\ t \in Seq(S)
      /\ Len(r) = 4 /\ r[1] = a /\ r[2] = b /\ r[3] = c /\ r[4] = d /\ r \in Seq(S)
  OBVIOUS
<1> HIDE DEF s, t, r
<1>2. /\ s \o t \in Seq(S) /\ Len(s \o t) = Len(s) + Len(t)
      /\ \A i \in 1 .. Len(s) + Len(t) : (s \o t)[i] = IF i <= Len(s) THEN s[i] ELSE t[i - Len(s)]
  BY <1>1, ConcatProperties
<1>3. /\ (s \o t)[1] = a /\ (s \o t)[2] = b /\ (s \o t)[3] = c /\ (s \o t)[4] = d
      /\ Len(s \o t) = 4
  BY <1>1, <1>2
<1>4. \A i \in 1 .. 4 : (s \o t)[i] = r[i]
  <2>1. \A i \in 1 .. 4 : i = 1 \/ i = 2 \/ i = 3 \/ i = 4
    OBVIOUS
  <2> QED  BY <1>1, <1>3, <2>1
<1>5. s \o t = r
  BY <1>1, <1>2, <1>3, <1>4, SeqEqual
<1> QED  BY <1>5 DEF s, t, r

(* auth_on_read_ready() behind its loop.                                   *)
LEMMA AuthReadKeeps ==
    ASSUME Inv, stm = "AUTH_READ", NEW q \in Parsers, AuthRead(q), Settled,
           taken' \in 0 .. Len(said), Waiting(rbuf', said, Used'),
           AuthAt(said, HelloEndOf(said), q, Used'), ~Over(q) => rbuf'.read = rbuf'.write
    PROVE  Inv'
<1>0. UNCHANGED <<users, client, said, spoken, fin, got>>
  BY DEF Settled
<1>1. /\ users \in Tables /\ client \in Clients /\ said \in Text /\ p \in Parsers
      /\ reply \in {NoReply, GeneralFailure, CommandNotSupported}
      /\ got = <<5, UserPass>> /\ got \in Text /\ wbuf = <<>> /\ Len(said) \in Nat
      /\ HelloSaid(said) /\ UserPass \in OfferedOf(said)
  BY TextBytes DEF Inv, Types, Answers, ReadStates, Where, Auths
<1>2. Waiting(rbuf, said, Used)'
  BY <1>0
<1>3. CASE q.at = "ERROR" /\ Close(q)
  BY <1>0, <1>1, <1>2, <1>3
     DEF Close, Inv, Types, Where, At, Decisions, Answers, Turns, Hellos, Auths, Asks,
         ReadStates, WriteStates, Ends
<1>4. CASE ~Over(q) /\ KeepReading(q)
  <2>1. p' = q /\ stm' = stm /\ wbuf' = wbuf /\ reply' = reply
    BY <1>4 DEF KeepReading
  <2>2. Types' /\ Decisions' /\ Answers'
    BY <1>0, <1>1, <2>1 DEF Inv, Types, Decisions, Answers, ReadStates, WriteStates
  <2>3. Where(said)'
    BY <1>0, <1>1, <2>1 DEF Where, At, From, Hellos, Auths, Asks
  <2>4. Turns'
    BY <1>0, <1>4, <2>1 DEF Inv, Turns
  <2> QED  BY <1>2, <2>2, <2>3, <2>4 DEF Inv
<1>5. CASE q.at = "DONE" /\ stm' = "AUTH_WRITE"
  <2> DEFINE ok == Admitted(q)
             x == IF ok THEN 0 ELSE 1
  <2>1. /\ p' = [q EXCEPT !.ok = ok] /\ wbuf' = wbuf \o <<1, x>>
        /\ atAuth' = users /\ UNCHANGED <<reply, atHello>>
    BY <1>5 DEF AuthRead, Close, KeepReading, Over
  <2>2. ok \in BOOLEAN /\ x \in Byte /\ 1 \in Byte
    BY DEF Admitted, Valid, Byte
  <2>3. ok <=> Valid(users, CString(q.uname), CString(q.passwd))
    BY DEF Admitted
  <2> HIDE DEF ok
  <2>4. /\ p' \in Parsers /\ p'.ok = ok /\ p'.at = "DONE" /\ p'.left = q.left
        /\ p'.uname = q.uname /\ p'.passwd = q.passwd /\ Unasked(p')
    BY <1>5, <2>1, <2>2 DEF Parsers, AuthAt, Unasked
  <2>5. wbuf' = <<1, x>> /\ wbuf' \in Text /\ wbuf' # <<>>
    BY <1>1, <2>1, <2>2 DEF Text
  <2>6. got \o wbuf' = <<5, UserPass, 1, x>>
    <3>1. UserPass \in Byte /\ 5 \in Byte
      BY DEF UserPass, Byte
    <3> HIDE DEF x
    <3>2. <<5, UserPass>> \o <<1, x>> = <<5, UserPass, 1, x>>
      BY <2>2, <3>1, TwoAndTwo
    <3> QED  BY <1>1, <2>5, <3>2
  <2>7. Types'
    BY <1>0, <1>1, <1>5, <2>1, <2>4 DEF Types, WriteStates
  <2>8. Decisions'
    BY <1>5, <2>1, <2>3, <2>4 DEF Decisions
  <2>9. Answers'
    BY <1>0, <1>1, <1>5, <2>4, <2>5, <2>6 DEF Inv, Answers, ReadStates, WriteStates
  <2>10. Where(said)'
    <3>1. AuthAt(said, HelloEndOf(said), p', Used')
      BY <1>5, <2>4 DEF AuthAt, Unnamed
    <3> QED  BY <1>0, <1>1, <1>5, <2>4, <3>1 DEF Where, At, From, Hellos, Auths, Asks
  <2>11. Turns'
    <3>1. SUFFICES ASSUME ~client.ahead PROVE Turns'
      BY <1>0 DEF Turns
    <3>2. \/ spoken = "hello" /\ Len(said) = HelloEndOf(said)
          \/ spoken = "auth" /\ AuthFitsAt(said, HelloEndOf(said))
      BY <3>1 DEF Inv, Turns
    <3>3. Used' \in Nat
      BY DEF Waiting
    <3>4. /\ Used' = AuthEndOf(said, HelloEndOf(said)) /\ Used' > HelloEndOf(said) + 1
          /\ Used' <= Len(said) /\ PlenOf(said, HelloEndOf(said)) <= Len(said)
          /\ said[HelloEndOf(said) + 1] = 1
      BY <1>1, <1>5, <3>3, AuthOver
    <3>5. HelloEndOf(said) \in Nat
      BY <1>1, GrownItself, HelloGrows
    <3>6. spoken = "auth" /\ AuthFitsAt(said, HelloEndOf(said))
      BY <1>1, <3>2, <3>3, <3>4, <3>5
    <3>7. Len(said) = Used'
      BY <1>1, <3>3, <3>4, <3>5, <3>6 DEF AuthFitsAt
    <3>8. rbuf'.read = rbuf'.write
      BY <1>1, <3>7, NothingMore
    <3> QED  BY <1>0, <1>5, <3>6, <3>8 DEF Turns
  <2> QED  BY <1>2, <2>7, <2>8, <2>9, <2>10, <2>11 DEF Inv
<1> QED  BY <1>3, <1>4, <1>5 DEF AuthRead

(* request_on_read_ready() behind its loop.                                *)
LEMMA RequestReadKeeps ==
    ASSUME Inv, stm = "REQUEST_READ", NEW q \in Parsers, RequestRead(q), Settled,
           taken' \in 0 .. Len(said), Waiting(rbuf', said, Used'),
           AskAt(said, AskFrom(said), q, Used'), ~Over(q) => rbuf'.read = rbuf'.write
    PROVE  Inv'
<1>0. UNCHANGED <<users, client, said, spoken, fin, got>>
  BY DEF Settled
<1>1. /\ users \in Tables /\ client \in Clients /\ said \in Text
      /\ reply \in {NoReply, GeneralFailure, CommandNotSupported}
      /\ got \in Text /\ wbuf \in Text /\ wbuf = <<>> /\ Entitled(said)
  BY DEF Inv, Types, Answers, ReadStates, Where
<1>2. Waiting(rbuf, said, Used)'
  BY <1>0
<1>3. p' = q /\ wbuf' = wbuf /\ atHello' = atHello /\ atAuth' = atAuth
  BY DEF RequestRead
<1>4. Entitled(said)' /\ AskFrom(said)' = AskFrom(said)
  BY <1>0, <1>1, <1>3 DEF Entitled, AskFrom
<1>5. \/ stm' = "REQUEST_WRITE" /\ reply' \in {GeneralFailure, CommandNotSupported}
      \/ stm' = stm /\ ~Over(q) /\ reply' = reply
      \/ stm' = "SERVED" /\ q.at = "DONE" /\ q.cmd = 1 /\ reply' = reply
  BY DEF RequestRead
<1>6. Types'
  BY <1>0, <1>1, <1>3, <1>5 DEF Types, ReadStates, Ends
<1>7. Decisions' /\ Answers'
  BY <1>0, <1>1, <1>3, <1>5 DEF Decisions, Answers, ReadStates, WriteStates
<1>8. Where(said)'
  BY <1>0, <1>3, <1>4, <1>5 DEF Where, At, From, Hellos, Auths, Asks
<1>9. Turns'
  BY <1>0, <1>5 DEF Turns, Ends
<1> QED  BY <1>2, <1>6, <1>7, <1>8, <1>9 DEF Inv

(* A readable descriptor.                                                  *)
LEMMA ReadKeeps ==
    ASSUME Inv, NEW n \in 1 .. Size, Read(n)
    PROVE  Inv'
<1>1. Settled /\ taken' \in 0 .. Len(said) /\ taken' >= 1 /\ Waiting(rbuf', said, Used')
  BY ReadHandles, ReadSettles
<1>2. PICK q \in Parsers : /\ At(stm, said, From(said), q, Used')
                           /\ ~Over(q) => rbuf'.read = rbuf'.write
                           /\ Handled(q)
  BY ReadHandles
<1>3. CASE stm = "HELLO_READ" /\ HelloRead(q)
  BY <1>1, <1>2, <1>3, HelloReadKeeps DEF At, Hellos
<1>4. CASE stm = "AUTH_READ" /\ AuthRead(q)
  BY <1>1, <1>2, <1>4, AuthReadKeeps DEF At, From, Hellos, Auths
<1>5. CASE stm = "REQUEST_READ" /\ RequestRead(q)
  BY <1>1, <1>2, <1>5, RequestReadKeeps DEF At, From, Hellos, Auths, Asks
<1> QED  BY <1>2, <1>3, <1>4, <1>5 DEF Handled

(* send() passes the first bytes on and keeps the others.                  *)
LEMMA SendSplits ==
    ASSUME NEW g \in Text, NEW w \in Text, NEW n \in 1 .. Len(w)
    PROVE  /\ g \o SubSeq(w, 1, n) \in Text /\ SubSeq(w, n + 1, Len(w)) \in Text
           /\ (g \o SubSeq(w, 1, n)) \o SubSeq(w, n + 1, Len(w)) = g \o w
           /\ n = Len(w) => g \o SubSeq(w, 1, n) = g \o w /\ SubSeq(w, n + 1, Len(w)) = <<>>
           /\ n # Len(w) => SubSeq(w, n + 1, Len(w)) # <<>>
<1>1. Len(w) \in Nat /\ w \in Seq(Byte) /\ g \in Seq(Byte) /\ n \in Nat /\ 1 <= n /\ n <= Len(w)
  BY TextBytes DEF Text
<1> DEFINE x == SubSeq(w, 1, n)
           y == SubSeq(w, n + 1, Len(w))
<1>2. x \in Seq(Byte) /\ y \in Seq(Byte)
  BY <1>1
<1>3. x \o y = w
  <2>1. 1 \in 1 .. Len(w) + 1 /\ n \in 1 - 1 .. Len(w) /\ Len(w) \in n .. Len(w)
    BY <1>1
  <2>2. SubSeq(w, 1, Len(w)) = w
    BY <1>1
  <2>3. w \in Seq(Byte)
    BY <1>1
  <2>4. SubSeq(w, 1, n) \o SubSeq(w, n + 1, Len(w)) = SubSeq(w, 1, Len(w))
    BY <2>1, <2>3, ConcatAdjacentSubSeq, Zenon
  <2> QED  BY <2>2, <2>4
<1>4. n = Len(w) => x = w /\ y = <<>>
  BY <1>1
<1>5. n # Len(w) => y # <<>>
  <2>1. Len(y) = Len(w) - n
    BY <1>1
  <2> HIDE DEF y
  <2> QED  BY <1>1, <2>1
<1> HIDE DEF x, y
<1>6. (g \o x) \o y = g \o (x \o y)
  <2>1. g \in Seq(Byte) /\ x \in Seq(Byte) /\ y \in Seq(Byte)
    BY <1>1, <1>2
  <2>2. \A a, b, c \in Seq(Byte) : (a \o b) \o c = a \o (b \o c)
    BY ConcatAssociative
  <2> QED  BY <2>1, <2>2
<1>7. g \o x \in Seq(Byte)
  BY <1>1, <1>2, ConcatProperties
<1> QED  BY <1>2, <1>3, <1>4, <1>5, <1>6, <1>7 DEF x, y, Text

(* A hello that was parsed to its end.                                     *)
LEMMA HelloOver ==
    ASSUME Inv, HelloAt(said, p, Used), p.at = "DONE"
    PROVE  /\ HelloSaid(said) /\ Used = HelloEndOf(said)
           /\ p.offered = MethodsIn(said, HelloEndOf(said))
<1>1. /\ Used >= 2 /\ said[1] = 5 /\ p.offered = MethodsIn(said, Used)
      /\ Used = HelloEndOf(said) /\ Used <= Len(said)
  BY DEF HelloAt
<1>2. said \in Text /\ Used \in Nat
  BY DEF Inv, Types, Waiting
<1> QED  BY <1>1, <1>2, TextBytes DEF HelloSaid

(* A writable descriptor: hello_on_write_ready(), auth_on_write_ready().   *)
LEMMA WriteKeeps ==
    ASSUME Inv, NEW n \in 1 .. Size, Write(n)
    PROVE  Inv'
<1>1. /\ stm \in WriteStates /\ n \in 1 .. Len(wbuf)
      /\ got' = got \o SubSeq(wbuf, 1, n) /\ wbuf' = SubSeq(wbuf, n + 1, Len(wbuf))
      /\ UNCHANGED <<users, client, said, spoken, fin, taken, rbuf, reply, atHello, atAuth>>
      /\ n = Len(wbuf) => stm' = Following /\ p' = Arrived(Following)
      /\ n # Len(wbuf) => stm' = stm /\ p' = p
  BY DEF Write, AllSent, clientVars
<1>2. /\ users \in Tables /\ client \in Clients /\ said \in Text /\ taken \in 0 .. Len(said)
      /\ p \in Parsers /\ reply \in {NoReply, GeneralFailure, CommandNotSupported}
      /\ got \in Text /\ wbuf \in Text /\ Len(said) \in Nat
  BY TextBytes DEF Inv, Types, Answers
<1>3. /\ got' \in Text /\ wbuf' \in Text /\ got' \o wbuf' = got \o wbuf
      /\ n = Len(wbuf) => got' = got \o wbuf /\ wbuf' = <<>>
      /\ n # Len(wbuf) => wbuf' # <<>>
  <2>1. got \in Text /\ wbuf \in Text /\ n \in 1 .. Len(wbuf)
    BY <1>1, <1>2
  <2>2. /\ got \o SubSeq(wbuf, 1, n) \in Text /\ SubSeq(wbuf, n + 1, Len(wbuf)) \in Text
        /\ (got \o SubSeq(wbuf, 1, n)) \o SubSeq(wbuf, n + 1, Len(wbuf)) = got \o wbuf
        /\ n = Len(wbuf) => /\ got \o SubSeq(wbuf, 1, n) = got \o wbuf
                            /\ SubSeq(wbuf, n + 1, Len(wbuf)) = <<>>
        /\ n # Len(wbuf) => SubSeq(wbuf, n + 1, Len(wbuf)) # <<>>
    BY <2>1, SendSplits, Zenon
  <2> QED  BY <1>1, <2>2, Zenon
<1>4. Waiting(rbuf, said, Used)' /\ Used' = Used
  BY <1>1 DEF Inv, Used, Waiting
<1>5. CASE n # Len(wbuf)
  <2>1. stm' = stm /\ p' = p /\ wbuf' # <<>>
    BY <1>1, <1>3, <1>5
  <2>2. Types' /\ Decisions' /\ Turns'
    BY <1>1, <1>2, <2>1 DEF Inv, Types, Decisions, Turns
  <2>3. Answers'
    BY <1>1, <1>3, <2>1 DEF Inv, Answers, ReadStates, WriteStates
  <2>4. Where(said)'
    BY <1>1, <1>4, <2>1 DEF Inv, Where, At, From, Hellos, Auths, Asks, WriteStates
  <2> QED  BY <1>4, <2>2, <2>3, <2>4 DEF Inv
<1>6. CASE n = Len(wbuf) /\ Following = "CLOSED"
  <2>1. stm' = "CLOSED" /\ p' = p
    BY <1>1, <1>6 DEF Arrived
  <2> QED  BY <1>1, <1>2, <1>3, <1>4, <2>1
           DEF Inv, Types, Where, At, Decisions, Answers, Turns, Hellos, Auths, Asks,
               ReadStates, WriteStates, Ends
<1>7. CASE n = Len(wbuf) /\ Following = "AUTH_READ"
  <2>1. stm = "HELLO_WRITE" /\ p.selected = UserPass
    BY <1>7 DEF Following
  <2>2. HelloAt(said, p, Used) /\ p.at = "DONE" /\ p.selected = Method(p.offered, atHello)
        /\ got \o wbuf = <<5, p.selected>>
    BY <2>1 DEF Inv, Where, At, Decisions, Answers, Hellos
  <2>3. HelloSaid(said) /\ Used = HelloEndOf(said) /\ p.offered = MethodsIn(said, HelloEndOf(said))
    BY <2>2, HelloOver
  <2>4. UserPass \in OfferedOf(said)
    BY <2>1, <2>2, <2>3 DEF Method, MethodsIn, OfferedOf, UserPass, NoAuth, NoAcceptable
  <2>5. stm' = "AUTH_READ" /\ p' = [p EXCEPT !.at = "VERSION", !.ok = FALSE]
    BY <1>1, <1>7 DEF Arrived
  <2>6. p' \in Parsers /\ p'.at = "VERSION" /\ Unnamed(p') /\ Unasked(p')
    BY <1>2, <2>2, <2>5 DEF Parsers, Places, HelloAt, Unnamed, Unasked
  <2>7. Types' /\ Decisions'
    BY <1>1, <1>2, <2>5, <2>6 DEF Types, Decisions, ReadStates
  <2>8. Answers'
    BY <1>3, <1>7, <2>1, <2>2, <2>5 DEF Answers, ReadStates, WriteStates
  <2>9. Where(said)'
    <3>1. AuthAt(said, HelloEndOf(said), p', Used)
      BY <2>2, <2>3, <2>6 DEF AuthAt, HelloAt
    <3> QED  BY <1>1, <1>4, <2>3, <2>4, <2>5, <3>1 DEF Where, At, From, Hellos, Auths, Asks
  <2>10. Turns'
    BY <1>1, <2>1, <2>5 DEF Inv, Turns, Ends
  <2> QED  BY <1>4, <2>7, <2>8, <2>9, <2>10 DEF Inv
<1>8. CASE n = Len(wbuf) /\ Following = "REQUEST_READ"
  <2>1. stm' = "REQUEST_READ" /\ p' = [p EXCEPT !.at = "VERSION"]
    BY <1>1, <1>8 DEF Arrived
  <2>2. p' \in Parsers /\ p'.at = "VERSION" /\ p'.addr = p.addr /\ p'.port = p.port
    BY <1>2, <2>1 DEF Parsers, Places
  <2>3. Types' /\ Decisions'
    BY <1>1, <1>2, <2>1, <2>2 DEF Types, Decisions, ReadStates
  <2>4. Answers'
    BY <1>3, <1>8, <2>1 DEF Answers, ReadStates, WriteStates
  <2>5. Turns'
    BY <1>1, <2>1 DEF Inv, Turns, Ends, WriteStates
  <2>6. Where(said)'
    <3>1. CASE stm = "HELLO_WRITE"
      <4>1. p.selected = NoAuth
        BY <1>8, <3>1 DEF Following
      <4>2. HelloAt(said, p, Used) /\ p.at = "DONE" /\ p.selected = Method(p.offered, atHello)
            /\ got' = <<5, NoAuth>>
        BY <1>3, <1>8, <3>1, <4>1 DEF Inv, Where, At, Decisions, Answers, Hellos
      <4>3. /\ HelloSaid(said) /\ Used = HelloEndOf(said)
            /\ p.offered = MethodsIn(said, HelloEndOf(said))
        BY <4>2, HelloOver
      <4>4. NoAuth \in OfferedOf(said) /\ ~HasUsers(atHello)
        BY <4>1, <4>2, <4>3 DEF Method, MethodsIn, OfferedOf, UserPass, NoAuth, NoAcceptable
      <4>5. AskAt(said, HelloEndOf(said), p', Used)
        BY <2>2, <4>2, <4>3 DEF AskAt, HelloAt, Unasked
      <4> QED  BY <1>1, <1>4, <2>1, <4>2, <4>3, <4>4, <4>5
               DEF Where, At, From, AskFrom, Entitled, Hellos, Auths, Asks
    <3>2. CASE stm = "AUTH_WRITE"
      <4>1. p.ok /\ p.at = "DONE" /\ AuthAt(said, HelloEndOf(said), p, Used) /\ HelloSaid(said)
            /\ UserPass \in OfferedOf(said)
        BY <1>8, <3>2 DEF Following, Inv, Where, At, From, Hellos, Auths
      <4>2. got' = <<5, UserPass, 1, 0>>
        BY <1>3, <1>8, <3>2, <4>1 DEF Inv, Answers
      <4>3. Valid(atAuth, CString(p.uname), CString(p.passwd))
        BY <3>2, <4>1 DEF Inv, Decisions
      <4>4. Used \in Nat
        BY DEF Inv, Waiting
      <4>5. /\ AuthSaid(said) /\ p.uname = UsernameOf(said) /\ p.passwd = PasswordOf(said)
            /\ Used = AuthEndOf(said, HelloEndOf(said)) /\ Used <= Len(said)
        BY <1>2, <4>1, <4>4, AuthOver
      <4>6. AskAt(said, AuthEndOf(said, HelloEndOf(said)), p', Used)
        BY <2>2, <4>1, <4>5 DEF AskAt, AuthAt, Unasked
      <4>7. <<5, UserPass, 1, 0>> # <<5, NoAuth>>
        OBVIOUS
      <4>8. Entitled(said)'
        BY <1>1, <4>1, <4>2, <4>3, <4>5 DEF Entitled
      <4>9. AskFrom(said)' = AuthEndOf(said, HelloEndOf(said))
        BY <1>1, <4>2, <4>7 DEF AskFrom
      <4> QED  BY <1>1, <1>4, <2>1, <4>6, <4>8, <4>9 DEF Where, At, From, Hellos, Auths, Asks
    <3> QED  BY <1>1, <3>1, <3>2 DEF WriteStates
  <2> QED  BY <1>4, <2>3, <2>4, <2>5, <2>6 DEF Inv
<1> QED  BY <1>5, <1>6, <1>7, <1>8 DEF Following

(* A client that does not speak ahead says a message with an end.          *)
LEMMA SpeakKeeps ==
    ASSUME Inv, Speak
    PROVE  Inv'
<1>1. client \in Clients
  BY DEF Inv, Types
<1>2. ASSUME NEW m \in client.hellos, Say("hello", m) PROVE Inv'
  <2>1. m \in Text
    BY <1>1, NegotiationAssumption DEF Text
  <2>2. ~client.ahead => HelloFits(m)
    BY <1>1, OneAtATimeAssumption
  <2> QED  BY <1>2, <2>1, <2>2, SayKeeps
<1>3. ASSUME NEW m \in client.auths, Say("auth", m) PROVE Inv'
  <2>1. m \in Text
    BY <1>1, NegotiationAssumption DEF Text
  <2>2. ~client.ahead => AuthFits(m)
    BY <1>1, OneAtATimeAssumption
  <2> QED  BY <1>3, <2>1, <2>2, SayKeeps
<1>4. ASSUME NEW m \in client.requests, Say("request", m) PROVE Inv'
  <2>1. m \in Text
    BY <1>1, NegotiationAssumption DEF Text
  <2> QED  BY <1>4, <2>1, SayKeeps
<1> QED  BY <1>2, <1>3, <1>4 DEF Speak

(* A decision stands when the table changes after it.                      *)
LEMMA ManageKeeps ==
    ASSUME Inv, Manage
    PROVE  Inv'
<1>1. users \in Tables
  BY DEF Inv, Types
<1>2. users' \in Tables
  BY <1>1, AddedKeeps, DeletedKeeps DEF Manage, Change, AddUser, DelUser
<1>3. UNCHANGED <<client, said, spoken, fin, got, taken, rbuf, wbuf, stm, p, reply, atHello, atAuth>>
  BY DEF Manage, clientVars, serverVars
<1>4. Types'
  BY <1>2, <1>3 DEF Inv, Types
<1>5. (Where(said) /\ Decisions /\ Answers /\ Waiting(rbuf, said, Used) /\ Turns)'
  BY <1>3 DEF Inv, Where, At, From, AskFrom, Entitled, Used, Decisions, Answers, Turns
<1> QED  BY <1>4, <1>5 DEF Inv

(* A connection that closes keeps what it knows.                           *)
LEMMA CloseKeeps ==
    ASSUME Inv, stm' = "CLOSED",
           UNCHANGED <<users, clientVars, got, taken, rbuf, wbuf, p, reply, atHello, atAuth>>
    PROVE  Inv'
<1>1. UNCHANGED <<users, client, said, spoken, fin, got, taken, rbuf, wbuf, p, reply,
                  atHello, atAuth>>
  BY DEF clientVars
<1>2. Types' /\ Decisions' /\ Answers' /\ Turns' /\ Where(said)'
  BY <1>1 DEF Inv, Types, Decisions, Answers, Turns, Where, At, Hellos, Auths, Asks,
              ReadStates, WriteStates, Ends
<1>3. Waiting(rbuf, said, Used)'
  BY <1>1 DEF Inv, Used
<1> QED  BY <1>2, <1>3 DEF Inv

(* The end of the stream, or a step of somebody else.                      *)
LEMMA UnchangedKeeps ==
    ASSUME Inv, UNCHANGED <<users, client, said, spoken, got, taken, rbuf, wbuf, stm, p, reply,
                            atHello, atAuth>>
    PROVE  Inv'
<1>1. (Types /\ Where(said) /\ Decisions /\ Answers /\ Waiting(rbuf, said, Used) /\ Turns)'
  BY DEF Inv, Types, Where, At, From, AskFrom, Entitled, Used, Decisions, Answers, Turns
<1> QED  BY <1>1 DEF Inv

(* A new connection.                                                       *)
LEMMA InitHolds ==
    ASSUME Init
    PROVE  Inv
<1>1. /\ client \in Clients /\ said = <<>> /\ spoken = "nothing" /\ got = <<>> /\ taken = 0
      /\ rbuf = Empty /\ wbuf = <<>> /\ stm = "HELLO_READ" /\ reply = NoReply
      /\ p = [Zeroed EXCEPT !.selected = NoAcceptable]
  BY DEF Init
<1>2. users \in Tables
  <2>1. PICK c \in CommandLines : users = Loaded(c)
    BY DEF Init, TableInit
  <2>2. c \in Seq(Accounts)
    BY UserAssumption
  <2>3. \A i \in Slots : i <= Len(c) => c[i] \in Accounts
    BY <2>2, UserAssumption DEF Slots
  <2> QED  BY <2>1, <2>3 DEF Loaded, Tables
<1>3. <<>> \in Text /\ 0 \in Byte /\ 255 \in Byte
  BY DEF Text, Byte
<1>4. p \in Parsers /\ p.at = "VERSION" /\ p.offered = {} /\ Unnamed(p) /\ Unasked(p)
  BY ZenonT(30), <1>1, <1>3 DEF Zeroed, Parsers, Places, NoAcceptable, Unnamed, Unasked
<1>5. Used = 0 /\ rbuf.read = 0 /\ rbuf.write = 0 /\ rbuf \in Buffers /\ Count(rbuf) = 0
  BY <1>1, BufferAssumption DEF Used, Count, Empty, Buffers
<1>6. Types
  BY <1>1, <1>2, <1>3, <1>4 DEF Types, ReadStates
<1>7. Where(said)
  BY <1>1, <1>4, <1>5 DEF Where, At, HelloAt, Hellos, Auths, Asks
<1>8. Decisions /\ Answers
  BY <1>1, <1>3 DEF Decisions, Answers, ReadStates, WriteStates
<1>9. Waiting(rbuf, said, Used)
  BY <1>1, <1>5 DEF Waiting
<1>10. Turns
  BY <1>1, <1>5 DEF Turns
<1> QED  BY <1>6, <1>7, <1>8, <1>9, <1>10 DEF Inv

(* Every step keeps the invariant, action by action.                       *)
LEMMA NextKeeps ==
    ASSUME Inv, [Next]_vars
    PROVE  Inv'
<1>1. CASE Speak
  BY <1>1, SpeakKeeps
<1>2. CASE Finish
  BY <1>2, UnchangedKeeps DEF Finish, serverVars
<1>3. CASE Manage
  BY <1>3, ManageKeeps
<1>4. CASE ReadEnd
  BY <1>4, CloseKeeps DEF ReadEnd
<1>5. CASE Drop
  BY <1>5, CloseKeeps DEF Drop
<1>6. CASE Ended \/ UNCHANGED vars
  BY <1>6, UnchangedKeeps DEF Ended, vars, clientVars, serverVars
<1>7. ASSUME NEW n \in 1 .. Size, Read(n) PROVE Inv'
  BY <1>7, ReadKeeps
<1>8. ASSUME NEW n \in 1 .. Size, Write(n) PROVE Inv'
  BY <1>8, WriteKeeps
<1> QED  BY <1>1, <1>2, <1>3, <1>4, <1>5, <1>6, <1>7, <1>8 DEF Next

(* The invariant holds in every reachable state.                           *)
LEMMA InvHolds == Spec => []Inv
BY InitHolds, NextKeeps, PTL DEF Spec

-----------------------------------------------------------------------------
(* What the invariant says *)

(* The places of Negotiation are those of the text said.                   *)
LEMMA HelloPlaces == HelloEnd = HelloEndOf(said) /\ Offered = OfferedOf(said)
BY DEF HelloEnd, HelloEndOf, Offered, OfferedOf

(* The same for a username/password message.                               *)
LEMMA AuthPlaces ==
    ASSUME said \in Text, AuthSaid(said)
    PROVE  /\ AuthEnd = AuthEndOf(said, HelloEndOf(said)) /\ HelloEndOf(said) \in Nat
           /\ Username = UsernameOf(said) /\ Password = PasswordOf(said)
<1> DEFINE a == HelloEndOf(said)
<1>1. HelloSaid(said) /\ a + 1 < Len(said)
  BY DEF AuthSaid
<1>2. a \in Nat /\ Len(said) \in Nat
  BY <1>1, GrownItself, HelloGrows
<1>3. said[a + 2] \in Nat
  <2>1. a + 2 \in 1 .. Len(said)
    BY <1>1, <1>2
  <2> QED  BY <2>1, TextBytes
<1>4. UlenAt = a + 2
  BY HelloPlaces DEF UlenAt
<1>5. PlenAt = PlenOf(said, a)
  BY <1>2, <1>3, <1>4 DEF PlenAt, PlenOf
<1>6. UlenAt + 1 = a + 3
  BY <1>2, <1>4
<1> QED  BY <1>2, <1>5, <1>6, HelloPlaces DEF AuthEnd, AuthEndOf, Username, UsernameOf, Password, PasswordOf

(* The same for the start of the request.                                  *)
LEMMA AskPlaces ==
    ASSUME said \in Text, Entitled(said)
    PROVE  RequestAt = AskFrom(said) /\ AskFrom(said) \in Nat
<1>1. CASE got = <<5, NoAuth>> /\ HelloSaid(said)
  <2>1. HelloEndOf(said) \in Nat
    BY <1>1, GrownItself, HelloGrows
  <2> QED  BY <1>1, <2>1, HelloPlaces DEF RequestAt, AskFrom
<1>2. CASE got = <<5, UserPass, 1, 0>> /\ AuthSaid(said)
  <2>1. AuthEndOf(said, HelloEndOf(said)) \in Nat
    BY <1>2, GrownItself, AuthGrows
  <2>2. got # <<5, NoAuth>>
    BY <1>2
  <2> QED  BY <1>2, <2>1, <2>2, AuthPlaces DEF RequestAt, AskFrom
<1> QED  BY <1>1, <1>2 DEF Entitled

(* The first three bytes of a message.                                     *)
LEMMA ThreeBytes ==
    ASSUME NEW s \in Text, NEW a \in Nat, a + 3 <= Len(s)
    PROVE  SubSeq(s, a + 1, a + 3) = <<s[a + 1], s[a + 2], s[a + 3]>>
<1> DEFINE x == SubSeq(s, a + 1, a + 3)
           y == <<s[a + 1], s[a + 2], s[a + 3]>>
<1>1. Len(s) \in Nat /\ s \in Seq(Byte)
  BY TextBytes DEF Text
<1>2. s[a + 1] \in Byte /\ s[a + 2] \in Byte /\ s[a + 3] \in Byte
  <2>1. a + 1 \in 1 .. Len(s) /\ a + 2 \in 1 .. Len(s) /\ a + 3 \in 1 .. Len(s)
    BY <1>1
  <2> QED  BY <2>1, TextBytes
<1>3. /\ x \in Seq(Byte) /\ Len(x) = 3
      /\ x[1] = s[a + 1] /\ x[2] = s[a + 2] /\ x[3] = s[a + 3]
  BY <1>1
<1>4. y \in Seq(Byte) /\ Len(y) = 3 /\ y[1] = s[a + 1] /\ y[2] = s[a + 2] /\ y[3] = s[a + 3]
  BY <1>2
<1> HIDE DEF x, y
<1>5. \A i \in 1 .. 3 : x[i] = y[i]
  <2>1. \A i \in 1 .. 3 : i = 1 \/ i = 2 \/ i = 3
    OBVIOUS
  <2> QED  BY <1>3, <1>4, <2>1
<1>6. x = y
  BY <1>3, <1>4, <1>5, SeqEqual
<1> QED  BY <1>6 DEF x, y

(* The type invariant is part of the invariant.                            *)
LEMMA InvTypes == Inv => TypeOK
<1> SUFFICES ASSUME Inv PROVE TypeOK
  OBVIOUS
<1>1. p.left \in 0 .. 255 /\ p.offered \subseteq {NoAuth, UserPass}
  BY DEF Inv, Types, Parsers, Byte
<1>2. rbuf \in Buffers /\ rbuf.read <= rbuf.write
  BY DEF Inv, Waiting
<1> QED  BY <1>1, <1>2 DEF Inv, Types, TypeOK

(* A message that was parsed to its end is whole, and says what it says.   *)
LEMMA InvFields == Inv => FieldsAreTrue
<1> SUFFICES ASSUME Inv PROVE FieldsAreTrue
  OBVIOUS
<1>1. said \in Text /\ p \in Parsers /\ Used \in Nat /\ Where(said)
  BY DEF Inv, Types, Waiting
<1>2. ASSUME stm = "HELLO_WRITE" PROVE Used = HelloEnd /\ said[1] = 5
  BY <1>1, <1>2, HelloPlaces DEF Where, At, HelloAt, Hellos
<1>3. ASSUME stm = "AUTH_WRITE"
      PROVE  /\ Used = AuthEnd /\ said[HelloEnd + 1] = 1
             /\ p.uname = Username /\ p.passwd = Password
  <2>1. AuthAt(said, HelloEndOf(said), p, Used) /\ p.at = "DONE" /\ HelloSaid(said)
    BY <1>1, <1>3 DEF Where, At, From, Hellos, Auths
  <2>2. /\ AuthSaid(said) /\ p.uname = UsernameOf(said) /\ p.passwd = PasswordOf(said)
        /\ Used = AuthEndOf(said, HelloEndOf(said)) /\ said[HelloEndOf(said) + 1] = 1
    BY <1>1, <2>1, AuthOver
  <2> QED  BY <1>1, <2>2, AuthPlaces, HelloPlaces
<1>4. ASSUME stm = "SERVED"
      PROVE  /\ Used = AddrEnd + 2
             /\ SubSeq(said, RequestAt + 1, RequestAt + 3) = <<5, 1, 0>>
             /\ p.addr = Addr
             /\ p.port = SubSeq(said, AddrEnd + 1, AddrEnd + 2)
  <2> DEFINE a == AskFrom(said)
  <2>1. p.at = "DONE" /\ p.cmd = 1 /\ AskAt(said, a, p, Used) /\ Entitled(said)
    BY <1>1, <1>4 DEF Where, At, From, Hellos, Auths, Asks
  <2>2. RequestAt = a /\ a \in Nat
    BY <1>1, <2>1, AskPlaces
  <2> HIDE DEF a
  <2>3. /\ Used > a + 3 /\ Used <= Len(said) /\ said[a + 1] = 5 /\ said[a + 2] = 1
        /\ said[a + 3] = 0 /\ said[a + 4] \in {IPv4, IPv6, FQDN}
        /\ said[a + 4] = FQDN => Used > a + 4
        /\ p.addr = SubSeq(said, AddrFrom(said, a), AddrEndOf(said, a))
        /\ p.port = SubSeq(said, AddrEndOf(said, a) + 1, Used)
        /\ Used = AddrEndOf(said, a) + 2
    BY <2>1 DEF AskAt
  <2>4. AddrEnd = AddrEndOf(said, a)
    BY <2>2 DEF AddrEnd, AddrEndOf, Atyp
  <2>5. Addr = SubSeq(said, AddrFrom(said, a), AddrEndOf(said, a))
    BY <2>2, <2>4 DEF Addr, AddrFrom, Atyp
  <2>6. SubSeq(said, a + 1, a + 3) = <<5, 1, 0>>
    <3>1. Len(said) \in Nat /\ a + 3 <= Len(said)
      BY <1>1, <2>2, <2>3, TextBytes
    <3>2. SubSeq(said, a + 1, a + 3) = <<said[a + 1], said[a + 2], said[a + 3]>>
      BY <1>1, <2>2, <3>1, ThreeBytes
    <3> QED  BY <2>3, <3>2
  <2> QED  BY <2>2, <2>3, <2>4, <2>5, <2>6
<1> QED  BY <1>2, <1>3, <1>4 DEF FieldsAreTrue

(* The answers come before the message that follows them.                  *)
LEMMA InvAnswers == Inv => AnswersComeFirst
BY DEF Inv, Answers, Where, Entitled, AnswersComeFirst

(* For any size of the buffer and any messages: however recv() splits and  *)
(* joins the stream, the loops around hello_feed(), auth_feed() and        *)
(* request_feed() use exactly the bytes of their message and take from     *)
(* them what it says, and no handler waits for a message before the answer *)
(* to the one before it was sent (hello_on_write_ready(),                  *)
(* auth_on_write_ready()).                                                 *)
THEOREM HandlersReadWholeMessages == Spec => []MessagesAreWhole
<1>1. Inv => MessagesAreWhole
  BY InvTypes, InvFields, InvAnswers DEF MessagesAreWhole
<1> QED  BY <1>1, InvHolds, PTL

(* The method answered was offered, and follows the table of its moment.   *)
LEMMA InvMethod == Inv => MethodIsAcceptable
<1> SUFFICES ASSUME Inv, stm = "HELLO_WRITE"
             PROVE  /\ p.selected \in Offered \cup {NoAcceptable}
                    /\ p.selected = NoAuth => ~HasUsers(atHello)
                    /\ p.selected = NoAcceptable =>
                          UserPass \notin Offered /\ (NoAuth \in Offered => HasUsers(atHello))
  BY DEF MethodIsAcceptable
<1>1. p.selected = Method(p.offered, atHello) /\ p.at = "DONE" /\ HelloAt(said, p, Used)
  BY DEF Inv, Decisions, Where, At, Hellos
<1>2. p.offered = Offered \cap {NoAuth, UserPass}
  BY <1>1, HelloOver, HelloPlaces DEF MethodsIn, OfferedOf
<1> QED  BY <1>1, <1>2 DEF Method, NoAuth, UserPass, NoAcceptable

(* Who is past the authentication was let in by what it said.              *)
LEMMA InvEntitled == Inv => EntitledOnly
<1> SUFFICES ASSUME Inv PROVE EntitledOnly
  OBVIOUS
<1>1. said \in Text /\ p \in Parsers /\ Used \in Nat /\ Where(said)
  BY DEF Inv, Types, Waiting
<1>2. ASSUME stm = "AUTH_WRITE"
      PROVE  p.ok <=> Valid(atAuth, CString(Username), CString(Password))
  <2>1. p.uname = Username /\ p.passwd = Password
    BY <1>2, InvFields DEF FieldsAreTrue
  <2> QED  BY <1>2, <2>1 DEF Inv, Decisions
<1>3. ASSUME stm \in {"REQUEST_READ", "REQUEST_WRITE", "SERVED"}
      PROVE  \/ got = <<5, NoAuth>> /\ NoAuth \in Offered /\ ~HasUsers(atHello)
             \/ /\ got = <<5, UserPass, 1, 0>> /\ UserPass \in Offered
                /\ Valid(atAuth, CString(Username), CString(Password))
  BY <1>1, <1>3, HelloPlaces, AuthPlaces DEF Where, Entitled
<1> QED  BY <1>2, <1>3 DEF EntitledOnly

(* For any tables and any commands between a client's messages: the method *)
(* follows the table when it was offered (hello_on_read_ready(),           *)
(* socks5_has_users()), name and password the table when they were looked  *)
(* up (socks5_validate_user()), and a request is read from nobody else.    *)
THEOREM NobodyElseIsServed == Spec => []OnlyUsersAreServed
<1>1. Inv => OnlyUsersAreServed
  BY InvMethod, InvEntitled DEF OnlyUsersAreServed
<1> QED  BY <1>1, InvHolds, PTL

(* For any clients that wait for each answer: buffer_read_adv() has        *)
(* emptied read_buffer and put it back to its start whenever a handler     *)
(* waits, so that every recv() of socks_recv() has all of it.              *)
THEOREM BufferIsFreeAgain == Spec => []NothingLeftBehind
<1>1. Inv => NothingLeftBehind
  <2> SUFFICES ASSUME Inv, ~client.ahead, stm \notin Ends
               PROVE  Count(rbuf) = 0 /\ Space(rbuf) = Size
    BY DEF NothingLeftBehind
  <2>1. rbuf.read = rbuf.write
    BY DEF Inv, Turns
  <2>2. rbuf.write = 0 /\ Size \in Nat
    BY <2>1, BufferAssumption DEF Inv, Waiting
  <2> QED  BY <2>1, <2>2 DEF Count, Space
<1> QED  BY <1>1, InvHolds, PTL
=============================================================================
