--------------------------- MODULE Selector_proofs ---------------------------
(***************************************************************************)
(* Proofs about Selector: for any number of connections, any descriptors   *)
(* the kernel may give and any limit of an fd_set, with the table the      *)
(* server makes.                                                           *)
(***************************************************************************)
EXTENDS Selector, WellFoundedInduction, TLAPS

-----------------------------------------------------------------------------
(* Least and greatest numbers *)

(* A set of numbers that is not empty has a least one.                     *)
LEMMA LeastNumber ==
    ASSUME NEW S \in SUBSET Nat, S # {}
    PROVE  \E x \in S : \A y \in S : x <= y
<1>1. PICK x \in S : \A y \in S : ~ (<<y, x>> \in OpToRel(<, Nat))
  BY WFMin, NatLessThanWellFounded
<1>2. \A y \in S : ~(y < x)
  BY <1>1 DEF OpToRel
<1> QED  BY <1>2

(* A set of numbers with an upper bound that is not empty has a greatest.  *)
LEMMA GreatestNumber ==
    ASSUME NEW S \in SUBSET Nat, S # {}, NEW b \in Nat, \A x \in S : x <= b
    PROVE  \E x \in S : \A y \in S : y <= x
<1> DEFINE D == {b - x : x \in S}
<1>1. D \in SUBSET Nat /\ D # {}
  <2>1. \A x \in S : x \in Nat /\ x <= b /\ b - x \in Nat
    OBVIOUS
  <2> QED  BY <2>1
<1>2. PICK d \in D : \A e \in D : d <= e
  BY <1>1, LeastNumber
<1>3. PICK x \in S : d = b - x
  BY <1>2
<1>4. ASSUME NEW y \in S PROVE y <= x
  <2>1. d <= b - y
    BY <1>2
  <2> QED  BY <1>3, <2>1
<1> QED  BY <1>4

(* The kernel gives a number that is not taken.                            *)
LEMMA LowestIsFree ==
    ASSUME NEW held, Opens(held)
    PROVE  Lowest(held) \in Numbers \ held
<1>1. \E f \in Numbers \ held : \A g \in Numbers \ held : f <= g
  BY LeastNumber, SelectorAssumption DEF Opens
<1> QED  BY <1>1 DEF Lowest

-----------------------------------------------------------------------------
(* The table *)

Interests == SUBSET {"r", "w"}

Items == [Numbers -> [owner : Conns \cup {Passive, None}, interest : Interests]]

Records == [size : {ITEMS_MAX_SIZE + 1}, item : Items, max : Numbers,
            r : SUBSET Numbers, w : SUBSET Numbers]

(* One item of a table is another, or is of another interest.              *)
WithItem(items, f, o, x) == [items EXCEPT ![f] = [owner |-> o, interest |-> x]]

WithInterest(items, f, x) == [items EXCEPT ![f].interest = x]

(* What every operation of the selector leaves behind.                     *)
Table(s) ==
    /\ s \in Records
    /\ s.r = {f \in Used(s) : "r" \in s.item[f].interest}
    /\ s.w = {f \in Used(s) : "w" \in s.item[f].interest}
    /\ s.max \in Used(s) /\ \A f \in Used(s) : f <= s.max
    /\ \A f \in Used(s) : f < ITEMS_MAX_SIZE
    /\ 0 \in Used(s)

(* The sets of t are those of s, brought up to date for f.                 *)
UpToDate(t, s, f) ==
    /\ t \in Records /\ t.item = s.item /\ t.max = s.max
    /\ \A g \in Numbers : g \in t.r <=> IF g = f THEN "r" \in s.item[f].interest ELSE g \in s.r
    /\ \A g \in Numbers : g \in t.w <=> IF g = f THEN "w" \in s.item[f].interest ELSE g \in s.w

LEMMA RefreshedFacts ==
    ASSUME NEW s \in Records, NEW f \in Numbers
    PROVE  UpToDate(Refreshed(s, f), s, f)
BY DEF Refreshed, Records, UpToDate

(* A table with all its places does not grow.                              *)
LEMMA NeverGrows ==
    ASSUME NEW s, NEW f \in Numbers, Table(s)
    PROVE  Grown(s, f) = s
<1>1. s.size = ITEMS_MAX_SIZE + 1 /\ ITEMS_MAX_SIZE \in Nat /\ f \in Nat
  BY SelectorAssumption DEF Table, Records
<1>2. CASE f > s.size
  BY <1>1, <1>2 DEF Grown, Ensured
<1>3. CASE ~(f > s.size)
  BY <1>3 DEF Grown
<1> QED  BY <1>2, <1>3

(* selector_set_interest() changes the interest of one item.               *)
LEMMA InterestedFacts ==
    ASSUME NEW s, Table(s), NEW f \in Used(s), NEW x \in Interests
    PROVE  /\ Table(Interested(s, f, x))
           /\ Interested(s, f, x).item = WithInterest(s.item, f, x)
           /\ Used(Interested(s, f, x)) = Used(s)
<1> DEFINE c == [s EXCEPT !.item[f].interest = x]
           t == Interested(s, f, x)
<1>1. f \in Numbers /\ f \in Nat /\ f < ITEMS_MAX_SIZE /\ ITEMS_MAX_SIZE \in Nat
  BY SelectorAssumption DEF Table, Used, Records
<1>2. t = Refreshed(c, f)
  BY <1>1 DEF Interested, Invalid
<1>3. /\ c \in Records
      /\ c.item = [s.item EXCEPT ![f].interest = x] /\ c.r = s.r /\ c.w = s.w /\ c.max = s.max
      /\ c.item \in Items
  <2>1. s \in Records
    BY DEF Table
  <2>2. [s.item EXCEPT ![f].interest = x] \in Items
    BY <1>1, <2>1 DEF Records, Items
  <2> QED  BY <2>1, <2>2 DEF Records
<1> HIDE DEF c, t
<1>4. /\ t \in Records
      /\ t.item = c.item /\ t.max = s.max
      /\ \A g \in Numbers :
             g \in t.r <=> IF g = f THEN "r" \in c.item[f].interest ELSE g \in s.r
      /\ \A g \in Numbers :
             g \in t.w <=> IF g = f THEN "w" \in c.item[f].interest ELSE g \in s.w
  <2>1. UpToDate(Refreshed(c, f), c, f)
    BY <1>1, <1>3, RefreshedFacts
  <2> QED  BY <1>2, <1>3, <2>1 DEF UpToDate
<1>5. /\ \A g \in Numbers : t.item[g].owner = s.item[g].owner
      /\ \A g \in Numbers \ {f} : t.item[g].interest = s.item[g].interest
  BY <1>3, <1>4 DEF Table, Items, Interests, Records
<1>6. Used(t) = Used(s)
  BY <1>5 DEF Used
<1>7. t.r = {g \in Used(t) : "r" \in t.item[g].interest}
  <2>1. \A g \in Numbers \ {f} : g \in s.r <=> g \in Used(t) /\ "r" \in t.item[g].interest
    BY <1>5, <1>6 DEF Table
  <2>2. f \in Used(t)
    BY <1>1, <1>6
  <2> QED  BY <1>1, <1>4, <2>1, <2>2 DEF Records, Used
<1>8. t.w = {g \in Used(t) : "w" \in t.item[g].interest}
  <2>1. \A g \in Numbers \ {f} : g \in s.w <=> g \in Used(t) /\ "w" \in t.item[g].interest
    BY <1>5, <1>6 DEF Table
  <2>2. f \in Used(t)
    BY <1>1, <1>6
  <2> QED  BY <1>1, <1>4, <2>1, <2>2 DEF Records, Used
<1>9. Table(t)
  BY <1>4, <1>6, <1>7, <1>8 DEF Table
<1> QED  BY <1>3, <1>4, <1>6, <1>9 DEF t, WithInterest

(* selector_register() fills one free item.                                *)
LEMMA RegisteredFacts ==
    ASSUME NEW s, Table(s), NEW f \in Numbers, Registers(s, f),
           NEW o \in Conns \cup {Passive}, NEW x \in Interests
    PROVE  /\ f \notin Used(s)
           /\ Table(Registered(s, f, o, x))
           /\ Registered(s, f, o, x).item = WithItem(s.item, f, o, x)
           /\ Used(Registered(s, f, o, x)) = Used(s) \cup {f}
<1> DEFINE d == [s EXCEPT !.item[f] = [owner |-> o, interest |-> x]]
           c == [d EXCEPT !.max = IF f > @ THEN f ELSE @]
           t == Registered(s, f, o, x)
<1>1. f \in Nat /\ f < ITEMS_MAX_SIZE /\ f \notin Used(s) /\ ITEMS_MAX_SIZE \in Nat /\ o # None
      /\ Numbers \subseteq Nat
  BY NeverGrows, SelectorAssumption DEF Registers, Invalid
<1>2. t = Refreshed(c, f)
  BY NeverGrows DEF Registered
<1>3. /\ c \in Records
      /\ c.item = [s.item EXCEPT ![f] = [owner |-> o, interest |-> x]]
      /\ c.r = s.r /\ c.w = s.w /\ c.max = IF f > s.max THEN f ELSE s.max
      /\ c.item \in Items
  BY <1>1 DEF Table, Items, Interests, Records
<1> HIDE DEF c, t
<1>4. /\ t \in Records
      /\ t.item = c.item /\ t.max = c.max
      /\ \A g \in Numbers :
             g \in t.r <=> IF g = f THEN "r" \in c.item[f].interest ELSE g \in s.r
      /\ \A g \in Numbers :
             g \in t.w <=> IF g = f THEN "w" \in c.item[f].interest ELSE g \in s.w
  <2>1. UpToDate(Refreshed(c, f), c, f)
    BY <1>1, <1>3, RefreshedFacts
  <2> QED  BY <1>2, <1>3, <2>1 DEF UpToDate
<1>5. /\ \A h \in Numbers \ {f} : t.item[h] = s.item[h]
      /\ t.item[f].owner = o
  BY <1>3, <1>4 DEF Table, Items, Interests, Records
<1>6. Used(t) = Used(s) \cup {f}
  BY <1>1, <1>5 DEF Used
<1>7. t.r = {h \in Used(t) : "r" \in t.item[h].interest}
  <2>1. \A h \in Numbers \ {f} : h \in s.r <=> h \in Used(t) /\ "r" \in t.item[h].interest
    BY <1>5, <1>6 DEF Table
  <2>2. f \in Used(t)
    BY <1>1, <1>6
  <2> QED  BY <1>1, <1>4, <2>1, <2>2 DEF Records, Used
<1>8. t.w = {h \in Used(t) : "w" \in t.item[h].interest}
  <2>1. \A h \in Numbers \ {f} : h \in s.w <=> h \in Used(t) /\ "w" \in t.item[h].interest
    BY <1>5, <1>6 DEF Table
  <2>2. f \in Used(t)
    BY <1>1, <1>6
  <2> QED  BY <1>1, <1>4, <2>1, <2>2 DEF Records, Used
<1>9. t.max \in Used(t) /\ \A h \in Used(t) : h <= t.max
  <2>1. s.max \in Used(s) /\ s.max \in Nat /\ \A h \in Used(s) : h <= s.max /\ h \in Nat
    BY <1>1 DEF Table, Used, Records
  <2> QED  BY <1>1, <1>3, <1>4, <1>6, <2>1
<1>10. Table(t)
  BY <1>1, <1>4, <1>6, <1>7, <1>8, <1>9 DEF Table
<1> QED  BY <1>1, <1>3, <1>4, <1>6, <1>10 DEF t, WithItem

(* selector_unregister_fd() empties one item.                              *)
LEMMA UnregisteredFacts ==
    ASSUME NEW s, Table(s), NEW f \in Used(s), f # 0
    PROVE  /\ Table(Unregistered(s, f))
           /\ Unregistered(s, f).item = [s.item EXCEPT ![f] = Unused]
           /\ Used(Unregistered(s, f)) = Used(s) \ {f}
<1> DEFINE c == [s EXCEPT !.item[f].interest = {}]
           quiet == Refreshed(c, f)
           without == [quiet EXCEPT !.item[f] = Unused]
           t == Unregistered(s, f)
<1>1. f \in Numbers /\ f \in Nat /\ f < ITEMS_MAX_SIZE /\ ITEMS_MAX_SIZE \in Nat
      /\ Numbers \subseteq Nat
  BY SelectorAssumption DEF Table, Used, Records
<1>2. t = [without EXCEPT !.max = Highest(without)]
  BY <1>1 DEF Unregistered, Invalid
<1>3. /\ c \in Records
      /\ c.item = [s.item EXCEPT ![f].interest = {}] /\ c.r = s.r /\ c.w = s.w /\ c.max = s.max
      /\ c.item \in Items /\ c.item[f].interest = {}
  <2>1. s \in Records
    BY DEF Table
  <2>2. /\ [s.item EXCEPT ![f].interest = {}] \in Items
        /\ [s.item EXCEPT ![f].interest = {}][f].interest = {}
    BY <1>1, <2>1 DEF Records, Items, Interests
  <2> QED  BY <2>1, <2>2 DEF Records
<1> HIDE DEF c
<1>4. /\ quiet \in Records
      /\ quiet.item = c.item /\ quiet.max = s.max
      /\ quiet.r = s.r \ {f} /\ quiet.w = s.w \ {f}
  <2>1. UpToDate(quiet, c, f)
    BY <1>1, <1>3, RefreshedFacts
  <2>2. quiet.r \in SUBSET Numbers /\ quiet.w \in SUBSET Numbers
        /\ s.r \in SUBSET Numbers /\ s.w \in SUBSET Numbers
    BY <2>1 DEF UpToDate, Records, Table
  <2>3. \A g \in Numbers : g \in quiet.r <=> g \in s.r \ {f}
    BY <1>3, <2>1 DEF UpToDate
  <2>4. \A g \in Numbers : g \in quiet.w <=> g \in s.w \ {f}
    BY <1>3, <2>1 DEF UpToDate
  <2> QED  BY <1>3, <2>1, <2>2, <2>3, <2>4 DEF UpToDate
<1> HIDE DEF quiet
<1>5. [quiet.item EXCEPT ![f] = Unused] = [s.item EXCEPT ![f] = Unused]
  BY <1>1, <1>3, <1>4 DEF Table, Items, Interests, Records
<1>6. /\ without \in Records
      /\ without.item = [s.item EXCEPT ![f] = Unused] /\ without.max = s.max
      /\ without.r = s.r \ {f} /\ without.w = s.w \ {f}
  BY <1>1, <1>4, <1>5 DEF Unused, Items, Interests, Records
<1> HIDE DEF without
<1>7. /\ \A h \in Numbers \ {f} : without.item[h] = s.item[h]
      /\ without.item[f].owner = None
  BY <1>1, <1>6 DEF Table, Records, Items, Unused
<1>8. Used(without) = Used(s) \ {f}
  <2>1. \A h \in Numbers \ {f} : without.item[h].owner = s.item[h].owner
    BY <1>7
  <2> QED  BY <1>1, <1>7, <2>1 DEF Used
<1>9. Highest(without) \in Used(without) /\ \A h \in Used(without) : h <= Highest(without)
  <2> DEFINE U == {h \in Used(without) : h <= without.max}
  <2>1. U = Used(without) /\ 0 \in U /\ s.max \in Nat /\ U \in SUBSET Nat
        /\ \A h \in U : h <= s.max
    BY <1>1, <1>6, <1>8 DEF Table, Used, Records
  <2>2. PICK m \in U : \A h \in U : h <= m
    BY <2>1, GreatestNumber
  <2>3. \E k \in Numbers :
           /\ k = 0 \/ k \in {h \in Used(without) : h <= without.max}
           /\ \A h \in Used(without) : h <= without.max => h <= k
    BY <2>1, <2>2 DEF Used
  <2>4. /\ Highest(without) = 0 \/ Highest(without) \in U
        /\ \A h \in Used(without) : h <= without.max => h <= Highest(without)
    BY <2>3 DEF Highest
  <2> QED  BY <2>1, <2>4
<1>10. /\ t \in Records
       /\ t.item = without.item /\ t.max = Highest(without)
       /\ t.r = without.r /\ t.w = without.w
  <2>1. Highest(without) \in Numbers
    BY <1>9 DEF Used
  <2> HIDE DEF without
  <2> QED  BY <1>2, <1>6, <2>1 DEF Records
<1>11. Used(t) = Used(without)
  BY <1>10 DEF Used
<1> HIDE DEF t
<1>12. t.r = {h \in Used(t) : "r" \in t.item[h].interest}
  BY <1>6, <1>7, <1>8, <1>10, <1>11 DEF Table, Used, Records
<1>13. t.w = {h \in Used(t) : "w" \in t.item[h].interest}
  BY <1>6, <1>7, <1>8, <1>10, <1>11 DEF Table, Used, Records
<1>14. Table(t)
  BY <1>1, <1>8, <1>9, <1>10, <1>11, <1>12, <1>13 DEF Table
<1> QED  BY <1>6, <1>8, <1>10, <1>11, <1>14 DEF t

-----------------------------------------------------------------------------
(* The inductive invariant *)

ConnTypes ==
    /\ client \in [Conns -> Numbers \cup {None}] /\ origin \in [Conns -> Numbers \cup {None}]
    /\ state \in [Conns -> {"none", "request", "connecting", "succeeded", "refused", "copy"}]
    /\ tcp \in [Conns -> {"none", "pending", "made", "failed"}]
    /\ reopened \subseteq Conns

(* The descriptors of a connection.                                        *)
Mine(c) == {client[c], origin[c]} \ {None}

(* Item 0 is the passive socket's; the others in use are the connections'. *)
Holding ==
    /\ sel.item[0].owner = Passive
    /\ Used(sel) = Held \ {None}
    /\ \A c \in Conns : \A f \in Mine(c) : sel.item[f].owner = c

(* What a connection has in each state.  A handler that waits for the      *)
(* origin's answer watches nothing else, and what was reported of a number *)
(* before it was the connection's leaves a trace in reopened.              *)
Phase(c) ==
    /\ state[c] = "none" => client[c] = None
    /\ state[c] # "none" => client[c] # None /\ client[c] # origin[c]
    /\ state[c] \in {"none", "request", "refused"} => origin[c] = None /\ tcp[c] = "none"
    /\ state[c] \in {"connecting", "succeeded", "copy"} => origin[c] # None /\ tcp[c] # "none"
    /\ state[c] = "connecting" =>
          sel.item[client[c]].interest = {} /\ sel.item[origin[c]].interest = {"w"}
    /\ state[c] \in {"succeeded", "copy"} /\ tcp[c] # "made" => c \in reopened
    /\ tcp[c] = "pending" /\ origin[c] \in slave_w => c \in reopened

Phases == \A c \in Conns : Phase(c)

(* An event that is owed has its place in what remains of the iteration.   *)
Ahead(e) ==
    /\ e[1] \in Used(sel) /\ e[2] \in sel.item[e[1]].interest
    /\ e[1] <= n /\ pc \in {"read", "write"}
    /\ \/ e[2] = "r" /\ e[1] \in slave_r /\ i <= e[1] /\ (pc = "write" => i # e[1])
       \/ e[2] = "w" /\ e[1] \in slave_w /\ i <= e[1]

Iteration ==
    /\ slave_r \subseteq Numbers /\ slave_w \subseteq Numbers
    /\ pc \in {"select", "read", "write", "loop"}
    /\ i \in Nat /\ n \in Nat
    /\ owed \subseteq Numbers \X {"r", "w"}
    /\ \A e \in owed : Ahead(e)

Inv == Table(sel) /\ ConnTypes /\ Holding /\ Phases /\ Iteration

(* The properties follow from it.                                          *)
LEMMA InvImplies == Inv => TableIsSound /\ NothingOwed /\ OnlyReuseIsPremature
<1> SUFFICES ASSUME Inv PROVE TableIsSound /\ NothingOwed /\ OnlyReuseIsPremature
  OBVIOUS
<1>1. ITEMS_MAX_SIZE \in Nat /\ Numbers \subseteq Nat
  BY SelectorAssumption
<1>2. TypeOK
  BY <1>1 DEF TypeOK, Inv, Table, Records, Items, Interests, ConnTypes, Iteration
<1>3. SetsMatchItems
  BY DEF SetsMatchItems, Inv, Table
<1>4. InBounds
  <2>1. \A f \in Used(sel) : f < ITEMS_MAX_SIZE /\ f \in Nat /\ sel.size = ITEMS_MAX_SIZE + 1
    BY <1>1 DEF Inv, Table, Records, Used
  <2> QED  BY <1>1, <2>1 DEF InBounds
<1>5. ItemsMatchHolders
  BY DEF ItemsMatchHolders, Inv, Holding, Mine
<1>6. NothingOwed
  BY DEF NothingOwed, Inv, Iteration, Ahead
<1>7. OnlyReuseIsPremature
  BY DEF OnlyReuseIsPremature, Inv, Phases, Phase
<1> QED  BY <1>2, <1>3, <1>4, <1>5, <1>6, <1>7 DEF TableIsSound

(* The first table has all its places, and 0 is registered.                *)
LEMMA InitInv == Init => Inv
<1> SUFFICES ASSUME Init PROVE Inv
  OBVIOUS
<1> DEFINE z == [size |-> 0, item |-> [f \in Numbers |-> Unused], max |-> 0, r |-> {}, w |-> {}]
           g == [New EXCEPT !.item[0] = [owner |-> Passive, interest |-> {"r"}]]
<1>1. /\ ITEMS_MAX_SIZE \in Nat \ {0} /\ Initial \in Nat /\ Initial <= ITEMS_MAX_SIZE
      /\ Numbers \subseteq Nat /\ 0 \in Numbers /\ None # Passive /\ None \notin Conns
      /\ None \notin Numbers
  BY SelectorAssumption
<1>2. New = [z EXCEPT !.size = ITEMS_MAX_SIZE + 1,
                      !.item = [f \in Numbers |->
                          IF f \in 0 .. ITEMS_MAX_SIZE + 1 - 1 THEN Unused ELSE Unused]]
  <2>1. NextCapacity(Initial) = ITEMS_MAX_SIZE + 1
    BY WholeTableAssumption DEF NextCapacity
  <2>2. ~(Initial < z.size \/ Initial > ITEMS_MAX_SIZE)
    BY <1>1
  <2>3. New = Ensured(z, Initial)
    BY DEF New
  <2> HIDE DEF z
  <2>4. New = [z EXCEPT !.size = NextCapacity(Initial),
                        !.item = [f \in Numbers |->
                            IF f \in z.size .. NextCapacity(Initial) - 1 THEN Unused ELSE z.item[f]]]
    BY <2>2, <2>3 DEF Ensured
  <2>5. z.size = 0 /\ \A f \in Numbers : z.item[f] = Unused
    BY DEF z
  <2> QED  BY <2>1, <2>4, <2>5
<1>3. /\ New \in Records /\ New.size = ITEMS_MAX_SIZE + 1 /\ New.max = 0
      /\ New.r = {} /\ New.w = {} /\ New.item = [f \in Numbers |-> Unused]
  BY <1>1, <1>2 DEF Records, Items, Interests, Unused
<1>4. Grown(New, 0) = New
  BY <1>1, <1>3 DEF Grown
<1>5. /\ g \in Records /\ g.max = 0 /\ g.r = {} /\ g.w = {}
      /\ g.item = [[f \in Numbers |-> Unused] EXCEPT ![0] = [owner |-> Passive, interest |-> {"r"}]]
  BY <1>1, <1>3 DEF Records, Items, Interests, Unused
<1>6. sel = Refreshed([g EXCEPT !.max = IF 0 > @ THEN 0 ELSE @], 0)
  BY <1>4 DEF Init, Registered
<1> HIDE DEF g
<1>7. [g EXCEPT !.max = IF 0 > @ THEN 0 ELSE @] = g
  BY <1>5 DEF Records
<1>8. UpToDate(sel, g, 0)
  BY <1>1, <1>5, <1>6, <1>7, RefreshedFacts
<1>9. /\ \A f \in Numbers \ {0} : sel.item[f] = Unused
      /\ sel.item[0] = [owner |-> Passive, interest |-> {"r"}]
  BY <1>1, <1>5, <1>8 DEF UpToDate
<1>10. Used(sel) = {0}
  <2>1. \A f \in Numbers \ {0} : sel.item[f].owner = None
    BY <1>9 DEF Unused
  <2>2. sel.item[0].owner # None
    BY <1>1, <1>9
  <2>3. \A f \in Numbers : f \in {0} <=> sel.item[f].owner # None
    BY <2>1, <2>2
  <2> QED  BY <1>1, <2>3 DEF Used
<1>11. Table(sel)
  <2>1. sel \in Records /\ sel.max = 0 /\ sel.r \in SUBSET Numbers /\ sel.w \in SUBSET Numbers
    BY <1>5, <1>8 DEF UpToDate, Records
  <2>2. \A f \in Numbers : (f \in sel.r <=> f = 0) /\ f \notin sel.w
    BY <1>1, <1>5, <1>8, <1>9 DEF UpToDate
  <2>3. sel.r = {0} /\ sel.w = {}
    BY <1>1, <2>1, <2>2
  <2> QED  BY <1>1, <1>9, <1>10, <2>1, <2>3 DEF Table
<1>12. ConnTypes /\ Phases
  BY DEF Init, ConnTypes, Phases, Phase
<1>13. Holding
  BY <1>1, <1>9, <1>10 DEF Holding, Init, Held, Mine
<1>14. Iteration
  BY DEF Init, Iteration
<1> QED  BY <1>11, <1>12, <1>13, <1>14 DEF Inv

-----------------------------------------------------------------------------
(* Steps of one connection *)

(* A step of connection c: it changes what c has, and the items it had or  *)
(* gets, and the others keep theirs.                                       *)
StepOf(c) ==
    /\ Table(sel') /\ ConnTypes' /\ slave_w' = slave_w
    /\ \A d \in Conns \ {c} :
          /\ client'[d] = client[d] /\ origin'[d] = origin[d]
          /\ state'[d] = state[d] /\ tcp'[d] = tcp[d] /\ (d \in reopened => d \in reopened')
    /\ \A f \in Numbers : f \notin Mine(c) \cup Mine(c)' => sel'.item[f] = sel.item[f]
    /\ \A f \in Mine(c)' : sel'.item[f].owner = c /\ (f \in Mine(c) \/ f \notin Used(sel))
    /\ \A f \in Mine(c) \ Mine(c)' : sel'.item[f].owner = None
    /\ Phase(c)'

(* The descriptors of two connections, and the passive socket, differ.     *)
LEMMA Apart ==
    ASSUME Inv, NEW c \in Conns
    PROVE  /\ Mine(c) \subseteq Used(sel) /\ Mine(c) \subseteq Numbers /\ 0 \notin Mine(c)
           /\ \A d \in Conns \ {c} : Mine(c) \cap Mine(d) = {}
<1>1. Mine(c) \subseteq Numbers /\ Passive \notin Conns
  BY SelectorAssumption DEF Inv, ConnTypes, Mine
<1>2. Mine(c) \subseteq Used(sel)
  BY DEF Inv, Holding, Held, Mine
<1>3. 0 \notin Mine(c)
  BY <1>1 DEF Inv, Holding
<1>4. ASSUME NEW d \in Conns \ {c} PROVE Mine(c) \cap Mine(d) = {}
  BY DEF Inv, Holding
<1> QED  BY <1>1, <1>2, <1>3, <1>4

LEMMA StepKeeps ==
    ASSUME Inv, NEW c \in Conns, StepOf(c)
    PROVE  Table(sel') /\ ConnTypes' /\ Holding' /\ Phases'
<1>1. /\ Mine(c) \subseteq Used(sel) /\ Mine(c) \subseteq Numbers /\ 0 \notin Mine(c)
      /\ \A d \in Conns \ {c} : Mine(c) \cap Mine(d) = {} /\ Mine(d) \subseteq Used(sel)
                                /\ Mine(d) \subseteq Numbers
  BY Apart
<1>2. Mine(c)' \subseteq Numbers /\ None \notin Conns /\ None \notin Numbers
  BY SelectorAssumption DEF StepOf, ConnTypes, Mine
<1>3. \A d \in Conns \ {c} : Mine(d)' = Mine(d) /\ \A f \in Mine(d) : f \notin Mine(c)'
  BY <1>1 DEF StepOf, Mine
<1>4. \A d \in Conns \ {c} : \A f \in Mine(d) : sel'.item[f] = sel.item[f]
  BY <1>1, <1>3 DEF StepOf
<1>5. \A d \in Conns : \A f \in Mine(d)' : sel'.item[f].owner = d
  BY <1>3, <1>4 DEF StepOf, Inv, Holding
<1>6. sel'.item[0] = sel.item[0]
  <2>1. 0 \in Used(sel) /\ 0 \in Numbers
    BY SelectorAssumption DEF Inv, Table
  <2>2. 0 \notin Mine(c)'
    BY <1>1, <2>1 DEF StepOf
  <2> QED  BY <1>1, <2>1, <2>2 DEF StepOf
<1>7. Used(sel)' = (Held \ {None})'
  <2> DEFINE Others == {0} \cup UNION {Mine(d) : d \in Conns \ {c}}
  <2>1. Held \ {None} = Others \cup Mine(c) /\ (Held \ {None})' = Others \cup Mine(c)'
    <3>1. Held \ {None} = {0} \cup UNION {Mine(d) : d \in Conns}
      BY SelectorAssumption, <1>2 DEF Held, Mine
    <3>2. (Held \ {None})' = {0} \cup UNION {Mine(d)' : d \in Conns}
      BY SelectorAssumption, <1>2 DEF Held, Mine
    <3> QED  BY <1>3, <3>1, <3>2
  <2>2. \A f \in Others : f \in Numbers /\ f \in Used(sel) /\ sel'.item[f] = sel.item[f]
        /\ f \notin Mine(c)
    <3>1. 0 \in Numbers /\ 0 \in Used(sel)
      BY SelectorAssumption DEF Inv, Table
    <3> QED  BY <1>1, <1>4, <1>6, <3>1
  <2>3. \A f \in Others : f \in Used(sel)'
    BY <2>2 DEF Used
  <2>4. \A f \in Mine(c)' : f \in Used(sel)'
    BY <1>2, <1>5 DEF Used
  <2>5. ASSUME NEW f \in Used(sel)' PROVE f \in Others \cup Mine(c)'
    <3>1. f \in Numbers /\ sel'.item[f].owner # None
      BY DEF Used
    <3>2. CASE f \in Mine(c)
      BY <3>1, <3>2 DEF StepOf
    <3>3. CASE f \notin Mine(c) /\ f \notin Mine(c)'
      <4>1. f \in Used(sel)
        BY <3>1, <3>3 DEF StepOf, Used
      <4> QED  BY <2>1, <3>3, <4>1 DEF Inv, Holding
    <3> QED  BY <3>2, <3>3
  <2> QED  BY <2>1, <2>3, <2>4, <2>5
<1>8. Holding'
  BY <1>5, <1>6, <1>7 DEF Holding, Inv
<1>9. Phases'
  <2>1. ASSUME NEW d \in Conns \ {c} PROVE Phase(d)'
    <3>1. Phase(d)
      BY DEF Inv, Phases
    <3>2. /\ client'[d] = client[d] /\ origin'[d] = origin[d]
          /\ state'[d] = state[d] /\ tcp'[d] = tcp[d] /\ (d \in reopened => d \in reopened')
          /\ slave_w' = slave_w
      BY DEF StepOf
    <3>3. state[d] = "connecting" => sel'.item[client[d]] = sel.item[client[d]]
                                     /\ sel'.item[origin[d]] = sel.item[origin[d]]
      BY <1>4, <3>1 DEF Phase, Mine
    <3> QED  BY <3>1, <3>2, <3>3 DEF Phase
  <2> QED  BY <2>1 DEF StepOf, Phases
<1> QED  BY <1>8, <1>9 DEF StepOf

(* A step of one connection, or of none.                                   *)
Still == UNCHANGED <<sel, client, origin, state, tcp, reopened, slave_w>>

LEMMA StillKeeps ==
    ASSUME Inv, Still
    PROVE  Table(sel') /\ ConnTypes' /\ Holding' /\ Phases'
BY DEF Inv, Still, ConnTypes, Holding, Held, Mine, Phases, Phase, Used

-----------------------------------------------------------------------------
(* The handlers *)

(* socks5_done(), socks5_kill()                                            *)
LEMMA LeaveStep ==
    ASSUME Inv, NEW c \in Conns, state[c] # "none", Leave(c), slave_w' = slave_w
    PROVE  StepOf(c)
<1>1. Mine(c) \subseteq Used(sel) /\ Mine(c) \subseteq Numbers /\ 0 \notin Mine(c)
  BY Apart
<1>2. /\ client[c] # None /\ client[c] # origin[c] /\ Table(sel) /\ ConnTypes
      /\ client[c] \in Mine(c) /\ (origin[c] # None => origin[c] \in Mine(c))
      /\ None \notin Numbers
  BY SelectorAssumption DEF Inv, Phases, Phase, Mine
<1>3. /\ client' = [client EXCEPT ![c] = None] /\ origin' = [origin EXCEPT ![c] = None]
      /\ state' = [state EXCEPT ![c] = "none"] /\ tcp' = [tcp EXCEPT ![c] = "none"]
      /\ reopened' = reopened \ {c}
  BY DEF Leave
<1>4. /\ ConnTypes' /\ Mine(c)' = {} /\ Phase(c)'
      /\ \A d \in Conns \ {c} :
            /\ client'[d] = client[d] /\ origin'[d] = origin[d]
            /\ state'[d] = state[d] /\ tcp'[d] = tcp[d] /\ (d \in reopened => d \in reopened')
  BY <1>2, <1>3 DEF ConnTypes, Mine, Phase
<1> DEFINE s == Unregistered(sel, client[c])
<1>5. /\ Table(s) /\ s.item = [sel.item EXCEPT ![client[c]] = Unused]
      /\ Used(s) = Used(sel) \ {client[c]}
  BY <1>1, <1>2, UnregisteredFacts
<1>6. CASE origin[c] = None
  <2>1. sel' = s
    BY <1>6 DEF Leave
  <2>2. /\ \A f \in Numbers \ Mine(c) : sel'.item[f] = sel.item[f]
        /\ \A f \in Mine(c) : sel'.item[f].owner = None
    BY <1>1, <1>2, <1>5, <1>6, <2>1 DEF Mine, Unused, Table, Records, Items
  <2> QED  BY <1>4, <1>5, <2>1, <2>2 DEF StepOf
<1>7. CASE origin[c] # None
  <2>1. sel' = Unregistered(s, origin[c])
    BY <1>7 DEF Leave
  <2> HIDE DEF s
  <2>2. /\ Table(sel') /\ sel'.item = [s.item EXCEPT ![origin[c]] = Unused]
    BY <1>1, <1>2, <1>5, <1>7, <2>1, UnregisteredFacts
  <2>3. /\ \A f \in Numbers \ Mine(c) : sel'.item[f] = sel.item[f]
        /\ \A f \in Mine(c) : sel'.item[f].owner = None
    BY <1>1, <1>2, <1>5, <1>7, <2>2 DEF Mine, Unused, Table, Records, Items
  <2> QED  BY <1>4, <2>2, <2>3 DEF StepOf
<1> QED  BY <1>6, <1>7

(* socks5_passive_accept()                                                 *)
LEMMA AcceptStep ==
    ASSUME Inv, Accept, slave_w' = slave_w
    PROVE  Still \/ \E c \in Conns : StepOf(c)
<1>1. CASE UNCHANGED <<sel, client, state>>
  BY <1>1 DEF Accept, Still
<1>2. ASSUME NEW c \in Conns,
             state[c] = "none", Opens(Held), Registers(sel, Lowest(Held)),
             client' = [client EXCEPT ![c] = Lowest(Held)],
             sel' = Registered(sel, Lowest(Held), c, {"r"}),
             state' = [state EXCEPT ![c] = "request"]
      PROVE  StepOf(c)
  <2> DEFINE o == Lowest(Held)
  <2>1. o \in Numbers /\ None \notin Numbers
    BY <1>2, LowestIsFree, SelectorAssumption
  <2>2. /\ o \notin Used(sel) /\ Table(sel')
        /\ sel'.item = WithItem(sel.item, o, c, {"r"})
    <3>1. {"r"} \in Interests /\ c \in Conns \cup {Passive} /\ Table(sel)
          /\ Registers(sel, o) /\ sel' = Registered(sel, o, c, {"r"})
      BY <1>2 DEF Inv, Interests
    <3> HIDE DEF o
    <3> QED  BY <2>1, <3>1, RegisteredFacts
  <2> HIDE DEF o
  <2>3. UNCHANGED <<origin, tcp, reopened>> /\ client' = [client EXCEPT ![c] = o]
        /\ client[c] = None /\ origin[c] = None /\ tcp[c] = "none" /\ ConnTypes
    BY <1>2 DEF Accept, Inv, Phases, Phase, o
  <2>4. /\ ConnTypes' /\ Mine(c)' = {o} /\ Mine(c) = {} /\ Phase(c)'
        /\ \A d \in Conns \ {c} :
              /\ client'[d] = client[d] /\ origin'[d] = origin[d]
              /\ state'[d] = state[d] /\ tcp'[d] = tcp[d] /\ (d \in reopened => d \in reopened')
    BY <1>2, <2>1, <2>3 DEF ConnTypes, Mine, Phase
  <2>5. /\ \A f \in Numbers \ {o} : sel'.item[f] = sel.item[f]
        /\ sel'.item[o].owner = c
    BY <2>1, <2>2 DEF Inv, Table, Records, Items, WithItem
  <2> QED  BY <2>2, <2>4, <2>5 DEF StepOf
<1> QED  BY <1>1, <1>2 DEF Accept

(* A handler of connection c gives it another origin, state or connection. *)
Becomes(c, o, q, t) ==
    /\ origin' = [origin EXCEPT ![c] = o] /\ state' = [state EXCEPT ![c] = q]
    /\ tcp' = [tcp EXCEPT ![c] = t] /\ UNCHANGED <<client, slave_w>>
    /\ reopened' \in {reopened, reopened \cup {c}, reopened \ {c}}

(* ... and leaves the others alone.                                        *)
Became(c, o, q, t) ==
    /\ ConnTypes' /\ Mine(c)' = {client[c], o} \ {None} /\ slave_w' = slave_w
    /\ client'[c] = client[c] /\ origin'[c] = o /\ state'[c] = q /\ tcp'[c] = t
    /\ \A d \in Conns \ {c} :
          /\ client'[d] = client[d] /\ origin'[d] = origin[d]
          /\ state'[d] = state[d] /\ tcp'[d] = tcp[d] /\ (d \in reopened => d \in reopened')

LEMMA OwnFields ==
    ASSUME ConnTypes, NEW c \in Conns, NEW STATE o, o \in Numbers \cup {None},
           NEW STATE q, q \in {"none", "request", "connecting", "succeeded", "refused", "copy"},
           NEW STATE t, t \in {"none", "pending", "made", "failed"}, Becomes(c, o, q, t)
    PROVE  Became(c, o, q, t)
BY DEF ConnTypes, Mine, Becomes, Became

(* request_connect(), from a selector s that differs from the table at     *)
(* most in what c's former attempt had.                                    *)
LEMMA ConnectStep ==
    ASSUME Inv, NEW c \in Conns, state[c] \in {"request", "connecting"},
           NEW STATE s, NEW STATE held, Table(s), Used(s) = Used(sel) \ {origin[c]},
           held \ {None} = Used(s),
           \A f \in Numbers : f # origin[c] => s.item[f] = sel.item[f],
           Connect(c, s, held), UNCHANGED <<client, slave_w>>
    PROVE  StepOf(c)
<1> DEFINE k == client[c]
           o == Lowest(held)
           r == Registered(s, o, c, {"w"})
<1>1. /\ k \in Numbers /\ k \in Used(sel) /\ k # origin[c] /\ k # 0 /\ k # None
      /\ k \in Used(s) /\ s.item[k].owner = c /\ k \in Mine(c) /\ ConnTypes
      /\ Mine(c) = {k, origin[c]} \ {None}
      /\ None \notin Numbers
  <2>1. k # None /\ k # origin[c] /\ ConnTypes /\ k \in Mine(c) /\ None \notin Numbers
    BY SelectorAssumption DEF Inv, Phases, Phase, Mine
  <2>2. k \in Numbers /\ k \in Used(sel) /\ k # 0
    BY <2>1, Apart
  <2> QED  BY <2>1, <2>2 DEF Inv, Holding, Mine
<1>w. {} \in Interests /\ {"w"} \in Interests
  BY DEF Interests
<1>2. origin[c] # None => s.item[origin[c]].owner = None
  BY <1>1 DEF ConnTypes, Used
<1>3. ASSUME Opens(held), Registers(s, o), NEW q \in {"pending", "made"},
             origin' = [origin EXCEPT ![c] = o],
             reopened' = IF o \in slave_w THEN reopened \cup {c} ELSE reopened \ {c},
             tcp' = [tcp EXCEPT ![c] = q],
             \/ /\ q = "pending" /\ state' = [state EXCEPT ![c] = "connecting"]
                /\ sel' = Interested(Interested(r, k, {}), o, {"w"})
             \/ /\ q = "made" /\ state' = [state EXCEPT ![c] = "succeeded"]
                /\ sel' = Replied(r, c, o)
      PROVE  StepOf(c)
  <2>1. o \in Numbers /\ o # None
    BY <1>1, <1>3, LowestIsFree
  <2>2. /\ o \notin Used(s) /\ Table(r) /\ Used(r) = Used(s) \cup {o}
        /\ r.item = WithItem(s.item, o, c, {"w"})
    <3>1. c \in Conns \cup {Passive}
      OBVIOUS
    <3> HIDE DEF o
    <3> QED  BY <1>3, <1>w, <2>1, <3>1, RegisteredFacts
  <2> HIDE DEF o, r
  <2>3. k # o /\ k \in Used(r) /\ o \in Used(r)
    BY <1>1, <2>2
  <2>4. PICK st \in {"connecting", "succeeded"} :
             state' = [state EXCEPT ![c] = st] /\ (st = "connecting" <=> q = "pending")
    BY <1>3
  <2>5. Became(c, o, st, q) /\ Mine(c)' = {k, o}
    <3>1. Becomes(c, o, st, q)
      BY <1>3, <2>4 DEF Becomes
    <3>2. Became(c, o, st, q)
      BY <1>1, <2>1, <3>1, OwnFields
    <3> QED  BY <1>1, <2>1, <3>2 DEF Became
  <2>6. /\ Table(sel') /\ sel'.item[k].owner = c /\ sel'.item[o].owner = c
        /\ \A f \in Numbers \ {k, o} : sel'.item[f] = s.item[f]
        /\ q = "pending" => sel'.item[k].interest = {} /\ sel'.item[o].interest = {"w"}
    <3>0. /\ r.item[k].owner = c /\ r.item[o].owner = c
          /\ \A f \in Numbers \ {o} : r.item[f] = s.item[f]
      BY <1>1, <2>1, <2>2, <2>3 DEF Table, Records, Items, WithItem
    <3>1. CASE q = "pending"
      <4> DEFINE t == Interested(r, k, {})
      <4>1. Table(t) /\ t.item = WithInterest(r.item, k, {}) /\ Used(t) = Used(r)
        BY <1>w, <2>2, <2>3, InterestedFacts
      <4>2. sel' = Interested(t, o, {"w"})
        BY <1>3, <3>1
      <4> HIDE DEF t
      <4>3. Table(sel') /\ sel'.item = WithInterest(t.item, o, {"w"})
        BY <1>w, <2>3, <4>1, <4>2, InterestedFacts
      <4>5. /\ t.item[k].owner = c /\ t.item[o].owner = c
            /\ \A f \in Numbers \ {k, o} : t.item[f] = s.item[f]
            /\ t.item[k].interest = {}
        BY <1>1, <2>1, <2>3, <3>0, <4>1 DEF Table, Records, Items, WithInterest
      <4>6. t.item \in [Numbers -> [owner : Conns \cup {Passive, None}, interest : Interests]]
        BY <4>1 DEF Table, Records, Items
      <4>7. /\ \A f \in Numbers \ {o} : sel'.item[f] = t.item[f]
            /\ sel'.item[o] = [t.item[o] EXCEPT !.interest = {"w"}]
        BY <1>1, <2>1, <4>3, <4>6 DEF WithInterest
      <4>8. sel'.item[o].owner = c /\ sel'.item[o].interest = {"w"}
        BY <1>1, <2>1, <4>5, <4>6, <4>7
      <4> QED  BY <1>1, <2>1, <2>3, <4>3, <4>5, <4>7, <4>8
    <3>2. CASE q = "made"
      <4> DEFINE t == Interested(r, o, {})
      <4>1. Table(t) /\ t.item = WithInterest(r.item, o, {}) /\ Used(t) = Used(r)
        <5>1. Table(r) /\ o \in Used(r) /\ {} \in Interests
          BY <1>w, <2>2, <2>3
        <5> QED  BY <5>1, InterestedFacts
      <4>2. sel' = Interested(t, k, {"w"})
        <5>1. sel' = Replied(r, c, o)
          BY <1>3, <3>2
        <5> QED  BY <2>1, <5>1 DEF Replied
      <4> HIDE DEF t
      <4>3. Table(sel') /\ sel'.item = WithInterest(t.item, k, {"w"})
        BY <1>w, <2>3, <4>1, <4>2, InterestedFacts
      <4>5. /\ t.item[k].owner = c /\ t.item[o].owner = c
            /\ \A f \in Numbers \ {k, o} : t.item[f] = s.item[f]
            /\ t.item[o].interest = {}
        BY <1>1, <2>1, <2>3, <3>0, <4>1 DEF Table, Records, Items, WithInterest
      <4>6. t.item \in [Numbers -> [owner : Conns \cup {Passive, None}, interest : Interests]]
        BY <4>1 DEF Table, Records, Items
      <4>7. /\ \A f \in Numbers \ {k} : sel'.item[f] = t.item[f]
            /\ sel'.item[k] = [t.item[k] EXCEPT !.interest = {"w"}]
        BY <1>1, <2>1, <4>3, <4>6 DEF WithInterest
      <4>8. sel'.item[k].owner = c /\ sel'.item[k].interest = {"w"}
        BY <1>1, <2>1, <4>5, <4>6, <4>7
      <4> QED  BY <1>1, <2>1, <2>3, <3>2, <4>3, <4>5, <4>7, <4>8
    <3> QED  BY <3>1, <3>2
  <2>7. \A f \in Mine(c) \ Mine(c)' : sel'.item[f].owner = None
    BY <1>1, <1>2, <2>5, <2>6 DEF ConnTypes
  <2>8. /\ \A f \in Mine(c)' : sel'.item[f].owner = c /\ (f \in Mine(c) \/ f \notin Used(sel))
        /\ \A f \in Numbers : f \notin Mine(c) \cup Mine(c)' => sel'.item[f] = sel.item[f]
    BY <1>1, <2>1, <2>2, <2>5, <2>6
  <2>9. Phase(c)'
    BY <1>1, <1>3, <2>1, <2>3, <2>4, <2>5, <2>6 DEF Phase, Became
  <2> QED  BY <2>5, <2>6, <2>7, <2>8, <2>9 DEF StepOf, Became
<1>4. ASSUME origin' = [origin EXCEPT ![c] = None], tcp' = [tcp EXCEPT ![c] = "none"],
             state' = [state EXCEPT ![c] = "refused"], sel' = Replied(s, c, None),
             reopened' = reopened \ {c}
      PROVE  StepOf(c)
  <2>1. Became(c, None, "refused", "none") /\ Mine(c)' = {k}
    <3>1. Becomes(c, None, "refused", "none")
      BY <1>4 DEF Becomes
    <3>2. Became(c, None, "refused", "none")
      BY <1>1, <3>1, OwnFields
    <3> QED  BY <1>1, <3>2 DEF Became
  <2>2. sel' = Interested(s, k, {"w"})
    BY <1>4 DEF Replied
  <2>3. Table(sel') /\ sel'.item = WithInterest(s.item, k, {"w"})
    BY <1>1, <1>w, <2>2, InterestedFacts
  <2>4. sel'.item[k].owner = c /\ \A f \in Numbers \ {k} : sel'.item[f] = s.item[f]
    BY <1>1, <2>3 DEF Table, Records, Items, WithItem, WithInterest
  <2>5. \A f \in Mine(c) \ Mine(c)' : sel'.item[f].owner = None
    BY <1>1, <1>2, <2>1, <2>4 DEF ConnTypes
  <2>6. Phase(c)'
    BY <1>1, <2>1 DEF Phase, Became
  <2> QED  BY <1>1, <2>1, <2>3, <2>4, <2>5, <2>6 DEF StepOf, Became
<1> HIDE DEF r
<1>5. CASE /\ Opens(held) /\ Registers(s, o) /\ origin' = [origin EXCEPT ![c] = o]
           /\ reopened' = IF o \in slave_w THEN reopened \cup {c} ELSE reopened \ {c}
           /\ tcp' = [tcp EXCEPT ![c] = "pending"]
           /\ state' = [state EXCEPT ![c] = "connecting"]
           /\ sel' = Interested(Interested(r, k, {}), o, {"w"})
  BY <1>3, <1>5
<1>6. CASE /\ Opens(held) /\ Registers(s, o) /\ origin' = [origin EXCEPT ![c] = o]
           /\ reopened' = IF o \in slave_w THEN reopened \cup {c} ELSE reopened \ {c}
           /\ tcp' = [tcp EXCEPT ![c] = "made"]
           /\ state' = [state EXCEPT ![c] = "succeeded"]
           /\ sel' = Replied(r, c, o)
  BY <1>3, <1>6
<1> QED  BY <1>4, <1>5, <1>6 DEF Connect, r

(* request_write_on_write_ready(), relay_on_arrival(),                     *)
(* relay_update_interests(), and request_connecting_on_write_ready() when  *)
(* it answers: c has an origin, and asks for two interests.                *)
LEMMA InterestStep ==
    ASSUME Inv, NEW c \in Conns, origin[c] # None,
           UNCHANGED <<client, origin, tcp, reopened, slave_w>>,
           state[c] \in {"connecting", "succeeded", "copy"},
           NEW q \in {"succeeded", "copy"}, state' = [state EXCEPT ![c] = q],
           tcp[c] = "made" \/ c \in reopened,
           NEW STATE a, a \in Mine(c), NEW STATE b, b \in Mine(c),
           NEW x \in Interests, NEW y \in Interests,
           sel' = Interested(Interested(sel, a, x), b, y)
    PROVE  StepOf(c)
<1>1. Mine(c) \subseteq Used(sel) /\ Mine(c) \subseteq Numbers
  BY Apart
<1>2. /\ ConnTypes /\ Phase(c) /\ Table(sel) /\ \A f \in Mine(c) : sel.item[f].owner = c
  BY DEF Inv, Phases, Holding
<1> DEFINE t == Interested(sel, a, x)
<1>3. Table(t) /\ t.item = WithInterest(sel.item, a, x) /\ Used(t) = Used(sel)
  BY <1>1, <1>2, InterestedFacts
<1>4. sel' = Interested(t, b, y) /\ b \in Used(t)
  BY <1>1, <1>3
<1> HIDE DEF t
<1>5. Table(sel') /\ sel'.item = WithInterest(t.item, b, y)
  BY <1>3, <1>4, InterestedFacts
<1>6. /\ \A f \in Numbers : sel'.item[f].owner = sel.item[f].owner
      /\ \A f \in Numbers \ Mine(c) : sel'.item[f] = sel.item[f]
  <2>1. /\ \A f \in Numbers : t.item[f].owner = sel.item[f].owner
        /\ \A f \in Numbers \ {a} : t.item[f] = sel.item[f]
    BY <1>1, <1>2, <1>3 DEF WithInterest, Table, Records, Items
  <2>2. /\ \A f \in Numbers : sel'.item[f].owner = t.item[f].owner
        /\ \A f \in Numbers \ {b} : sel'.item[f] = t.item[f]
    BY <1>1, <1>3, <1>5 DEF WithInterest, Table, Records, Items
  <2> QED  BY <2>1, <2>2
<1>7. origin' = [origin EXCEPT ![c] = origin[c]] /\ tcp' = [tcp EXCEPT ![c] = tcp[c]]
      /\ origin[c] \in Numbers \cup {None} /\ tcp[c] \in {"none", "pending", "made", "failed"}
  BY <1>2 DEF ConnTypes
<1>8. Becomes(c, origin[c], q, tcp[c])
  BY <1>7 DEF Becomes
<1>9. Became(c, origin[c], q, tcp[c])
  BY <1>2, <1>7, <1>8, OwnFields
<1>10. Mine(c)' = Mine(c)
  BY DEF Mine
<1>11. Phase(c)'
  BY <1>2, <1>9 DEF Became, Phase
<1> QED  BY <1>1, <1>2, <1>5, <1>6, <1>9, <1>10, <1>11 DEF StepOf, Became

(* The connection that owns a descriptor has it.                           *)
LEMMA OwnerHolds ==
    ASSUME Inv, NEW STATE f, f \in Used(sel), sel.item[f].owner # Passive
    PROVE  sel.item[f].owner \in Conns /\ f \in Mine(sel.item[f].owner)
<1>1. f \in Numbers /\ sel.item[f].owner \in Conns
  BY DEF Inv, Table, Records, Items, Used
<1>2. f # 0 /\ f \in Held \ {None}
  BY DEF Inv, Holding
<1>3. PICK d \in Conns : f \in Mine(d)
  BY <1>2 DEF Held, Mine
<1>4. sel.item[f].owner = d
  BY <1>3 DEF Inv, Holding
<1> QED  BY <1>1, <1>3, <1>4

(* The handler of a reported descriptor is a step of its connection.       *)
LEMMA HandlerStep ==
    ASSUME Inv, NEW STATE f, f \in Used(sel), NEW op \in {"r", "w"},
           op \in sel.item[f].interest, op = "w" => f \in slave_w,
           Handle(f, op), slave_w' = slave_w
    PROVE  Still \/ \E c \in Conns : StepOf(c)
<1> DEFINE c == sel.item[f].owner
<1>1. CASE c = Passive
  <2>1. Accept
    BY <1>1 DEF Handle
  <2> QED  BY <2>1, AcceptStep
<1>2. CASE c # Passive
  <2>1. c \in Conns /\ f \in Mine(c)
    BY <1>2, OwnerHolds
  <2> HIDE DEF c
  <2>2. /\ Phase(c) /\ ConnTypes /\ Table(sel) /\ Used(sel) = Held \ {None}
        /\ client[c] # None => client[c] \in Mine(c)
        /\ origin[c] # None => origin[c] \in Mine(c)
        /\ Mine(c) \subseteq Used(sel) /\ 0 \notin Mine(c)
    BY <2>1, Apart DEF Inv, Phases, Holding, Mine
  <2>3. state[c] # "none" /\ client[c] \in Mine(c)
    BY <2>1, <2>2 DEF Phase, Mine
  <2>4. CASE Leave(c)
    BY <2>1, <2>3, <2>4, LeaveStep
  <2>5. CASE state[c] = "request" /\ Request(c) /\ UNCHANGED client
    <3>1. CASE UNCHANGED <<sel, origin, state, tcp, reopened>>
      BY <2>5, <3>1 DEF Still
    <3>2. CASE Connect(c, sel, Held)
      <4>1. origin[c] = None
        BY <2>2, <2>5 DEF Phase
      <4>2. Used(sel) = Used(sel) \ {origin[c]} /\ Held \ {None} = Used(sel)
        BY <2>2, <4>1, SelectorAssumption DEF Used
      <4> QED  BY <2>1, <2>2, <2>5, <3>2, <4>2, ConnectStep
    <3> QED  BY <2>5, <3>1, <3>2 DEF Request
  <2>6. CASE state[c] = "connecting" /\ Connecting(c) /\ UNCHANGED client
    <3>1. origin[c] # None /\ origin[c] \in Mine(c)
      BY <2>2, <2>6 DEF Phase
    <3>2. op = "w" /\ f = origin[c]
      BY <2>1, <2>2, <2>6 DEF Phase, Mine
    <3>3. CASE /\ tcp[c] # "failed" /\ state' = [state EXCEPT ![c] = "succeeded"]
               /\ sel' = Replied(sel, c, origin[c]) /\ UNCHANGED <<origin, tcp, reopened>>
      <4>1. tcp[c] = "made" \/ c \in reopened
        BY <2>1, <2>2, <2>6, <3>2, <3>3 DEF Phase, ConnTypes
      <4>2. {} \in Interests /\ {"w"} \in Interests
        BY DEF Interests
      <4>3. sel' = Interested(Interested(sel, origin[c], {}), client[c], {"w"})
        BY <3>1, <3>3 DEF Replied
      <4> QED  BY <2>1, <2>3, <2>6, <3>1, <3>3, <4>1, <4>2, <4>3, InterestStep
    <3>4. CASE Connect(c, Judged(c), Held \ {origin[c]})
      <4>1. /\ Table(Judged(c)) /\ Judged(c).item = [sel.item EXCEPT ![origin[c]] = Unused]
            /\ Used(Judged(c)) = Used(sel) \ {origin[c]}
        BY <2>2, <3>1, UnregisteredFacts DEF Judged
      <4>2. \A g \in Numbers : g # origin[c] => Judged(c).item[g] = sel.item[g]
        BY <2>2, <4>1 DEF Table, Records, Items
      <4>3. (Held \ {origin[c]}) \ {None} = Used(Judged(c))
        BY <2>2, <4>1
      <4> QED  BY <2>1, <2>6, <3>4, <4>1, <4>2, <4>3, ConnectStep
    <3> QED  BY <2>6, <3>3, <3>4 DEF Connecting
  <2>7. CASE /\ state[c] \in {"succeeded", "refused"}
             /\ Answer(c) /\ UNCHANGED <<client, origin, tcp, reopened>>
    <3>1. CASE UNCHANGED <<sel, state>>
      BY <2>7, <3>1 DEF Still
    <3>2. CASE /\ state[c] = "succeeded" /\ state' = [state EXCEPT ![c] = "copy"]
               /\ sel' = Interested(Interested(sel, client[c], {"r"}), origin[c], {"r"})
      <4>1. /\ tcp[c] = "made" \/ c \in reopened
            /\ origin[c] # None /\ origin[c] \in Mine(c)
        BY <2>2, <3>2 DEF Phase
      <4>2. {"r"} \in Interests
        BY DEF Interests
      <4> QED  BY <2>1, <2>3, <2>7, <3>2, <4>1, <4>2, InterestStep
    <3> QED  BY <2>7, <3>1, <3>2 DEF Answer
  <2>8. CASE state[c] = "copy" /\ Copy(c) /\ UNCHANGED <<connVars, reopened>>
    <3>1. PICK x \in CopyInterests :
             sel' = Interested(Interested(sel, client[c], x[1]), origin[c], x[2])
      BY <2>8 DEF Copy
    <3>2. x[1] \in Interests /\ x[2] \in Interests
      BY <3>1, SelectorAssumption DEF Interests
    <3>3. /\ tcp[c] = "made" \/ c \in reopened
          /\ origin[c] # None /\ origin[c] \in Mine(c)
      BY <2>2, <2>8 DEF Phase
    <3>4. state' = [state EXCEPT ![c] = "copy"]
      BY <2>1, <2>2, <2>8 DEF ConnTypes, connVars
    <3> QED  BY <2>1, <2>3, <2>8, <3>1, <3>2, <3>3, <3>4, InterestStep DEF connVars
  <2> QED  BY <1>2, <2>4, <2>5, <2>6, <2>7, <2>8 DEF Handle, c
<1> QED  BY <1>1, <1>2

(* What a handler leaves owed was owed, is not what it was called for, and *)
(* has its descriptor and interest still.                                  *)
LEMMA OwedAfter ==
    ASSUME NEW STATE f, NEW STATE op, Handle(f, op)
    PROVE  \A e \in owed' : /\ e \in owed /\ e # <<f, op>>
                            /\ e[1] \in Used(sel') /\ e[2] \in sel'.item[e[1]].interest
BY DEF Handle, StillOwed

-----------------------------------------------------------------------------
(* The iteration and the main loop *)

LEMMA SelectKeeps ==
    ASSUME Inv, NEW r \in SUBSET sel.r, NEW w \in SUBSET sel.w, Select(r, w)
    PROVE  Inv'
<1>1. /\ Table(sel) /\ ConnTypes /\ Holding /\ Phases /\ Iteration /\ Numbers \subseteq Nat
  BY SelectorAssumption DEF Inv
<1>2. /\ UNCHANGED <<sel, client, origin, state, tcp, reopened>>
      /\ r \subseteq sel.r /\ w \subseteq Writable /\ w \subseteq sel.w
      /\ slave_r' = r /\ slave_w' = w /\ i' = 0 /\ n' = sel.max /\ pc' = "read"
      /\ owed' = (r \X {"r"}) \cup (w \X {"w"})
  BY DEF Select, connVars
<1>3. Table(sel') /\ ConnTypes' /\ Holding'
  BY <1>1, <1>2 DEF ConnTypes, Holding, Held, Mine, Used
<1>4. Phases'
  <2>1. ASSUME NEW c \in Conns PROVE Phase(c)'
    <3>1. tcp[c] = "pending" => origin[c] \notin slave_w'
      BY <1>2 DEF Writable
    <3> QED  BY <1>1, <1>2, <3>1 DEF Phases, Phase
  <2> QED  BY <2>1 DEF Phases
<1>5. Iteration'
  <2>1. /\ r \subseteq Numbers /\ w \subseteq Numbers /\ sel.max \in Nat
        /\ \A f \in r : f \in Used(sel) /\ "r" \in sel.item[f].interest
        /\ \A f \in w : f \in Used(sel) /\ "w" \in sel.item[f].interest
        /\ \A f \in Used(sel) : f <= sel.max /\ f \in Nat
    BY <1>1, <1>2 DEF Table, Records, Used
  <2>2. ASSUME NEW e \in owed' PROVE Ahead(e)'
    <3>1. PICK f \in Numbers : \/ e = <<f, "r">> /\ f \in r
                               \/ e = <<f, "w">> /\ f \in w
      BY <1>2, <2>1
    <3>2. e[1] = f /\ f \in Nat
      BY <1>1, <3>1
    <3>3. f \in Used(sel) /\ f <= n' /\ 0 <= f /\ i' <= f
      BY <1>2, <2>1, <3>1, <3>2
    <3>4. Used(sel)' = Used(sel) /\ sel' = sel /\ pc' = "read"
      BY <1>2 DEF Used
    <3>5. CASE e = <<f, "r">> /\ f \in r
      <4>1. "r" \in sel.item[f].interest /\ e[2] = "r" /\ f \in slave_r'
        BY <1>2, <2>1, <3>5
      <4> QED  BY <3>2, <3>3, <3>4, <4>1 DEF Ahead
    <3>6. CASE e = <<f, "w">> /\ f \in w
      <4>1. "w" \in sel.item[f].interest /\ e[2] = "w" /\ f \in slave_w'
        BY <1>2, <2>1, <3>6
      <4> QED  BY <3>2, <3>3, <3>4, <4>1 DEF Ahead
    <3> QED  BY <3>1, <3>5, <3>6
  <2>3. owed' \subseteq Numbers \X {"r", "w"}
    BY <1>2, <2>1
  <2> QED  BY <1>2, <2>1, <2>2, <2>3 DEF Iteration
<1> QED  BY <1>3, <1>4, <1>5 DEF Inv

(* The handler for reading, or none: what was reported of descriptor i for *)
(* reading is owed no more.                                                *)
LEMMA ReadKeeps == Inv /\ Read => Inv'
<1> SUFFICES ASSUME Inv, Read PROVE Inv'
  OBVIOUS
<1>1. /\ pc = "read" /\ pc' = "write" /\ i <= n /\ UNCHANGED <<slave_r, slave_w, i, n>>
      /\ Iteration /\ Table(sel) /\ i \in Nat /\ n \in Nat
  BY DEF Read, Quiet, Inside, Inv, Iteration
<1>2. CASE Dispatches("r", slave_r) /\ Handle(i, "r")
  <2>1. i \in Used(sel) /\ "r" \in sel.item[i].interest
    BY <1>2 DEF Dispatches
  <2>2. Table(sel') /\ ConnTypes' /\ Holding' /\ Phases'
    <3>1. Still \/ \E c \in Conns : StepOf(c)
      BY <1>1, <1>2, <2>1, HandlerStep
    <3> QED  BY <3>1, StillKeeps, StepKeeps
  <2>3. \A e \in owed' : /\ e \in owed /\ e # <<i, "r">>
                         /\ e[1] \in Used(sel') /\ e[2] \in sel'.item[e[1]].interest
    BY <1>2, OwedAfter
  <2>4. ASSUME NEW e \in owed' PROVE Ahead(e)'
    <3>1. e \in Numbers \X {"r", "w"} /\ e # <<i, "r">> /\ Ahead(e) /\ e = <<e[1], e[2]>>
      BY <1>1, <2>3 DEF Iteration
    <3> QED  BY <1>1, <2>3, <3>1 DEF Ahead, Used
  <2>5. Iteration'
    BY <1>1, <2>3, <2>4 DEF Iteration
  <2> QED  BY <2>2, <2>5 DEF Inv
<1>3. CASE ~Dispatches("r", slave_r) /\ UNCHANGED <<sel, connVars, owed, reopened>>
  <2>1. Table(sel') /\ ConnTypes' /\ Holding' /\ Phases'
    BY <1>1, <1>3, StillKeeps DEF Still, connVars
  <2>2. ASSUME NEW e \in owed' PROVE Ahead(e)'
    <3>1. Ahead(e) /\ ~(e[2] = "r" /\ e[1] = i)
      BY <1>1, <1>3 DEF Iteration, Ahead, Dispatches, Inside
    <3> QED  BY <1>1, <1>3, <3>1 DEF Ahead, Used
  <2>3. Iteration'
    BY <1>1, <1>3, <2>2 DEF Iteration
  <2> QED  BY <2>1, <2>3 DEF Inv
<1> QED  BY <1>2, <1>3 DEF Read

LEMMA WriteKeeps == Inv /\ Write => Inv'
<1> SUFFICES ASSUME Inv, Write PROVE Inv'
  OBVIOUS
<1>1. /\ pc = "write" /\ pc' = "read" /\ i' = i + 1 /\ UNCHANGED <<slave_r, slave_w, n>>
      /\ Iteration /\ Table(sel) /\ i \in Nat /\ n \in Nat /\ Numbers \subseteq Nat
  BY SelectorAssumption DEF Write, Inv, Iteration
<1>2. CASE Dispatches("w", slave_w) /\ Handle(i, "w")
  <2>1. i \in Used(sel) /\ "w" \in sel.item[i].interest /\ i \in slave_w
    BY <1>2 DEF Dispatches
  <2>2. Table(sel') /\ ConnTypes' /\ Holding' /\ Phases'
    <3>1. Still \/ \E c \in Conns : StepOf(c)
      BY <1>1, <1>2, <2>1, HandlerStep
    <3> QED  BY <3>1, StillKeeps, StepKeeps
  <2>3. \A e \in owed' : /\ e \in owed /\ e # <<i, "w">>
                         /\ e[1] \in Used(sel') /\ e[2] \in sel'.item[e[1]].interest
    BY <1>2, OwedAfter
  <2>4. ASSUME NEW e \in owed' PROVE Ahead(e)'
    <3>1. e \in Numbers \X {"r", "w"} /\ e # <<i, "w">> /\ Ahead(e) /\ e = <<e[1], e[2]>>
      BY <1>1, <2>3 DEF Iteration
    <3>2. i # e[1] /\ e[1] \in Nat /\ i <= e[1]
      BY <1>1, <3>1 DEF Ahead
    <3>3. i + 1 <= e[1]
      BY <1>1, <3>2
    <3> QED  BY <1>1, <2>3, <3>1, <3>3 DEF Ahead, Used
  <2>5. Iteration'
    BY <1>1, <2>3, <2>4 DEF Iteration
  <2> QED  BY <2>2, <2>5 DEF Inv
<1>3. CASE ~Dispatches("w", slave_w) /\ UNCHANGED <<sel, connVars, owed, reopened>>
  <2>1. Table(sel') /\ ConnTypes' /\ Holding' /\ Phases'
    BY <1>1, <1>3, StillKeeps DEF Still, connVars
  <2>2. ASSUME NEW e \in owed' PROVE Ahead(e)'
    <3>1. Ahead(e) /\ e[1] \in Nat /\ i <= e[1] /\ e[1] <= n /\ e \in Numbers \X {"r", "w"}
      BY <1>1, <1>3 DEF Iteration, Ahead
    <3>2. i # e[1]
      BY <1>1, <1>3, <3>1 DEF Ahead, Dispatches, Inside
    <3>3. i + 1 <= e[1]
      BY <1>1, <3>1, <3>2
    <3> QED  BY <1>1, <1>3, <3>1, <3>3 DEF Ahead, Used
  <2>3. Iteration'
    BY <1>1, <1>3, <2>2 DEF Iteration
  <2> QED  BY <2>1, <2>3 DEF Inv
<1> QED  BY <1>2, <1>3 DEF Write

LEMMA IteratedKeeps == Inv /\ (Iterated \/ Loop) => Inv'
<1> SUFFICES ASSUME Inv, Iterated \/ Loop PROVE Inv'
  OBVIOUS
<1>1. /\ UNCHANGED <<sel, client, origin, state, tcp, reopened, owed>>
      /\ slave_w' = slave_w \/ slave_w' = {}
  BY DEF Iterated, Loop, connVars
<1>2. Table(sel') /\ ConnTypes' /\ Holding' /\ Phases'
  BY <1>1 DEF Inv, ConnTypes, Holding, Held, Mine, Phases, Phase, Used
<1>3. owed = {}
  <2>1. i \in Nat /\ n \in Nat /\ \A e \in owed : Ahead(e) /\ e[1] \in Nat
    BY SelectorAssumption DEF Inv, Iteration
  <2>2. \A e \in owed : i <= e[1] /\ e[1] <= n /\ pc # "loop"
    BY <2>1 DEF Ahead
  <2>3. CASE Iterated
    BY <2>1, <2>2, <2>3 DEF Iterated, Inside
  <2>4. CASE Loop
    BY <2>2, <2>4 DEF Loop
  <2> QED  BY <2>3, <2>4
<1>4. Iteration'
  BY <1>1, <1>3 DEF Inv, Iteration, Iterated, Loop
<1> QED  BY <1>2, <1>4 DEF Inv

LEMMA SweepKeeps == ASSUME NEW c \in Conns PROVE Inv /\ Sweep(c) => Inv'
<1> SUFFICES ASSUME Inv, Sweep(c) PROVE Inv'
  OBVIOUS
<1>1. Table(sel') /\ ConnTypes' /\ Holding' /\ Phases'
  BY LeaveStep, StepKeeps DEF Sweep
<1>2. owed = {}
  BY DEF Inv, Iteration, Ahead, Sweep
<1>3. Iteration'
  BY <1>2 DEF Inv, Iteration, Sweep
<1> QED  BY <1>1, <1>3 DEF Inv

(* A connection to the origin that is made or fails changes no table; what *)
(* was reported too early stays in reopened.                               *)
LEMMA NetworkKeeps == ASSUME NEW c \in Conns PROVE Inv /\ Network(c) => Inv'
<1> SUFFICES ASSUME Inv, Network(c) PROVE Inv'
  OBVIOUS
<1>1. PICK x \in {"made", "failed"} : tcp' = [tcp EXCEPT ![c] = x]
  BY DEF Network
<1>2. UNCHANGED <<sel, slave_r, slave_w, i, n, pc, client, origin, state, owed, reopened>>
      /\ tcp[c] = "pending"
  BY DEF Network, selVars
<1>3. Table(sel') /\ Holding' /\ ConnTypes'
  BY <1>1, <1>2 DEF Inv, ConnTypes, Holding, Held, Mine, Used
<1>4. Phases'
  <2>1. ASSUME NEW d \in Conns PROVE Phase(d)'
    <3>1. Phase(d) /\ ConnTypes
      BY DEF Inv, Phases
    <3> QED  BY <1>1, <1>2, <3>1 DEF Phase, ConnTypes
  <2> QED  BY <2>1 DEF Phases
<1>5. Iteration'
  BY <1>2 DEF Inv, Iteration, Ahead, Used
<1> QED  BY <1>3, <1>4, <1>5 DEF Inv

LEMMA NextInv == Inv /\ [Next]_vars => Inv'
<1> SUFFICES ASSUME Inv, [Next]_vars PROVE Inv'
  OBVIOUS
<1>1. CASE UNCHANGED vars
  <2>1. Table(sel') /\ ConnTypes' /\ Holding' /\ Phases'
    BY <1>1, StillKeeps DEF vars, selVars, connVars, Still
  <2>2. Iteration'
    BY <1>1 DEF Inv, Iteration, Ahead, Used, vars, selVars
  <2> QED  BY <2>1, <2>2 DEF Inv
<1>2. CASE Next
  BY <1>2, SelectKeeps, ReadKeeps, WriteKeeps, IteratedKeeps, SweepKeeps, NetworkKeeps DEF Next
<1> QED  BY <1>1, <1>2

LEMMA InvHolds == Spec => []Inv
<1> QED  BY InitInv, NextInv, PTL DEF Spec

-----------------------------------------------------------------------------
(* Theorems *)

(* Whatever the handlers of an iteration register, unregister and reopen,  *)
(* the table, the sets given to pselect(), the greatest number and the     *)
(* connections agree (selector_register(), selector_unregister_fd(),       *)
(* selector_set_interest()).                                               *)
THEOREM TablesAreSound == Spec => []TableIsSound
<1> QED  BY InvHolds, InvImplies, PTL

(* No event that was reported and is still of interest is lost             *)
(* (handle_iteration()).                                                   *)
THEOREM NothingIsLost == Spec => []NothingOwed
<1> QED  BY InvHolds, InvImplies, PTL

(* A reply of success to a connection that is not made needs a descriptor  *)
(* that was reported, closed and given again in the same iteration         *)
(* (handle_iteration(), request_connecting_on_write_ready()).              *)
THEOREM ReuseIsTheOnlyCause == Spec => []OnlyReuseIsPremature
<1> QED  BY InvHolds, InvImplies, PTL
=============================================================================
