------------------------- MODULE AccessLog_proofs --------------------------
(***************************************************************************)
(* Proofs about AccessLog, for a ring of any size: the ring implements the *)
(* sequence of the most recent lines, and the file ends with them.         *)
(***************************************************************************)
EXTENDS AccessLog, SequenceTheorems, TLAPS

-----------------------------------------------------------------------------
(* Places of the ring *)

(* One subtraction is enough for a place that was counted on once.         *)
LEMMA ModOnce ==
    ASSUME NEW m \in Nat \ {0}, NEW x \in 0 .. 2 * m - 1
    PROVE  x % m = IF x < m THEN x ELSE x - m
  OBVIOUS

Wrap(x) == IF x < LOG_RECENT_MAX THEN x ELSE x - LOG_RECENT_MAX

LEMMA WrapFacts == \A x \in 0 .. 2 * LOG_RECENT_MAX - 1 : x % LOG_RECENT_MAX = Wrap(x)
  BY ModOnce, AccessLogAssumption DEF Wrap

(* The place of the i-th line of the answer.                               *)
Place(i) ==
    IF recent_count < LOG_RECENT_MAX THEN i - 1
    ELSE IF recent_head + (i - 1) < LOG_RECENT_MAX THEN recent_head + (i - 1)
    ELSE recent_head + (i - 1) - LOG_RECENT_MAX

Read == GetRecent(LOG_RECENT_MAX)

(* What GET_LOG reads, place by place.                                     *)
LEMMA ReadFacts ==
    ASSUME TypeOK
    PROVE  /\ Read = [i \in 1 .. recent_count |-> recent[Place(i)]]
           /\ \A i \in 1 .. recent_count : Place(i) \in Places
           /\ Read \in Seq(Lines \cup {Blank}) /\ Len(Read) = recent_count
           /\ \A i \in 1 .. recent_count : Read[i] = recent[Place(i)]
<1> DEFINE m == LOG_RECENT_MAX
<1>1. /\ m \in Nat \ {0} /\ recent_head \in 0 .. m - 1 /\ recent_count \in 0 .. m
      /\ recent_count < m => recent_head = recent_count
  BY AccessLogAssumption DEF TypeOK, Places
<1>2. Smaller(recent_count, m) = recent_count
  BY <1>1 DEF Smaller
<1>3. Start = IF recent_count < m THEN 0 ELSE recent_head
  <2>1. CASE recent_count < m
    <3>1. recent_head - recent_count + m = m /\ m \in 0 .. 2 * m - 1
      BY <1>1, <2>1
    <3>2. m % m = m - m
      BY <1>1, <3>1, ModOnce
    <3> QED  BY <1>1, <2>1, <3>1, <3>2 DEF Start
  <2>2. CASE ~(recent_count < m)
    <3>1. recent_head - recent_count + m = recent_head /\ recent_head \in 0 .. 2 * m - 1
      BY <1>1, <2>2
    <3> QED  BY <1>1, <2>2, <3>1, ModOnce DEF Start
  <2> QED  BY <2>1, <2>2
<1>4. ASSUME NEW i \in 1 .. recent_count
      PROVE  (Start + (i - 1)) % m = Place(i) /\ Place(i) \in Places
  <2>1. Start + (i - 1) \in 0 .. 2 * m - 1
    BY <1>1, <1>3
  <2>2. (Start + (i - 1)) % m = Wrap(Start + (i - 1))
    BY <2>1, WrapFacts, Zenon
  <2> QED  BY <1>1, <1>3, <2>2 DEF Place, Places, Wrap
<1>5. Read = [i \in 1 .. recent_count |-> recent[Place(i)]]
  BY <1>2, <1>4 DEF Read, GetRecent
<1>6. \A i \in 1 .. recent_count : recent[Place(i)] \in Lines \cup {Blank}
  BY <1>4 DEF TypeOK
<1>7. Read \in [1 .. recent_count -> Lines \cup {Blank}] /\ recent_count \in Nat
  BY <1>1, <1>5, <1>6
<1>8. Read \in Seq(Lines \cup {Blank})
  BY <1>7, SeqDef
<1>9. Len(Read) = recent_count
  BY <1>7, <1>8, LenProperties
<1> QED  BY <1>4, <1>5, <1>8, <1>9

(* The same of the next state.                                             *)
LEMMA ReadFactsNext ==
    TypeOK' => /\ Read' \in Seq(Lines \cup {Blank}) /\ Len(Read') = recent_count'
               /\ \A i \in 1 .. recent_count' : /\ Place(i)' \in Places
                                                /\ Read'[i] = recent'[Place(i)']
<1>1. TypeOK => /\ Read \in Seq(Lines \cup {Blank}) /\ Len(Read) = recent_count
                /\ \A i \in 1 .. recent_count : Place(i) \in Places /\ Read[i] = recent[Place(i)]
  BY ReadFacts
<1>2. (TypeOK => /\ Read \in Seq(Lines \cup {Blank}) /\ Len(Read) = recent_count
                 /\ \A i \in 1 .. recent_count : Place(i) \in Places /\ Read[i] = recent[Place(i)])'
  BY <1>1, PTL
<1> QED  BY <1>2

-----------------------------------------------------------------------------
(* Types *)

(* A line that is written, and where it is found again.                    *)
LEMMA EntryFacts ==
    ASSUME TypeOK, NEW name \in Names, NEW target \in Targets, NEW fails \in BOOLEAN,
           Entry(name, target, fails)
    PROVE  /\ Line(written', name, target) \in Lines
           /\ recent' = [recent EXCEPT ![recent_head] = Line(written', name, target)]
           /\ recent_head' = IF recent_head + 1 < LOG_RECENT_MAX THEN recent_head + 1 ELSE 0
           /\ recent_count' = IF recent_count < LOG_RECENT_MAX THEN recent_count + 1
                              ELSE LOG_RECENT_MAX
           /\ Last' = recent_head /\ recent'[Last'] = Line(written', name, target)
<1> DEFINE m == LOG_RECENT_MAX
<1>1. /\ m \in Nat \ {0} /\ recent_head \in 0 .. m - 1 /\ recent_count \in 0 .. m
      /\ recent_head \in Places
  BY AccessLogAssumption DEF TypeOK, Places
<1>2. Line(written', name, target) \in Lines
  <2>1. written' \in 1 .. MaxLines
    BY AccessLogAssumption DEF TypeOK, Entry
  <2>2. Wanted(name, target) \in Lengths
    BY DEF Lengths
  <2> QED  BY <2>1, <2>2 DEF Line, Lines
<1>3. recent' = [recent EXCEPT ![recent_head] = Line(written', name, target)]
  BY DEF Entry
<1>4. recent_head' = IF recent_head + 1 < m THEN recent_head + 1 ELSE 0
  <2>1. recent_head' = (recent_head + 1) % m /\ recent_head + 1 \in 0 .. 2 * m - 1
    BY <1>1 DEF Entry
  <2>2. (recent_head + 1) % m = Wrap(recent_head + 1)
    BY <2>1, WrapFacts, Zenon
  <2> QED  BY <1>1, <2>1, <2>2 DEF Wrap
<1>5. recent_count' = IF recent_count < m THEN recent_count + 1 ELSE m
  BY <1>1 DEF Entry, Counted
<1>6. Last' = recent_head
  <2>1. Last' = (recent_head' - 1 + m) % m
    BY DEF Last
  <2>2. recent_head' - 1 + m = IF recent_head + 1 < m THEN recent_head + m ELSE m - 1
    BY <1>1, <1>4
  <2>3. recent_head' - 1 + m \in 0 .. 2 * m - 1
    BY <1>1, <2>2
  <2>4. (recent_head' - 1 + m) % m = Wrap(recent_head' - 1 + m)
    BY <2>3, WrapFacts, Zenon
  <2> QED  BY <1>1, <2>1, <2>2, <2>4 DEF Wrap
<1>7. recent'[Last'] = Line(written', name, target)
  BY <1>1, <1>3, <1>6 DEF TypeOK
<1> QED  BY <1>2, <1>3, <1>4, <1>5, <1>6, <1>7

LEMMA InitType == Init => TypeOK
<1> SUFFICES ASSUME Init PROVE TypeOK
  OBVIOUS
<1>1. 0 \in Places /\ 0 \in 0 .. LOG_RECENT_MAX /\ 0 \in 0 .. MaxLines
  BY AccessLogAssumption DEF Places
<1> QED  BY <1>1 DEF Init, TypeOK

LEMMA StepType == TypeOK /\ [Next]_vars => TypeOK'
<1> SUFFICES ASSUME TypeOK, [Next]_vars PROVE TypeOK'
  OBVIOUS
<1>1. ASSUME NEW opened \in BOOLEAN, Open(opened) PROVE TypeOK'
  BY <1>1 DEF Open, TypeOK, ring
<1>2. ASSUME NEW name \in Names, NEW target \in Targets, NEW fails \in BOOLEAN,
             Entry(name, target, fails)
      PROVE  TypeOK'
  <2>1. recent' \in [Places -> Lines \cup {Blank}]
    BY <1>2, EntryFacts DEF TypeOK
  <2>2. /\ recent_head' \in Places /\ recent_count' \in 0 .. LOG_RECENT_MAX
        /\ recent_count' < LOG_RECENT_MAX => recent_head' = recent_count'
    BY <1>2, EntryFacts, AccessLogAssumption DEF TypeOK, Places
  <2>3. file' \in Seq(Lines)
    <3>1. file \in Seq(Lines) /\ recent'[Last'] \in Lines
      BY <1>2, EntryFacts DEF TypeOK
    <3>2. file' = file \/ file' = Append(file, recent'[Last'])
      BY <1>2 DEF Entry
    <3> HIDE DEF TypeOK
    <3> QED  BY <3>1, <3>2
  <2>4. written' \in 0 .. MaxLines
    BY <1>2, AccessLogAssumption DEF Entry, TypeOK
  <2> QED  BY <1>2, <2>1, <2>2, <2>3, <2>4 DEF Entry, TypeOK
<1>3. CASE End
  <2>1. 0 \in Places /\ 0 \in 0 .. LOG_RECENT_MAX
    BY AccessLogAssumption DEF Places
  <2> QED  BY <1>3, <2>1 DEF End, TypeOK
<1>4. CASE UNCHANGED vars
  BY <1>4 DEF vars, ring, TypeOK
<1> QED  BY <1>1, <1>2, <1>3, <1>4 DEF Next

(* The types of the log, at every moment.                                  *)
THEOREM TypesAreCorrect == Spec => []TypeOK
<1> QED  BY InitType, StepType, PTL DEF Spec

-----------------------------------------------------------------------------
(* The ring is the sequence of the most recent lines *)

(* What GET_LOG reads after a line was written: that line last, and of the *)
(* others the oldest one less if the ring was full.                        *)
LEMMA EntryReads ==
    ASSUME TypeOK, TypeOK', NEW name \in Names, NEW target \in Targets, NEW fails \in BOOLEAN,
           Entry(name, target, fails)
    PROVE  /\ recent_count' \in Nat \ {0}
           /\ Read'[recent_count'] = Line(written', name, target)
           /\ \A i \in 1 .. recent_count' - 1 :
                 IF recent_count < LOG_RECENT_MAX THEN i \in 1 .. recent_count /\ Read'[i] = Read[i]
                 ELSE i + 1 \in 1 .. recent_count /\ Read'[i] = Read[i + 1]
<1> DEFINE m == LOG_RECENT_MAX
           l == Line(written', name, target)
<1>1. /\ m \in Nat \ {0} /\ recent_head \in 0 .. m - 1 /\ recent_count \in 0 .. m
      /\ recent_count < m => recent_head = recent_count
  BY AccessLogAssumption DEF TypeOK, Places
<1>2. /\ recent_head' = IF recent_head + 1 < m THEN recent_head + 1 ELSE 0
      /\ recent_count' = IF recent_count < m THEN recent_count + 1 ELSE m
      /\ recent' = [recent EXCEPT ![recent_head] = l]
  BY EntryFacts
<1>3. recent_count' \in Nat \ {0} /\ recent_count' \in Nat /\ recent_count' >= 1
  BY <1>1, <1>2
<1>4. \A i \in 1 .. recent_count' : Read'[i] = recent'[Place(i)'] /\ Place(i)' \in Places
  BY ReadFactsNext
<1>5. \A i \in 1 .. recent_count : Read[i] = recent[Place(i)] /\ Place(i) \in Places
  BY ReadFacts
<1>6. \A p \in Places : recent'[p] = IF p = recent_head THEN l ELSE recent[p]
  BY <1>2 DEF TypeOK
<1>7. ASSUME NEW k, k = recent_count' PROVE Place(k)' = recent_head
  BY <1>1, <1>2, <1>7 DEF Place
<1>8. ASSUME NEW i \in 1 .. recent_count' - 1
      PROVE  IF recent_count < m THEN i \in 1 .. recent_count /\ Read'[i] = Read[i]
             ELSE i + 1 \in 1 .. recent_count /\ Read'[i] = Read[i + 1]
  <2>1. i \in 1 .. recent_count'
    <3>1. ASSUME NEW k \in Nat, NEW j \in 1 .. k - 1 PROVE j \in 1 .. k
      OBVIOUS
    <3> QED  BY <1>3, <3>1
  <2>2. CASE recent_count < m
    <3>1. i \in 1 .. recent_count
      BY <1>1, <1>2, <2>2
    <3>2. Place(i)' = i - 1 /\ Place(i) = i - 1 /\ i - 1 # recent_head
      BY <1>1, <1>2, <2>2, <3>1 DEF Place
    <3> QED  BY <1>4, <1>5, <1>6, <2>1, <2>2, <3>1, <3>2
  <2>3. CASE ~(recent_count < m)
    <3>1. i + 1 \in 1 .. recent_count
      BY <1>1, <1>2, <2>3
    <3>2. Place(i)' = Place(i + 1) /\ Place(i + 1) # recent_head
      BY <1>1, <1>2, <2>3 DEF Place
    <3> QED  BY <1>4, <1>5, <1>6, <2>1, <2>3, <3>1, <3>2
  <2> QED  BY <2>2, <2>3
<1>9. Read'[recent_count'] = l
  <2>1. recent_count' \in 1 .. recent_count' /\ recent_head \in Places
    BY <1>1, <1>3 DEF Places
  <2> QED  BY <1>4, <1>6, <1>7, <2>1
<1> QED  BY <1>3, <1>8, <1>9

LEMMA InitRead == Init => Promise!Init
<1> SUFFICES ASSUME Init PROVE Read = <<>>
  BY DEF Promise!Init, Read
<1>1. TypeOK /\ recent_count = 0
  BY InitType DEF Init
<1>2. Read \in Seq(Lines \cup {Blank}) /\ Len(Read) = 0
  BY <1>1, ReadFacts
<1> QED  BY <1>2, EmptySeq

LEMMA StepRead == TypeOK /\ TypeOK' /\ [Next]_vars => [Promise!Next]_(Read)
<1> SUFFICES ASSUME TypeOK, TypeOK', [Next]_vars
             PROVE  Promise!Next \/ Read' = Read
  OBVIOUS
<1> DEFINE T == Lines \cup {Blank}
<1>1. /\ Read \in Seq(T) /\ Len(Read) = recent_count
      /\ Read' \in Seq(T) /\ Len(Read') = recent_count'
  BY ReadFacts, ReadFactsNext
<1>2. ASSUME NEW name \in Names, NEW target \in Targets, NEW fails \in BOOLEAN,
             Entry(name, target, fails)
      PROVE  Promise!Next
  <2> DEFINE l == Line(written', name, target)
             old == IF recent_count < LOG_RECENT_MAX THEN Read ELSE Tail(Read)
  <2>1. l \in Lines /\ l \in T /\ LOG_RECENT_MAX \in Nat \ {0}
        /\ recent_count \in 0 .. LOG_RECENT_MAX
        /\ recent_count' = IF recent_count < LOG_RECENT_MAX THEN recent_count + 1
                           ELSE LOG_RECENT_MAX
    BY <1>2, EntryFacts, AccessLogAssumption DEF TypeOK
  <2>2. /\ Read'[recent_count'] = l
        /\ \A i \in 1 .. recent_count' - 1 :
              IF recent_count < LOG_RECENT_MAX THEN i \in 1 .. recent_count /\ Read'[i] = Read[i]
              ELSE i + 1 \in 1 .. recent_count /\ Read'[i] = Read[i + 1]
    BY <1>2, EntryReads
  <2> HIDE DEF l, T
  <2>3. /\ old \in Seq(T) /\ Len(old) = recent_count' - 1
        /\ \A i \in 1 .. recent_count' - 1 : old[i] = Read'[i]
    <3>1. CASE recent_count < LOG_RECENT_MAX
      BY <1>1, <2>1, <2>2, <3>1
    <3>2. CASE ~(recent_count < LOG_RECENT_MAX)
      <4>1. Read # <<>> /\ recent_count = LOG_RECENT_MAX
        BY <1>1, <2>1, <3>2
      <4>2. /\ Tail(Read) \in Seq(T) /\ Len(Tail(Read)) = recent_count - 1
            /\ \A i \in 1 .. recent_count - 1 : Tail(Read)[i] = Read[i + 1]
        BY <1>1, <4>1, HeadTailProperties
      <4> QED  BY <2>1, <2>2, <3>2, <4>1, <4>2
    <3> QED  BY <3>1, <3>2
  <2> HIDE DEF old
  <2>4. Read' = Append(old, l)
    <3>1. /\ Append(old, l) \in Seq(T) /\ Len(Append(old, l)) = recent_count'
          /\ \A i \in 1 .. recent_count' - 1 : Append(old, l)[i] = old[i]
          /\ Append(old, l)[recent_count'] = l
      <4>1. /\ Append(old, l) \in Seq(T) /\ Len(Append(old, l)) = Len(old) + 1
            /\ \A i \in 1 .. Len(old) : Append(old, l)[i] = old[i]
            /\ Append(old, l)[Len(old) + 1] = l
        BY <2>1, <2>3, AppendProperties
      <4>2. Len(old) + 1 = recent_count'
        BY <2>1, <2>3
      <4> QED  BY <2>3, <4>1, <4>2
    <3>2. \A i \in 1 .. Len(Read') : Read'[i] = Append(old, l)[i]
      <4>1. \A i \in 1 .. recent_count' : i \in 1 .. recent_count' - 1 \/ i = recent_count'
        BY <2>1
      <4> QED  BY <1>1, <2>2, <2>3, <3>1, <4>1
    <3> QED  BY <1>1, <3>1, <3>2, SeqEqual
  <2>5. Promise!Add(l)
    BY <1>1, <2>4 DEF Promise!Add, old, Read
  <2> QED  BY <2>1, <2>5 DEF Promise!Next
<1>3. CASE End
  <2>1. Len(Read') = 0
    BY <1>1, <1>3 DEF End
  <2>2. Read' = <<>>
    BY <1>1, <2>1, EmptySeq
  <2> QED  BY <2>2 DEF Promise!Next, Promise!Forget, Read
<1>4. ASSUME UNCHANGED ring PROVE Read' = Read
  BY <1>4 DEF ring, Read, GetRecent, Start
<1>5. ASSUME NEW opened \in BOOLEAN, Open(opened) PROVE Read' = Read
  BY <1>4, <1>5 DEF Open
<1>6. CASE UNCHANGED vars
  BY <1>4, <1>6 DEF vars
<1> QED  BY <1>2, <1>3, <1>5, <1>6 DEF Next

(* The ring of access_log.c, however large, is the sequence of the most    *)
(* recent lines, oldest first.                                             *)
THEOREM RingImplementsRecentLog == Spec => ImplementsRecentLog
<1>1. Init => Promise!Init
  BY InitRead
<1>2. TypeOK /\ TypeOK' /\ [Next]_vars => [Promise!Next]_(GetRecent(LOG_RECENT_MAX))
  BY StepRead DEF Read
<1> QED  BY <1>1, <1>2, TypesAreCorrect, PTL DEF Spec, ImplementsRecentLog, Promise!Spec

-----------------------------------------------------------------------------
(* The file ends with the lines of the ring *)

(* The same place by place; and before the server runs there is nothing.   *)
Ends ==
    /\ ~running => recent_count = 0 /\ ~log_file
    /\ log_file /\ ~missed =>
          /\ Len(file) >= recent_count
          /\ \A i \in 1 .. recent_count : file[Len(file) - recent_count + i] = Read[i]

LEMMA StepEnds == TypeOK /\ TypeOK' /\ Ends /\ [Next]_vars => Ends'
<1> SUFFICES ASSUME TypeOK, TypeOK', Ends, [Next]_vars PROVE Ends'
  OBVIOUS
<1>1. ASSUME NEW name \in Names, NEW target \in Targets, NEW fails \in BOOLEAN,
             Entry(name, target, fails)
      PROVE  Ends'
  <2> DEFINE l == Line(written', name, target)
             n == Len(file)
  <2>1. running' /\ log_file' = log_file
    BY <1>1 DEF Entry
  <2>2. SUFFICES ASSUME log_file', ~missed'
                 PROVE  /\ Len(file') >= recent_count'
                        /\ \A i \in 1 .. recent_count' :
                              file'[Len(file') - recent_count' + i] = Read'[i]
    BY <2>1 DEF Ends
  <2>3. file' = Append(file, l) /\ ~missed
    <3>1. recent'[Last'] = l
      BY <1>1, EntryFacts
    <3>2. ~missed /\ file' = Append(file, recent'[Last'])
      BY <1>1, <2>1, <2>2 DEF Entry
    <3> QED  BY <3>1, <3>2
  <2>4. /\ n \in Nat /\ Len(file') = n + 1 /\ file'[n + 1] = l
        /\ \A i \in 1 .. n : file'[i] = file[i]
    <3>1. file \in Seq(Lines) /\ l \in Lines
      BY <1>1, EntryFacts DEF TypeOK
    <3> HIDE DEF l
    <3> QED  BY <2>3, <3>1, AppendProperties, LenProperties
  <2>5. /\ n >= recent_count
        /\ \A i \in 1 .. recent_count : file[n - recent_count + i] = Read[i]
    BY <2>1, <2>2, <2>3 DEF Ends
  <2>6. /\ LOG_RECENT_MAX \in Nat \ {0} /\ recent_count \in 0 .. LOG_RECENT_MAX
        /\ recent_count' = IF recent_count < LOG_RECENT_MAX THEN recent_count + 1
                           ELSE LOG_RECENT_MAX
    BY <1>1, EntryFacts, AccessLogAssumption DEF TypeOK
  <2>7. /\ Read'[recent_count'] = l
        /\ \A i \in 1 .. recent_count' - 1 :
              IF recent_count < LOG_RECENT_MAX THEN i \in 1 .. recent_count /\ Read'[i] = Read[i]
              ELSE i + 1 \in 1 .. recent_count /\ Read'[i] = Read[i + 1]
    BY <1>1, EntryReads
  <2> HIDE DEF l, n
  <2>8. n + 1 >= recent_count'
    BY <2>4, <2>5, <2>6
  <2>9. ASSUME NEW i \in 1 .. recent_count' PROVE file'[Len(file') - recent_count' + i] = Read'[i]
    <3>1. CASE i = recent_count'
      <4>1. Len(file') - recent_count' + i = n + 1
        BY <2>4, <2>6, <3>1
      <4> QED  BY <2>4, <2>7, <3>1, <4>1
    <3>2. CASE i # recent_count' /\ recent_count < LOG_RECENT_MAX
      <4>1. i \in 1 .. recent_count' - 1 /\ i \in 1 .. recent_count
            /\ Len(file') - recent_count' + i = n - recent_count + i
            /\ n - recent_count + i \in 1 .. n
        BY <2>4, <2>5, <2>6, <3>2
      <4> QED  BY <2>4, <2>5, <2>7, <3>2, <4>1
    <3>3. CASE i # recent_count' /\ ~(recent_count < LOG_RECENT_MAX)
      <4>1. i \in 1 .. recent_count' - 1 /\ i + 1 \in 1 .. recent_count
            /\ Len(file') - recent_count' + i = n - recent_count + (i + 1)
            /\ n - recent_count + (i + 1) \in 1 .. n
        BY <2>4, <2>5, <2>6, <3>3
      <4>2. file[n - recent_count + (i + 1)] = Read[i + 1]
        BY <2>5, <4>1
      <4> QED  BY <2>4, <2>7, <3>3, <4>1, <4>2
    <3> QED  BY <3>1, <3>2, <3>3
  <2>10. Len(file') >= recent_count'
    BY <2>4, <2>8
  <2> QED  BY <2>9, <2>10
<1>2. CASE End
  <2>1. log_file' = FALSE /\ recent_count' = 0
    BY <1>2 DEF End
  <2> QED  BY <2>1 DEF Ends
<1>3. ASSUME NEW opened \in BOOLEAN, Open(opened) PROVE Ends'
  <2>1. recent_count' = 0 /\ running' /\ file' = file
    BY <1>3 DEF Open, ring, Ends
  <2>2. Len(file') \in Nat
    BY LenProperties DEF TypeOK
  <2> QED  BY <2>1, <2>2 DEF Ends
<1>4. CASE UNCHANGED vars
  <2>1. Read' = Read
    BY <1>4 DEF vars, ring, Read, GetRecent, Start
  <2> QED  BY <1>4, <2>1 DEF vars, ring, Ends
<1> QED  BY <1>1, <1>2, <1>3, <1>4 DEF Next

(* What GET_LOG shows is on the disk, unless a write failed.               *)
THEOREM FileAlwaysEndsWithRecent == Spec => []FileEndsWithRecent
<1>1. Init => Ends
  BY DEF Init, Ends
<1>2. TypeOK /\ TypeOK' /\ Ends /\ [Next]_vars => Ends'
  BY StepEnds
<1>3. ASSUME TypeOK, Ends PROVE FileEndsWithRecent
  <2> DEFINE n == Len(file)
             a == n - recent_count + 1
  <2>1. SUFFICES ASSUME log_file, ~missed
                 PROVE  n >= recent_count /\ SubSeq(file, a, n) = Read
    BY DEF FileEndsWithRecent, Read
  <2>2. /\ n >= recent_count /\ n \in Nat /\ recent_count \in Nat
        /\ file \in Seq(Lines) /\ \A i \in 1 .. n : file[i] \in Lines
        /\ \A i \in 1 .. recent_count : file[n - recent_count + i] = Read[i]
    BY <1>3, <2>1, LenProperties, ElementOfSeq, AccessLogAssumption DEF TypeOK, Ends
  <2>3. Read \in Seq(Lines \cup {Blank}) /\ Len(Read) = recent_count
    BY <1>3, ReadFacts
  <2> HIDE DEF n
  <2>4. a \in Int /\ n \in Int /\ n - a + 1 = recent_count
        /\ \A i \in a .. n : file[i] \in Lines \cup {Blank}
    BY <2>2
  <2>5. /\ SubSeq(file, a, n) \in Seq(Lines \cup {Blank})
        /\ Len(SubSeq(file, a, n)) = IF a <= n THEN n - a + 1 ELSE 0
        /\ \A i \in 1 .. n - a + 1 : SubSeq(file, a, n)[i] = file[a + i - 1]
    <3> HIDE DEF a
    <3> QED  BY <2>4, SubSeqProperties
  <2>6. Len(SubSeq(file, a, n)) = recent_count
    BY <2>2, <2>4, <2>5
  <2>7. \A i \in 1 .. recent_count : SubSeq(file, a, n)[i] = Read[i]
    <3>1. ASSUME NEW i \in 1 .. recent_count PROVE SubSeq(file, a, n)[i] = Read[i]
      <4>1. a + i - 1 = n - recent_count + i
        BY <2>2
      <4> QED  BY <2>2, <2>4, <2>5, <4>1
    <3> QED  BY <3>1
  <2> QED  BY <2>2, <2>3, <2>5, <2>6, <2>7, SeqEqual
<1> QED  BY <1>1, <1>2, <1>3, TypesAreCorrect, PTL DEF Spec
=============================================================================
