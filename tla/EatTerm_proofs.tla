--------------------------- MODULE EatTerm_proofs ---------------------------
(***************************************************************************)
(* Theorems about EatTerm, for any number of terminals: the list, the      *)
(* buffer that is shown, the switches that exits schedule, and that going  *)
(* round the list visits every terminal.                                   *)
(***************************************************************************)
EXTENDS EatTerm, WellFoundedInduction, FiniteSetTheorems, SequenceTheorems, TLAPS

-----------------------------------------------------------------------------
(* Lists without repetition. *)

\* The elements of a list that are kept are ranked from 1 on.
LEMMA Ranked ==
  ASSUME NEW n \in Nat, NEW at \in SUBSET (1 .. n)
  PROVE  /\ Cardinality(at) \in Nat
         /\ \A k \in 1 .. Cardinality(at) :
              \E i \in at : Cardinality({j \in at : j <= i}) = k
         /\ \A i \in at : Cardinality({j \in at : j <= i}) \in 1 .. Cardinality(at)
         /\ \A i, m \in at : Cardinality({j \in at : j <= i}) = Cardinality({j \in at : j <= m})
                               => i = m
<1> DEFINE size == Cardinality(at)
           UpTo(i) == {j \in at : j <= i}
           rank == [i \in at |-> Cardinality(UpTo(i))]
<1>1. IsFiniteSet(at)
  <2>1. IsFiniteSet(1 .. n)
    BY FS_Interval
  <2> QED BY <2>1, FS_Subset
<1>2. size \in Nat
  BY <1>1, FS_CardinalityType
<1>3. ASSUME NEW i \in at
      PROVE  /\ IsFiniteSet(UpTo(i)) /\ Cardinality(UpTo(i)) \in 1 .. size
  <2>1. UpTo(i) \in SUBSET at /\ i \in UpTo(i)
    BY <1>3
  <2>2. IsFiniteSet(UpTo(i)) /\ Cardinality(UpTo(i)) <= size
    BY <1>1, <2>1, FS_Subset
  <2>3. Cardinality(UpTo(i)) \in Nat
    BY <2>2, FS_CardinalityType
  <2>4. Cardinality(UpTo(i)) # 0
    BY <2>1, <2>2, FS_EmptySet
  <2> QED BY <1>2, <2>2, <2>3, <2>4
<1>4. ASSUME NEW i \in at, NEW m \in at, i < m
      PROVE  Cardinality(UpTo(i)) # Cardinality(UpTo(m))
  <2>1. UpTo(i) \in SUBSET UpTo(m) /\ m \in UpTo(m) /\ m \notin UpTo(i)
    <3>1. i \in Nat /\ m \in Nat /\ \A j \in at : j \in Nat
      OBVIOUS
    <3>2. \A j \in at : j <= i => j <= m
      BY <1>4, <3>1
    <3>3. m <= m /\ ~(m <= i)
      BY <1>4, <3>1
    <3>4. UpTo(i) \in SUBSET UpTo(m)
      BY <3>2
    <3> QED BY <3>3, <3>4
  <2> QED BY <1>3, <2>1, FS_Subset
<1>5. \A i, m \in at : Cardinality(UpTo(i)) = Cardinality(UpTo(m)) => i = m
  <2> SUFFICES ASSUME NEW i \in at, NEW m \in at, i # m
               PROVE  Cardinality(UpTo(i)) # Cardinality(UpTo(m))
    OBVIOUS
  <2>1. i < m \/ m < i
    OBVIOUS
  <2> HIDE DEF UpTo
  <2> QED BY <1>4, <2>1
<1>6. rank \in Injection(at, 1 .. size)
  <2>1. rank \in [at -> 1 .. size]
    BY <1>3
  <2>2. \A i, m \in at : rank[i] = rank[m] => i = m
    BY <1>5
  <2> HIDE DEF rank
  <2> QED BY <2>1, <2>2 DEF Injection, IsInjective
<1>7. IsFiniteSet(1 .. size) /\ Cardinality(1 .. size) = size
  <2>1. CASE size = 0
    BY <2>1, FS_Interval
  <2>2. CASE size # 0
    BY <1>2, <2>2, FS_Interval
  <2> QED BY <2>1, <2>2
<1>8. rank \in Surjection(at, 1 .. size)
  BY <1>6, <1>7, FS_Injection
<1>9. \A k \in 1 .. size : \E i \in at : Cardinality(UpTo(i)) = k
  BY <1>8 DEF Surjection
<1> QED BY <1>2, <1>3, <1>5, <1>9

\* seq-filter and delq, of a list without repetition.
LEMMA FilteredList ==
  ASSUME NEW list \in Seq(Buffer), IsInjective(list), NEW keep
  PROVE  /\ Filtered(list, keep) \in Seq(Buffer)
         /\ IsInjective(Filtered(list, keep))
         /\ ToSet(Filtered(list, keep)) = ToSet(list) \cap keep
<1> DEFINE n == Len(list)
           at == {i \in DOMAIN list : list[i] \in keep}
           Rank(i) == Cardinality({j \in at : j <= i})
           pick == [k \in 1 .. Cardinality(at) |-> CHOOSE i \in at : Rank(i) = k]
           rest == Filtered(list, keep)
<1>1. n \in Nat /\ DOMAIN list = 1 .. n /\ at \in SUBSET (1 .. n)
  BY LenProperties
<1>2. \A i \in 1 .. n : list[i] \in Buffer
  BY <1>1, ElementOfSeq
<1> HIDE DEF at
<1>3. /\ Cardinality(at) \in Nat
      /\ \A k \in 1 .. Cardinality(at) : \E i \in at : Rank(i) = k
      /\ \A i \in at : Rank(i) \in 1 .. Cardinality(at)
      /\ \A i, m \in at : Rank(i) = Rank(m) => i = m
  BY <1>1, Ranked
<1> DEFINE size == Cardinality(at)
<1>4. rest = [k \in 1 .. size |-> list[CHOOSE i \in at : Rank(i) = k]]
  BY DEF Filtered, at
<1> HIDE DEF Rank
<1>5. \A k \in 1 .. size : pick[k] \in at /\ Rank(pick[k]) = k
  BY <1>3
<1>6. \A k \in 1 .. size : rest[k] = list[pick[k]]
  BY <1>4
<1>7. DOMAIN rest = 1 .. size
  BY <1>4
<1> HIDE DEF pick, rest
<1>8. rest \in Seq(Buffer)
  <2>1. \A k \in 1 .. size : rest[k] \in Buffer
    BY <1>1, <1>2, <1>5, <1>6
  <2>2. rest = [k \in 1 .. size |-> rest[k]]
    BY <1>4 DEF rest
  <2>3. rest \in [1 .. size -> Buffer]
    BY <2>1, <2>2
  <2> QED BY <1>3, <2>3, SeqDef
<1>9. IsInjective(rest)
  <2> SUFFICES ASSUME NEW k \in 1 .. size, NEW m \in 1 .. size, rest[k] = rest[m]
               PROVE  k = m
    BY <1>7 DEF IsInjective
  <2>1. list[pick[k]] = list[pick[m]] /\ pick[k] \in DOMAIN list /\ pick[m] \in DOMAIN list
    BY <1>1, <1>5, <1>6
  <2>2. pick[k] = pick[m]
    BY <2>1 DEF IsInjective
  <2> QED BY <1>5, <2>2
<1>10. \A i \in at : \E k \in 1 .. size : pick[k] = i
  <2> TAKE i \in at
  <2>1. Rank(i) \in 1 .. size /\ pick[Rank(i)] \in at /\ Rank(pick[Rank(i)]) = Rank(i)
    BY <1>3, <1>5
  <2> QED BY <1>3, <2>1
<1>11. ToSet(rest) = {list[i] : i \in at}
  <2>1. ToSet(rest) = {rest[k] : k \in 1 .. size}
    BY <1>7 DEF ToSet
  <2> QED BY <1>5, <1>6, <1>10, <2>1
<1>12. {list[i] : i \in at} = ToSet(list) \cap keep
  BY <1>1 DEF at, ToSet
<1> QED BY <1>8, <1>9, <1>11, <1>12 DEF rest
\* What is put at the end of a list that does not hold it.
LEMMA AppendedList ==
  ASSUME NEW list \in Seq(Buffer), IsInjective(list), NEW b \in Buffer, b \notin ToSet(list)
  PROVE  /\ Append(list, b) \in Seq(Buffer)
         /\ IsInjective(Append(list, b))
         /\ ToSet(Append(list, b)) = ToSet(list) \cup {b}
<1> DEFINE n == Len(list)
           more == Append(list, b)
<1>1. /\ n \in Nat /\ DOMAIN list = 1 .. n
      /\ more \in Seq(Buffer) /\ Len(more) = n + 1
      /\ \A i \in 1 .. n : more[i] = list[i]
      /\ more[n + 1] = b
  BY LenProperties, AppendProperties
<1>2. DOMAIN more = 1 .. n + 1
  BY <1>1, LenProperties
<1> HIDE DEF more
<1>3. \A i \in 1 .. n + 1 : i \in 1 .. n \/ i = n + 1
  BY <1>1
<1>4. \A i \in 1 .. n : i \in 1 .. n + 1 /\ list[i] # b
  BY <1>1 DEF ToSet
<1>5. n + 1 \in 1 .. n + 1
  BY <1>1
<1>6. ToSet(more) = ToSet(list) \cup {b}
  BY <1>1, <1>2, <1>3, <1>4, <1>5 DEF ToSet
<1>7. IsInjective(more)
  BY <1>1, <1>2, <1>3, <1>4 DEF IsInjective
<1> QED BY <1>1, <1>6, <1>7 DEF more

-----------------------------------------------------------------------------
(* The invariant. *)

\* A buffer with an emulator exists.
Owned == \A b \in Buffer : process[b] # "none" => b \in alive

TermInv == TypeOK /\ Owned /\ CurrentExists

\* What TypeOK says of the list.
LEMMA ListType ==
  ASSUME TypeOK
  PROVE  bufferList \in Seq(Buffer) /\ IsInjective(bufferList) /\ ToSet(bufferList) = alive
<1>1. ToSet(bufferList) = alive /\ alive \subseteq Buffer /\ IsInjective(bufferList)
  BY DEF TypeOK, Listed
<1> QED BY <1>1 DEF TypeOK

\* my/eat-prune-buffer-list finds nothing to prune.
LEMMA Pruned ==
  ASSUME TypeOK
  PROVE  /\ Prune(bufferList) \in Seq(Buffer) /\ IsInjective(Prune(bufferList))
         /\ ToSet(Prune(bufferList)) = alive
<1>1. /\ Filtered(bufferList, alive) \in Seq(Buffer)
      /\ IsInjective(Filtered(bufferList, alive))
      /\ ToSet(Filtered(bufferList, alive)) = ToSet(bufferList) \cap alive
  BY ListType, FilteredList, Zenon
<1>2. ToSet(bufferList) \cap alive = alive
  BY ListType
<1> QED BY <1>1, <1>2, Zenon DEF Prune

\* The invariant holds before the first terminal.
LEMMA TermInit == Init => TermInv
BY EmptySeq, BoundAssumption DEF Init, TermInv, TypeOK, Owned, CurrentExists, Listed, ToSet, IsInjective
\* my/eat-on-exec has a buffer on the list once, whether or not it was on it.
LEMMA RegisteredList ==
  ASSUME TypeOK, NEW b \in Buffer
  PROVE  /\ Registered(b) \in Seq(Buffer) /\ IsInjective(Registered(b))
         /\ ToSet(Registered(b)) = alive \cup {b}
<1> DEFINE bufs == Filtered(bufferList, alive \cup {b})
<1>1. bufs \in Seq(Buffer) /\ IsInjective(bufs) /\ ToSet(bufs) = alive
  <2>1. bufferList \in Seq(Buffer) /\ IsInjective(bufferList) /\ ToSet(bufferList) = alive
    BY ListType
  <2>2. /\ bufs \in Seq(Buffer) /\ IsInjective(bufs)
        /\ ToSet(bufs) = ToSet(bufferList) \cap (alive \cup {b})
    BY <2>1, FilteredList
  <2> HIDE DEF bufs
  <2> QED BY <2>1, <2>2
<1>2. Registered(b) = IF b \in ToSet(bufs) THEN bufs ELSE Append(bufs, b)
  BY DEF Registered
<1> HIDE DEF bufs
<1>3. CASE b \in ToSet(bufs)
  BY <1>1, <1>2, <1>3
<1>4. CASE b \notin ToSet(bufs)
  BY <1>1, <1>2, <1>4, AppendedList
<1> QED BY <1>3, <1>4

\* my/eat, for a buffer that is new, idle or in use.
LEMMA EatStep ==
  ASSUME TermInv, NEW b \in Buffer, Eat(b)
  PROVE  TermInv'
<1>1. /\ current' = b /\ alive' = alive \cup {b} /\ switches' = switches
      /\ TypeOK /\ Owned /\ alive \subseteq Buffer /\ process \in [Buffer -> {"live", "dead", "none", "stuck"}]
  BY DEF Eat, TermInv, TypeOK
<1>2. CASE process[b] = "none"
  <2>1. process' = [process EXCEPT ![b] = "live"] /\ bufferList' = Registered(b)
    BY <1>2 DEF Eat
  <2>2. /\ process' \in [Buffer -> {"live", "dead", "none", "stuck"}]
        /\ \A c \in Buffer : c # b => process'[c] = process[c]
    BY <1>1, <2>1
  <2>3. TypeOK'
    BY <1>1, <2>1, <2>2, RegisteredList DEF TypeOK, Listed
  <2>4. Owned'
    BY <1>1, <2>2 DEF Owned
  <2> QED BY <1>1, <2>3, <2>4 DEF TermInv, CurrentExists
<1>3. CASE process[b] # "none"
  <2>1. UNCHANGED <<process, bufferList>>
    BY <1>3 DEF Eat
  <2>2. alive' = alive
    BY <1>1, <1>3 DEF Owned
  <2> QED BY <1>1, <2>1, <2>2 DEF TermInv, TypeOK, Owned, CurrentExists, Listed
<1> QED BY <1>2, <1>3

-----------------------------------------------------------------------------
(* Going round the list. *)

\* mod, of an index that is at most one step outside of the list.
LEMMA Wrapped ==
  ASSUME NEW n \in Nat \ {0}, NEW i \in -1 .. n
  PROVE  i % n = IF i = -1 THEN n - 1 ELSE IF i = n THEN 0 ELSE i
<1>1. CASE i = -1
  BY <1>1
<1>2. CASE i = n
  BY <1>2
<1>3. CASE i \in 0 .. n - 1
  BY <1>3
<1> QED BY <1>1, <1>2, <1>3

\* Where a buffer is on a list without repetition.
LEMMA PositionOf ==
  ASSUME NEW list \in Seq(Buffer), IsInjective(list)
  PROVE  /\ Len(list) \in Nat
         /\ \A b \in ToSet(list) : /\ Position(b, list) \in 0 .. Len(list) - 1
                                   /\ list[Position(b, list) + 1] = b
         /\ \A i \in 0 .. Len(list) - 1 : /\ list[i + 1] \in ToSet(list)
                                          /\ Position(list[i + 1], list) = i
<1> DEFINE n == Len(list)
<1>1. n \in Nat /\ DOMAIN list = 1 .. n
  BY LenProperties
<1>2. ASSUME NEW b \in ToSet(list)
      PROVE  Position(b, list) \in 0 .. n - 1 /\ list[Position(b, list) + 1] = b
  <2>1. PICK j \in 1 .. n : list[j] = b
    BY <1>1 DEF ToSet
  <2>2. j - 1 \in 0 .. n - 1 /\ list[(j - 1) + 1] = b
    BY <1>1, <2>1
  <2> QED BY <2>2 DEF Position
<1>3. ASSUME NEW i \in 0 .. n - 1
      PROVE  list[i + 1] \in ToSet(list) /\ Position(list[i + 1], list) = i
  <2>1. i + 1 \in DOMAIN list
    BY <1>1
  <2>2. list[i + 1] \in ToSet(list)
    BY <2>1 DEF ToSet
  <2> DEFINE p == Position(list[i + 1], list)
  <2>3. p \in 0 .. n - 1 /\ list[p + 1] = list[i + 1]
    BY <1>2, <2>2
  <2> HIDE DEF p
  <2>4. p + 1 \in DOMAIN list
    BY <1>1, <2>3
  <2>5. p + 1 = i + 1
    BY <2>1, <2>3, <2>4 DEF IsInjective
  <2> QED BY <2>2, <2>3, <2>5 DEF p
<1> QED BY <1>1, <1>2, <1>3

\* A step from a buffer of the list comes to one of the list.
LEMMA CycledListed ==
  ASSUME NEW list \in Seq(Buffer), IsInjective(list), NEW b \in ToSet(list), NEW step \in {1, -1}
  PROVE  /\ Len(list) \in Nat \ {0}
         /\ LET to == (Position(b, list) + step) % Len(list)
            IN /\ to \in 0 .. Len(list) - 1
               /\ Cycled(b, step, list) = list[to + 1]
               /\ Cycled(b, step, list) \in ToSet(list)
               /\ Position(Cycled(b, step, list), list) = to
<1> DEFINE n == Len(list)
           p == Position(b, list)
           to == (p + step) % n
<1>1. n \in Nat /\ p \in 0 .. n - 1
  BY PositionOf
<1>2. n \in Nat \ {0} /\ p + step \in -1 .. n
  BY <1>1
<1>3. to \in 0 .. n - 1
  <2> DEFINE i == p + step
  <2>1. n \in Nat \ {0} /\ i \in -1 .. n
    BY <1>2
  <2> HIDE DEF i, n
  <2>2. i % n = IF i = -1 THEN n - 1 ELSE IF i = n THEN 0 ELSE i
    BY <2>1, Wrapped
  <2>3. i % n \in 0 .. n - 1
    BY <2>1, <2>2
  <2> QED BY <2>3 DEF i, n
<1>4. Cycled(b, step, list) = list[1 + to]
  BY DEF Cycled
<1> HIDE DEF to
<1>5. list[1 + to] = list[to + 1]
  BY <1>3
<1> QED BY <1>2, <1>3, <1>4, <1>5, PositionOf DEF to
\* my/eat-next and my/eat-prev, from a terminal or from elsewhere.
LEMMA CycleStep ==
  ASSUME TermInv, NEW step \in {1, -1}, Cycle(step)
  PROVE  TermInv'
<1> DEFINE bufs == Prune(bufferList)
<1>1. /\ bufs # <<>> /\ bufferList' = bufs /\ UNCHANGED <<process, alive, switches>>
      /\ current' = IF current \in ToSet(bufs) THEN Cycled(current, step, bufs) ELSE bufs[1]
      /\ TypeOK /\ Owned
  BY DEF Cycle, TermInv
<1>2. bufs \in Seq(Buffer) /\ IsInjective(bufs) /\ ToSet(bufs) = alive
  BY <1>1, Pruned
<1> HIDE DEF bufs
<1>3. current' \in alive
  <2>1. CASE current \in ToSet(bufs)
    BY <1>1, <1>2, <2>1, CycledListed
  <2>2. CASE current \notin ToSet(bufs)
    <3>1. 1 \in DOMAIN bufs
      BY <1>1, <1>2, EmptySeq, LenProperties
    <3>2. bufs[1] \in ToSet(bufs)
      BY <3>1 DEF ToSet
    <3> QED BY <1>1, <1>2, <2>2, <3>2
  <2> QED BY <2>1, <2>2
<1>4. TypeOK'
  BY <1>1, <1>2, <1>3 DEF TypeOK, Listed
<1> QED BY <1>1, <1>3, <1>4 DEF TermInv, Owned, CurrentExists

-----------------------------------------------------------------------------
(* Terminals that go. *)

\* kill-buffer, whatever list its hook finds.
LEMMA KillStep ==
  ASSUME TermInv, NEW b \in Buffer, NEW list \in Seq(Buffer), IsInjective(list),
         ToSet(list) \cap alive = alive \ {b} \/ ToSet(list) = alive,
         Kill(b, list), switches' \in Seq(Buffer), Len(switches') <= MaxSwitches
  PROVE  TermInv' /\ ToSet(bufferList') = alive \ {b}
<1>1. /\ alive' = alive \ {b} /\ bufferList' = Delq(b, Prune(list))
      /\ process' = [process EXCEPT ![b] = "none"]
      /\ current' \in alive' \cup {Elsewhere} \/ (current # b /\ current' = current)
      /\ TypeOK /\ Owned /\ alive \subseteq Buffer
      /\ process \in [Buffer -> {"live", "dead", "none", "stuck"}]
      /\ current \in alive \cup {Elsewhere}
  BY DEF Kill, TermInv, TypeOK, CurrentExists
<1>2. /\ Prune(list) \in Seq(Buffer) /\ IsInjective(Prune(list))
      /\ ToSet(Prune(list)) = ToSet(list) \cap alive
  BY FilteredList DEF Prune
<1>3. /\ bufferList' \in Seq(Buffer) /\ IsInjective(bufferList')
      /\ ToSet(bufferList') = ToSet(Prune(list)) \cap (Buffer \ {b})
  BY <1>1, <1>2, FilteredList DEF Delq
<1>4. ToSet(bufferList') = alive'
  BY <1>1, <1>2, <1>3
<1>5. /\ process' \in [Buffer -> {"live", "dead", "none", "stuck"}]
      /\ process'[b] = "none" /\ \A c \in Buffer : c # b => process'[c] = process[c]
  BY <1>1
<1>6. current' \in alive' \cup {Elsewhere}
  BY <1>1
<1>7. TypeOK'
  BY <1>1, <1>3, <1>4, <1>5, <1>6 DEF TypeOK, Listed
<1>8. Owned'
  BY <1>1, <1>5 DEF Owned
<1> QED BY <1>1, <1>4, <1>6, <1>7, <1>8 DEF TermInv, CurrentExists

\* The terminals that an exit may go to.
LEMMA OthersList ==
  ASSUME TypeOK, NEW b \in Buffer
  PROVE  /\ Others(b) \in Seq(Buffer) /\ IsInjective(Others(b))
         /\ ToSet(Others(b)) = alive \ {b}
         /\ Others(b) # <<>> => Others(b)[1] \in alive \ {b}
<1>1. Prune(bufferList) \in Seq(Buffer) /\ IsInjective(Prune(bufferList)) /\ ToSet(Prune(bufferList)) = alive
  BY Pruned
<1>2. /\ Others(b) \in Seq(Buffer) /\ IsInjective(Others(b))
      /\ ToSet(Others(b)) = alive \cap (Buffer \ {b})
  BY <1>1, FilteredList DEF Others, Delq
<1>3. ToSet(Others(b)) = alive \ {b}
  BY <1>2 DEF TypeOK
<1>4. ASSUME Others(b) # <<>> PROVE Others(b)[1] \in alive \ {b}
  <2>1. 1 \in DOMAIN Others(b)
    BY <1>2, <1>4, EmptySeq, LenProperties
  <2>2. Others(b)[1] \in ToSet(Others(b))
    BY <2>1 DEF ToSet
  <2> QED BY <1>3, <2>2
<1> QED BY <1>2, <1>3, <1>4

\* The exit of a terminal, with the functions of its hook or without.
LEMMA SentinelStep ==
  ASSUME TermInv, NEW b \in Buffer, Sentinel(b)
  PROVE  /\ TermInv'
         /\ \/ switches' = switches \/ Last(switches') \in alive \ {b}
         /\ alive' = alive \/ alive' = alive \ {b}
<1>1. TypeOK /\ Owned /\ switches \in Seq(Buffer) /\ MaxSwitches \in Nat /\ process[b] = "dead"
  BY BoundAssumption DEF TermInv, TypeOK, Sentinel
<1>2. CASE \E next \in {"none", "stuck"} : /\ process' = [process EXCEPT ![b] = next]
                                           /\ UNCHANGED <<alive, bufferList, current, switches>>
  <2>1. PICK next \in {"none", "stuck"} : process' = [process EXCEPT ![b] = next]
    BY <1>2
  <2>2. /\ process \in [Buffer -> {"live", "dead", "none", "stuck"}] /\ b \in alive
    BY <1>1 DEF TypeOK, Owned
  <2>3. /\ process' \in [Buffer -> {"live", "dead", "none", "stuck"}]
        /\ \A c \in Buffer : c # b => process'[c] = process[c]
    BY <2>1, <2>2
  <2>4. TypeOK' /\ CurrentExists'
    BY <1>2, <2>3 DEF TermInv, TypeOK, Listed, CurrentExists
  <2>5. Owned'
    BY <1>1, <1>2, <2>2, <2>3 DEF Owned
  <2> QED BY <1>2, <2>4, <2>5 DEF TermInv
<1>3. CASE /\ Len(switches) < MaxSwitches
           /\ switches' = IF Others(b) # <<>> THEN Append(switches, Others(b)[1]) ELSE switches
           /\ Kill(b, Others(b))
  <2>1. /\ Others(b) \in Seq(Buffer) /\ IsInjective(Others(b)) /\ ToSet(Others(b)) = alive \ {b}
        /\ Others(b) # <<>> => Others(b)[1] \in alive \ {b}
    BY <1>1, OthersList
  <2>2. /\ switches' \in Seq(Buffer) /\ Len(switches') <= MaxSwitches
        /\ \/ switches' = switches \/ Last(switches') \in alive \ {b}
    <3>1. CASE Others(b) = <<>>
      BY <1>1, <1>3, <3>1, LenProperties
    <3>2. CASE Others(b) # <<>>
      <4> DEFINE next == Others(b)[1]
      <4>1. next \in Buffer /\ next \in alive \ {b} /\ switches' = Append(switches, next)
        BY <1>1, <1>3, <2>1, <3>2 DEF TypeOK
      <4> HIDE DEF next
      <4>2. /\ switches' \in Seq(Buffer) /\ Len(switches') = Len(switches) + 1
            /\ switches'[Len(switches) + 1] = next
        BY <1>1, <4>1, AppendProperties
      <4>3. Last(switches') = next
        BY <4>2 DEF Last
      <4>4. Len(switches) \in Nat
        BY <1>1, LenProperties
      <4> QED BY <1>1, <1>3, <4>1, <4>2, <4>3, <4>4
    <3> QED BY <3>1, <3>2
  <2>3. ToSet(Others(b)) \cap alive = alive \ {b}
    BY <2>1
  <2>4. TermInv'
    BY <1>3, <2>1, <2>2, <2>3, KillStep
  <2> QED BY <1>3, <2>2, <2>4 DEF Kill
<1> QED BY <1>2, <1>3 DEF Sentinel

\* Every step preserves the invariant.
LEMMA TermStep == TermInv /\ [Next]_vars => TermInv'
<1> SUFFICES ASSUME TermInv, [Next]_vars PROVE TermInv'
  OBVIOUS
<1>1. TypeOK /\ Owned /\ CurrentExists
  BY DEF TermInv
<1>2. ASSUME NEW b \in Buffer, Eat(b) PROVE TermInv'
  BY <1>2, EatStep
<1>3. ASSUME NEW b \in Buffer, ProcessDies(b) PROVE TermInv'
  <2>1. /\ process[b] = "live" /\ process' = [process EXCEPT ![b] = "dead"]
        /\ UNCHANGED <<alive, bufferList, current, switches>>
        /\ process \in [Buffer -> {"live", "dead", "none", "stuck"}]
    BY <1>1, <1>3 DEF ProcessDies, TypeOK
  <2>2. /\ process' \in [Buffer -> {"live", "dead", "none", "stuck"}]
        /\ \A c \in Buffer : c # b => process'[c] = process[c]
    BY <2>1
  <2>3. Owned'
    BY <1>1, <2>1, <2>2 DEF Owned
  <2> QED BY <1>1, <2>1, <2>2, <2>3 DEF TermInv, TypeOK, CurrentExists, Listed
<1>4. ASSUME NEW b \in Buffer, KillBuffer(b) PROVE TermInv'
  <2>1. Kill(b, bufferList) /\ switches' = switches
    BY <1>4 DEF KillBuffer
  <2>2. bufferList \in Seq(Buffer) /\ IsInjective(bufferList) /\ ToSet(bufferList) = alive
    BY <1>1, ListType
  <2>3. switches' \in Seq(Buffer) /\ Len(switches') <= MaxSwitches
    BY <1>1, <2>1 DEF TypeOK
  <2> QED BY <2>1, <2>2, <2>3, KillStep
<1>5. ASSUME NEW b \in Buffer, Sentinel(b) PROVE TermInv'
  BY <1>5, SentinelStep
<1>6. CASE NextTerminal \/ PreviousTerminal
  BY <1>6, CycleStep DEF NextTerminal, PreviousTerminal
<1>7. CASE Leave
  BY <1>1, <1>7 DEF Leave, TermInv, TypeOK, Owned, CurrentExists, Listed
<1>8. CASE RunSwitch
  <2>1. /\ switches # <<>> /\ switches' = Tail(switches) /\ UNCHANGED <<process, alive, bufferList>>
        /\ current' = current \/ current' \in alive
    BY <1>8 DEF RunSwitch, SwitchIfLive
  <2>2. switches \in Seq(Buffer) /\ Len(switches) \in Nat /\ Len(switches) <= MaxSwitches /\ MaxSwitches \in Nat
    BY <1>1, LenProperties, BoundAssumption DEF TypeOK
  <2>3. Tail(switches) \in Seq(Buffer) /\ Len(Tail(switches)) = Len(switches) - 1
    BY <2>1, <2>2, HeadTailProperties
  <2>4. switches' \in Seq(Buffer) /\ Len(switches') <= MaxSwitches
    BY <2>1, <2>2, <2>3
  <2> QED BY <1>1, <2>1, <2>4 DEF TermInv, TypeOK, Owned, CurrentExists, Listed
<1>9. CASE UNCHANGED vars
  BY <1>1, <1>9 DEF vars, TermInv, TypeOK, Owned, CurrentExists, Listed
<1> QED BY <1>2, <1>3, <1>4, <1>5, <1>6, <1>7, <1>8, <1>9 DEF Next
-----------------------------------------------------------------------------
(* Going all the way round. *)

\* A set of natural numbers has a least element.
LEMMA LeastNumber ==
  ASSUME NEW T \in SUBSET Nat, T # {}
  PROVE  \E m \in T : \A n \in T : m <= n
<1> DEFINE R == {ss \in Nat \X Nat : ss[1] < ss[2]}
<1>1. IsWellFoundedOn(R, Nat)
  BY NatLessThanWellFounded DEF OpToRel
<1>2. PICK m \in T : \A n \in T : ~(<<n, m>> \in R)
  BY <1>1, WFMin
<1>3. ASSUME NEW n \in T PROVE m <= n
  <2>1. <<n, m>> \in Nat \X Nat /\ <<n, m>>[1] = n /\ <<n, m>>[2] = m
    OBVIOUS
  <2>2. ~(n < m)
    BY <1>2, <2>1
  <2> QED BY <2>2
<1> QED BY <1>3

\* The place that k steps from place p come to, on a list of n.
Place(p, k, step, n) ==
  IF step = 1 THEN IF p + k < n THEN p + k ELSE p + k - n
  ELSE IF p - k >= 0 THEN p - k ELSE p - k + n

\* Places follow each other as the steps do.
LEMMA PlaceStep ==
  ASSUME NEW n \in Nat \ {0}, NEW p \in 0 .. n - 1, NEW step \in {1, -1}
  PROVE  /\ Place(p, 0, step, n) = p
         /\ \A k \in 0 .. n - 1 : Place(p, k, step, n) \in 0 .. n - 1
         /\ \A k \in 1 .. n - 1 :
              (Place(p, k - 1, step, n) + step) % n = Place(p, k, step, n)
         /\ \A r \in 0 .. n - 1 : \E k \in 0 .. n - 1 : Place(p, k, step, n) = r
<1>1. Place(p, 0, step, n) = p
  BY DEF Place
<1>2. \A k \in 0 .. n - 1 : Place(p, k, step, n) \in 0 .. n - 1
  BY DEF Place
<1>3. ASSUME NEW k \in 1 .. n - 1
      PROVE  (Place(p, k - 1, step, n) + step) % n = Place(p, k, step, n)
  <2> DEFINE i == Place(p, k - 1, step, n) + step
  <2>1. k - 1 \in 0 .. n - 1
    OBVIOUS
  <2>2. i \in -1 .. n
    BY <1>2, <2>1
  <2>3. (IF i = -1 THEN n - 1 ELSE IF i = n THEN 0 ELSE i) = Place(p, k, step, n)
    BY DEF Place
  <2> HIDE DEF i
  <2>4. i % n = IF i = -1 THEN n - 1 ELSE IF i = n THEN 0 ELSE i
    BY <2>2, Wrapped
  <2> QED BY <2>3, <2>4 DEF i
<1>4. ASSUME NEW r \in 0 .. n - 1
      PROVE  \E k \in 0 .. n - 1 : Place(p, k, step, n) = r
  <2>1. CASE step = 1
    <3> DEFINE k == IF r >= p THEN r - p ELSE r - p + n
    <3>1. k \in 0 .. n - 1 /\ Place(p, k, step, n) = r
      BY <2>1 DEF Place
    <3> QED BY <3>1
  <2>2. CASE step = -1
    <3> DEFINE k == IF r <= p THEN p - r ELSE p - r + n
    <3>1. k \in 0 .. n - 1 /\ Place(p, k, step, n) = r
      BY <2>2 DEF Place
    <3> QED BY <3>1
  <2> QED BY <2>1, <2>2
<1> QED BY <1>1, <1>2, <1>3, <1>4

\* The places that the steps of Visited come to.
LEMMA VisitedPlaces ==
  ASSUME TypeOK, NEW b \in Listed, NEW step \in {1, -1}
  PROVE  Visited(b, step) =
           {bufferList[Place(Position(b, bufferList), k, step, Len(bufferList)) + 1] :
              k \in 0 .. Len(bufferList) - 1}
<1> DEFINE list == bufferList
           n == Len(bufferList)
           p == Position(b, bufferList)
           w == [k \in 0 .. n - 1 |-> list[Place(p, k, step, n) + 1]]
           Rule(f) == [k \in 0 .. n - 1 |-> IF k = 0 THEN b ELSE Cycled(f[k - 1], step, list)]
<1>1. list \in Seq(Buffer) /\ IsInjective(list) /\ b \in ToSet(list)
  BY ListType DEF Listed
<1>2. n \in Nat \ {0} /\ p \in 0 .. n - 1 /\ list[p + 1] = b
  BY <1>1, CycledListed, PositionOf
<1> HIDE DEF n, p, list
<1>3. /\ Place(p, 0, step, n) = p
      /\ \A k \in 0 .. n - 1 : Place(p, k, step, n) \in 0 .. n - 1
      /\ \A k \in 1 .. n - 1 : (Place(p, k - 1, step, n) + step) % n = Place(p, k, step, n)
  BY <1>2, PlaceStep
<1>4. \A k \in 0 .. n - 1 : w[k] = list[Place(p, k, step, n) + 1]
  OBVIOUS
<1>5. w[0] = b
  <2>1. 0 \in 0 .. n - 1
    BY <1>2
  <2> HIDE DEF w
  <2> QED BY <1>2, <1>3, <1>4, <2>1
<1>6. ASSUME NEW k \in 1 .. n - 1 PROVE w[k] = Cycled(w[k - 1], step, list)
  <2> DEFINE i == Place(p, k - 1, step, n)
  <2> HIDE DEF w
  <2>1. k - 1 \in 0 .. n - 1 /\ i \in 0 .. n - 1 /\ w[k - 1] = list[i + 1]
    <3>1. k - 1 \in 0 .. n - 1
      BY <1>2
    <3> QED BY <1>3, <1>4, <3>1
  <2>2. list[i + 1] \in ToSet(list) /\ Position(list[i + 1], list) = i
    BY <1>1, <2>1, PositionOf DEF n, list
  <2>3. Cycled(list[i + 1], step, list) = list[1 + ((i + step) % n)]
    BY <2>2 DEF Cycled, n, list
  <2>4. (i + step) % n = Place(p, k, step, n) /\ w[k] = list[Place(p, k, step, n) + 1]
    <3>1. k \in 0 .. n - 1
      BY <1>2
    <3> QED BY <1>3, <1>4, <3>1
  <2>5. Place(p, k, step, n) + 1 = 1 + Place(p, k, step, n)
    BY <1>2, <1>3
  <2> HIDE DEF i
  <2> QED BY <2>1, <2>3, <2>4, <2>5
<1>7. w = Rule(w)
  <2>1. \A k \in 0 .. n - 1 : w[k] = IF k = 0 THEN b ELSE Cycled(w[k - 1], step, list)
    <3> HIDE DEF w
    <3>1. \A k \in 0 .. n - 1 : k = 0 \/ k \in 1 .. n - 1
      BY <1>2
    <3> QED BY <1>5, <1>6, <3>1
  <2>2. w = [k \in 0 .. n - 1 |-> w[k]]
    OBVIOUS
  <2> HIDE DEF w
  <2> QED BY <2>1, <2>2
<1> HIDE DEF w
<1> DEFINE at == CHOOSE f : f = Rule(f)
<1>8. at = Rule(at)
  BY <1>7
<1>9. Visited(b, step) = {at[k] : k \in DOMAIN at}
  BY DEF Visited, list, n
<1> HIDE DEF at
<1>10. /\ DOMAIN at = 0 .. n - 1
      /\ \A k \in 0 .. n - 1 : at[k] = IF k = 0 THEN b ELSE Cycled(at[k - 1], step, list)
  BY <1>8
<1>11. \A k \in 0 .. n - 1 : at[k] = w[k]
  <2> DEFINE Bad == {k \in 0 .. n - 1 : at[k] # w[k]}
  <2> SUFFICES ASSUME Bad # {} PROVE FALSE
    OBVIOUS
  <2>1. Bad \in SUBSET Nat
    OBVIOUS
  <2>2. PICK k \in Bad : \A j \in Bad : k <= j
    BY <2>1, LeastNumber
  <2>3. k \in 0 .. n - 1 /\ at[k] # w[k]
    BY <2>2
  <2>4. CASE k = 0
    BY <1>5, <1>10, <2>3, <2>4
  <2>5. CASE k # 0
    <3>1. k \in 1 .. n - 1 /\ k - 1 \in 0 .. n - 1 /\ ~(k <= k - 1)
      BY <1>2, <2>3, <2>5
    <3>2. at[k - 1] = w[k - 1]
      BY <2>2, <3>1
    <3> QED BY <1>6, <1>10, <2>3, <2>5, <3>1, <3>2
  <2> QED BY <2>4, <2>5
<1> QED BY <1>9, <1>10, <1>11, <1>4 DEF list, n, p

-----------------------------------------------------------------------------
(* The theorems. *)

\* The invariant holds in every state.
LEMMA TermAlways == Spec => []TermInv
BY TermInit, TermStep, PTL DEF Spec

\* my/eat-buffer-list holds each terminal buffer once and no dead one, for any
\* number of terminals, whatever order exits, kills, restarts and failing hooks
\* come in.
THEOREM TermTypeCorrect == Spec => []TypeOK
<1>1. TermInv => TypeOK
  BY DEF TermInv
<1> QED BY <1>1, TermAlways, PTL

\* The window never shows a buffer that is gone.
THEOREM CurrentAlwaysExists == Spec => []CurrentExists
<1>1. TermInv => CurrentExists
  BY DEF TermInv
<1> QED BY <1>1, TermAlways, PTL

\* my/eat-next and my/eat-prev visit every terminal and undo each other, on a
\* list of any length.
THEOREM CycleAlwaysVisitsAll == Spec => []CycleVisitsAll
<1>1. TermInv => CycleVisitsAll
  <2> SUFFICES ASSUME TypeOK, NEW b \in Listed
               PROVE  /\ \A step \in {1, -1} : Visited(b, step) = Listed
                      /\ Cycled(Cycled(b, 1, bufferList), -1, bufferList) = b
    BY DEF TermInv, CycleVisitsAll
  <2> DEFINE n == Len(bufferList)
             p == Position(b, bufferList)
  <2>1. bufferList \in Seq(Buffer) /\ IsInjective(bufferList) /\ b \in ToSet(bufferList)
    BY ListType DEF Listed
  <2>2. n \in Nat \ {0} /\ p \in 0 .. n - 1 /\ bufferList[p + 1] = b
    BY <2>1, CycledListed, PositionOf
  <2>3. ASSUME NEW step \in {1, -1} PROVE Visited(b, step) = Listed
    <3>1. Visited(b, step) = {bufferList[Place(p, k, step, n) + 1] : k \in 0 .. n - 1}
      BY VisitedPlaces
    <3> HIDE DEF n, p
    <3>2. /\ \A k \in 0 .. n - 1 : Place(p, k, step, n) \in 0 .. n - 1
          /\ \A r \in 0 .. n - 1 : \E k \in 0 .. n - 1 : Place(p, k, step, n) = r
      BY <2>2, PlaceStep
    <3>3. \A i \in 0 .. n - 1 : bufferList[i + 1] \in Listed
      BY <2>1, PositionOf DEF Listed, n
    <3>4. \A c \in Listed : \E r \in 0 .. n - 1 : bufferList[r + 1] = c
      BY <2>1, PositionOf DEF Listed, n
    <3>5. Visited(b, step) \subseteq Listed
      BY <3>1, <3>2, <3>3
    <3>6. ASSUME NEW c \in Listed PROVE c \in Visited(b, step)
      <4>1. PICK r \in 0 .. n - 1 : bufferList[r + 1] = c
        BY <3>4
      <4>2. PICK k \in 0 .. n - 1 : Place(p, k, step, n) = r
        BY <3>2
      <4> QED BY <3>1, <4>1, <4>2
    <3> QED BY <3>5, <3>6
  <2>4. Cycled(Cycled(b, 1, bufferList), -1, bufferList) = b
    <3> DEFINE c == Cycled(b, 1, bufferList)
               q == (p + 1) % n
    <3>1. c \in ToSet(bufferList) /\ Position(c, bufferList) = q
      BY <2>1, CycledListed
    <3>2. Cycled(c, -1, bufferList) = bufferList[1 + ((q + -1) % n)]
      BY <3>1 DEF Cycled
    <3> HIDE DEF c, n, p
    <3>3. p + 1 \in -1 .. n
      BY <2>2
    <3>4. q = IF p + 1 = n THEN 0 ELSE p + 1
      <4> DEFINE i == p + 1
      <4>1. i \in -1 .. n /\ i # -1
        BY <2>2
      <4> HIDE DEF i
      <4>2. i % n = IF i = n THEN 0 ELSE i
        BY <2>2, <4>1, Wrapped
      <4> QED BY <4>2 DEF i
    <3> HIDE DEF q
    <3>5. (q + -1) % n = p
      <4> DEFINE i == q + -1
      <4>1. i \in -1 .. n /\ i # n /\ (IF i = -1 THEN n - 1 ELSE i) = p
        BY <2>2, <3>4
      <4> HIDE DEF i
      <4>2. i % n = IF i = -1 THEN n - 1 ELSE i
        BY <2>2, <4>1, Wrapped
      <4> QED BY <4>1, <4>2 DEF i
    <3>6. 1 + p = p + 1
      BY <2>2
    <3> QED BY <2>2, <3>2, <3>5, <3>6 DEF c
  <2> QED BY <2>3, <2>4
<1> QED BY <1>1, TermAlways, PTL

\* The switch that an exit schedules never goes to the terminal that closed.
THEOREM SwitchAlwaysLeavesClosed == Spec => SwitchLeavesClosed
<1> DEFINE Closes == \A b \in Buffer : b \in alive /\ b \notin alive' =>
                        \/ switches' = switches
                        \/ Last(switches') \in alive'
<1>1. TermInv /\ [Next]_vars => [Closes]_vars
  <2> SUFFICES ASSUME TermInv, [Next]_vars, NEW c \in Buffer, c \in alive, c \notin alive'
               PROVE  switches' = switches \/ Last(switches') \in alive'
    OBVIOUS
  <2>1. ASSUME NEW b \in Buffer, Sentinel(b)
        PROVE  switches' = switches \/ Last(switches') \in alive'
    <3>1. /\ switches' = switches \/ Last(switches') \in alive \ {b}
          /\ alive' = alive \/ alive' = alive \ {b}
      BY <2>1, SentinelStep
    <3> QED BY <3>1
  <2>2. ASSUME ~ \E b \in Buffer : Sentinel(b)
        PROVE  switches' = switches
    BY <2>2 DEF Next, Eat, ProcessDies, KillBuffer, NextTerminal, PreviousTerminal, Cycle, Leave,
                RunSwitch, vars
  <2> QED BY <2>1, <2>2
<1> QED BY <1>1, TermInit, TermStep, PTL DEF Spec, SwitchLeavesClosed
=============================================================================
