--------------------------- MODULE PollLoopProofs ---------------------------
(***************************************************************************)
(* Proofs about PollLoop: what a poll loop may skip, repeat and lose, and  *)
(* how the pace of its polls follows their outcomes, for any set of keys,  *)
(* any LIMIT, any thresholds and any number of stops and failed saves.     *)
(***************************************************************************)
EXTENDS PollLoop, FiniteSetTheorems, WellFoundedInduction, TLAPS

-----------------------------------------------------------------------------
(* The keys of one SELECT. *)

\* A finite set of keys has a greatest one.
LEMMA GreatestKey ==
  ASSUME NEW B \in SUBSET Nat, IsFiniteSet(B), B # {}
  PROVE  \E m \in B : \A j \in B : j <= m
<1> DEFINE Beyond(q) == {j \in B : q < j}
           T == {Beyond(q) : q \in B}
<1>1. T \subseteq FiniteSubsetsOf(B) /\ T # {}
  <2>1. ASSUME NEW q \in B
        PROVE  Beyond(q) \in FiniteSubsetsOf(B)
    <3>1. Beyond(q) \in SUBSET B
      OBVIOUS
    <3>2. IsFiniteSet(Beyond(q))
      BY <3>1, FS_Subset
    <3> QED  BY <3>1, <3>2 DEF FiniteSubsetsOf
  <2> QED  BY <2>1
<1>2. PICK A \in T : \A X \in T : <<X, A>> \notin StrictSubsetOrdering(B)
  BY <1>1, FS_StrictSubsetOrderingWellFounded, WFMin
<1>3. PICK m \in B : A = Beyond(m)
  OBVIOUS
<1>4. ASSUME NEW q \in B, m < q
      PROVE  <<Beyond(q), Beyond(m)>> \in StrictSubsetOrdering(B)
  <2>1. m \in Nat /\ q \in Nat
    OBVIOUS
  <2>2. ASSUME NEW j \in Beyond(q)  PROVE  j \in Beyond(m)
    <3>1. j \in Nat /\ m < j
      BY <1>4, <2>1
    <3> QED  BY <3>1
  <2>3. q \in Beyond(m) /\ q \notin Beyond(q)
    BY <1>4, <2>1
  <2>4. Beyond(q) \in SUBSET B /\ Beyond(m) \in SUBSET B
    OBVIOUS
  <2> HIDE DEF Beyond
  <2> QED  BY <2>2, <2>3, <2>4 DEF StrictSubsetOrdering
<1>5. \A q \in B : ~ (m < q)
  BY <1>2, <1>3, <1>4
<1> QED  BY <1>5

\* The mark after a batch is its greatest key.
LEMMA MarkIsGreatest ==
  ASSUME NEW B \in SUBSET Nat, IsFiniteSet(B), B # {}
  PROVE  MarkAfter(B) \in B /\ \A j \in B : j <= MarkAfter(B)
BY GreatestKey DEF MarkAfter

\* LIMIT n returns at most n keys.
LEMMA LowestBounded ==
  ASSUME NEW S \in SUBSET Nat, IsFiniteSet(S), NEW n \in Nat
  PROVE  Cardinality(Lowest(S, n)) <= n
<1> DEFINE L == Lowest(S, n)
<1>1. L \in SUBSET S /\ IsFiniteSet(L)
  BY FS_Subset DEF Lowest
<1>2. CASE L = {}
  BY <1>2, FS_EmptySet
<1>3. CASE L # {}
  <2>1. L \in SUBSET Nat
    BY <1>1
  <2>2. PICK m \in L : \A j \in L : j <= m
    <3> HIDE DEF L
    <3> QED  BY <1>1, <1>3, <2>1, GreatestKey
  <2> DEFINE Before == {j \in S : j < m}
  <2>3. IsFiniteSet(Before) /\ Cardinality(Before) \in Nat
    <3>1. Before \in SUBSET S
      OBVIOUS
    <3> QED  BY <3>1, FS_Subset, FS_CardinalityType
  <2>4. Cardinality(Before) < n
    BY <2>2 DEF Lowest
  <2>5. IsFiniteSet(Before \cup {m}) /\ Cardinality(Before \cup {m}) = Cardinality(Before) + 1
    <3>1. m \notin Before
      BY <2>1, <2>2
    <3> HIDE DEF Before
    <3> QED  BY <2>3, <3>1, FS_AddElement
  <2>6. L \in SUBSET (Before \cup {m})
    <3>1. ASSUME NEW j \in L  PROVE  j \in Before \cup {m}
      BY <1>1, <2>1, <2>2
    <3> QED  BY <3>1
  <2>7. Cardinality(L) <= Cardinality(Before \cup {m}) /\ Cardinality(L) \in Nat
    <3> HIDE DEF Before, L
    <3> QED  BY <2>5, <2>6, FS_Subset, FS_CardinalityType
  <2>8. Cardinality(L) <= n
    <3> HIDE DEF Before, L
    <3> QED  BY <2>3, <2>4, <2>5, <2>7
  <2> QED  BY <2>8
<1> QED  BY <1>2, <1>3

\* What ORDER BY and LIMIT leave out lies beyond all that they return.
LEMMA LeftOutIsBeyond ==
  ASSUME NEW S \in SUBSET Nat, IsFiniteSet(S), NEW n \in Nat,
         NEW i \in S, i \notin Lowest(S, n), NEW j \in Lowest(S, n)
  PROVE  j < i
<1> DEFINE Before(k) == {x \in S : x < k}
<1>1. j \in S /\ Cardinality(Before(j)) < n /\ ~ (Cardinality(Before(i)) < n)
  BY DEF Lowest
<1>2. SUFFICES ASSUME i <= j  PROVE FALSE
  BY <1>1
<1>3. Before(i) \in SUBSET Before(j)
  <2>1. ASSUME NEW x \in Before(i)  PROVE  x \in Before(j)
    <3>1. x \in Nat /\ i \in Nat /\ j \in Nat /\ x \in S /\ x < i
      BY <1>1
    <3> QED  BY <1>2, <3>1
  <2> QED  BY <2>1
<1>4. IsFiniteSet(Before(j)) /\ IsFiniteSet(Before(i))
  BY FS_Subset
<1>5. /\ Cardinality(Before(i)) <= Cardinality(Before(j))
      /\ Cardinality(Before(i)) \in Nat /\ Cardinality(Before(j)) \in Nat
  <2> HIDE DEF Before
  <2> QED  BY <1>3, <1>4, FS_Subset, FS_CardinalityType
<1> HIDE DEF Before
<1> QED  BY <1>1, <1>5

\* A poll that returns rows: where they come from, how many, and the new mark.
LEMMA BatchFacts ==
  ASSUME NEW T \in SUBSET Ids, NEW h, NEW B, B = FetchBatch(T, h)
  PROVE  /\ B \subseteq Above(T, h) /\ B \subseteq T /\ IsFiniteSet(B)
         /\ Cardinality(B) <= BatchLimit
         /\ B # {} => /\ MarkAfter(B) \in B
                      /\ \A j \in B : j <= MarkAfter(B)
                      /\ \A i \in Above(T, h) \ B : MarkAfter(B) < i
<1>1. Above(T, h) \in SUBSET Nat /\ Above(T, h) \in SUBSET Ids /\ BatchLimit \in Nat
  BY DbAssumption DEF Above
<1>2. IsFiniteSet(Above(T, h))
  BY <1>1, DbAssumption, FS_Subset
<1>3. B \in SUBSET Above(T, h) /\ B \subseteq T
  BY DEF FetchBatch, Lowest, Above
<1>4. IsFiniteSet(B)
  BY <1>2, <1>3, FS_Subset
<1>5. Cardinality(B) <= BatchLimit
  BY <1>1, <1>2, LowestBounded DEF FetchBatch
<1>6. ASSUME B # {}
      PROVE  MarkAfter(B) \in B /\ \A j \in B : j <= MarkAfter(B)
  BY <1>1, <1>3, <1>4, <1>6, MarkIsGreatest
<1>7. ASSUME B # {}, NEW i \in Above(T, h) \ B
      PROVE  MarkAfter(B) < i
  BY <1>1, <1>2, <1>6, <1>7, LeftOutIsBeyond DEF FetchBatch
<1> QED  BY <1>3, <1>4, <1>5, <1>6, <1>7
-----------------------------------------------------------------------------
(* The order of the texts. *)

Keys == Ids \cup {NoMark}

LEMMA TextType ==
  ASSUME NEW a \in Keys
  PROVE  /\ Text[a] \in Seq(Nat) /\ Len(Text[a]) \in Nat
         /\ \A k \in 1..Len(Text[a]) : Text[a][k] \in Nat
BY TextAssumption DEF Keys

LEMMA TextIrreflexive ==
  ASSUME NEW a \in Keys
  PROVE  ~TextLess(a, a)
BY TextType DEF TextLess

\* Where a first falls behind b, or b behind c, whichever comes first, a falls
\* behind c.
LEMMA TextTransitive ==
  ASSUME NEW a \in Keys, NEW b \in Keys, NEW c \in Keys, TextLess(a, b), TextLess(b, c)
  PROVE  TextLess(a, c)
<1> DEFINE x == Text[a]
           y == Text[b]
           z == Text[c]
<1>1. /\ x \in Seq(Nat) /\ Len(x) \in Nat /\ \A k \in 1..Len(x) : x[k] \in Nat
      /\ y \in Seq(Nat) /\ Len(y) \in Nat /\ \A k \in 1..Len(y) : y[k] \in Nat
      /\ z \in Seq(Nat) /\ Len(z) \in Nat /\ \A k \in 1..Len(z) : z[k] \in Nat
  BY TextType
<1>2. PICK p \in 1..Len(y) : /\ p <= Len(x) + 1
                             /\ \A j \in 1..(p - 1) : x[j] = y[j]
                             /\ p <= Len(x) => x[p] < y[p]
  BY DEF TextLess
<1>3. PICK q \in 1..Len(z) : /\ q <= Len(y) + 1
                             /\ \A j \in 1..(q - 1) : y[j] = z[j]
                             /\ q <= Len(y) => y[q] < z[q]
  BY DEF TextLess
<1> SUFFICES \E k \in 1..Len(z) : /\ k <= Len(x) + 1
                                  /\ \A j \in 1..(k - 1) : x[j] = z[j]
                                  /\ k <= Len(x) => x[k] < z[k]
  BY DEF TextLess
<1> HIDE DEF x, y, z
<1>4. CASE p < q
  <2>1. p \in 1..Len(z) /\ \A j \in 1..(p - 1) : j \in 1..(q - 1)
    BY <1>1, <1>2, <1>3, <1>4
  <2>2. y[p] = z[p]
    BY <1>1, <1>2, <1>3, <1>4
  <2>3. \A j \in 1..(p - 1) : x[j] = z[j]
    BY <1>2, <1>3, <2>1
  <2> QED  BY <1>2, <2>1, <2>2, <2>3
<1>5. CASE q <= p
  <2>1. q <= Len(x) + 1 /\ \A j \in 1..(q - 1) : j \in 1..(p - 1)
    BY <1>1, <1>2, <1>3, <1>5
  <2>2. \A j \in 1..(q - 1) : x[j] = z[j]
    BY <1>2, <1>3, <2>1
  <2>3. ASSUME q <= Len(x)  PROVE x[q] < z[q]
    <3>1. x[q] \in Nat /\ y[q] \in Nat /\ z[q] \in Nat /\ y[q] < z[q]
      BY <1>1, <1>2, <1>3, <1>5, <2>3
    <3>2. x[q] <= y[q]
      <4>1. CASE q = p
        BY <1>2, <2>3, <3>1, <4>1
      <4>2. CASE q # p
        BY <1>1, <1>2, <1>3, <1>5, <3>1, <4>2
      <4> QED  BY <4>1, <4>2
    <3> QED  BY <3>1, <3>2
  <2> QED  BY <2>1, <2>2, <2>3
<1> QED  BY <1>2, <1>3, <1>4, <1>5

-----------------------------------------------------------------------------
(* The inductive invariant. *)

\* The marks and the batch come from the table, and no more is in hand than one
\* SELECT returns.
Places ==
  /\ mark \in table \cup {NoMark} /\ saved \in table \cup {NoMark}
  /\ batch \subseteq table /\ IsFiniteSet(batch)
  /\ Cardinality(batch) <= BatchLimit
  /\ pc \in {"down", "asleep"} => batch = {}

\* The text of the saved mark is behind that in memory, and the rows in hand are
\* above the former, no larger than the latter.
MarksInOrder ==
  /\ saved = mark \/ TextLess(saved, mark)
  /\ pc = "saving" => saved # mark
  /\ \A i \in batch : i <= mark /\ (saved # mark => TextLess(saved, i))

\* A row that will be read again has been handed on at most once per stop and
\* per failed save.
Repeats ==
  \A i \in Ids : Undercut(table, i) \/
    /\ times[i] <= 1 + stops /\ times[i] <= 1 + failedSaves
    /\ TextLess(Cursor, i) \/ i \in batch => times[i] <= stops
    /\ TextLess(saved, i) \/ i \in batch => times[i] <= failedSaves
    /\ pc = "dispatching" /\ saved # mark /\ i \in batch => times[i] < failedSaves

IInv ==
  /\ TypeOK
  /\ Places
  /\ IsFiniteSet(lost) /\ LossPerStop
  /\ MarksInOrder
  /\ Repeats
  /\ NothingMissed

-----------------------------------------------------------------------------
(* Types. *)

LEMMA DepthType == Depth \in Nat \ {0}
BY PollAssumption DEF Depth

\* The observer keeps the latest Depth outcomes.
LEMMA RememberType ==
  ASSUME recent \in Seq(Outcomes), Len(recent) <= Depth,
         NEW o \in Outcomes, Remember(o)
  PROVE  recent' \in Seq(Outcomes) /\ Len(recent') <= Depth
<1> DEFINE s == <<o>> \o recent
           n == IF Len(recent) < Depth THEN Len(recent) + 1 ELSE Depth
<1>1. s \in Seq(Outcomes) /\ Len(s) = Len(recent) + 1
  OBVIOUS
<1>2. n \in Nat /\ n <= Len(s) /\ n <= Depth
  BY <1>1, DepthType
<1>3. recent' = SubSeq(s, 1, n)
  BY DEF Remember
<1> HIDE DEF s, n
<1>4. SubSeq(s, 1, n) \in Seq(Outcomes) /\ Len(SubSeq(s, 1, n)) = n
  BY <1>1, <1>2
<1> QED  BY <1>2, <1>3, <1>4

LEMMA CountType ==
  ASSUME NEW limit \in Nat, NEW n \in 0..limit
  PROVE  CountTo(n, limit) \in 0..limit
BY DEF CountTo

\* A poll that returns rows.
LEMMA PollFacts ==
  ASSUME TypeOK, PollRows
  PROVE  /\ batch' \subseteq Above(table, mark) /\ batch' \subseteq table
         /\ batch' # {} /\ IsFiniteSet(batch') /\ Cardinality(batch') <= BatchLimit
         /\ mark' \in batch' /\ \A j \in batch' : j <= mark'
         /\ \A i \in Above(table, mark) \ batch' : mark' < i
<1> DEFINE B == FetchBatch(table, mark)
<1>1. batch' = B /\ B # {} /\ mark' = MarkAfter(B)
  BY DEF PollRows
<1>2. table \in SUBSET Ids
  BY DEF TypeOK
<1> HIDE DEF B
<1>3. /\ B \subseteq Above(table, mark) /\ B \subseteq table /\ IsFiniteSet(B)
      /\ Cardinality(B) <= BatchLimit
      /\ B # {} => /\ MarkAfter(B) \in B
                   /\ \A j \in B : j <= MarkAfter(B)
                   /\ \A i \in Above(table, mark) \ B : MarkAfter(B) < i
  BY <1>2, BatchFacts DEF B
<1> QED  BY <1>1, <1>3

\* Every step keeps the types.
LEMMA TypeStep == TypeOK /\ [Next]_vars => TypeOK'
<1> SUFFICES ASSUME TypeOK, [Next]_vars  PROVE TypeOK'
  OBVIOUS
<1> USE PollAssumption, DbAssumption
<1>1. ASSUME NEW i \in Ids, InsertRow(i)  PROVE TypeOK'
  BY <1>1 DEF InsertRow, TypeOK, slotVars
<1>2. CASE StartSlot
  <2>1. recent' \in Seq(Outcomes) /\ Len(recent') <= Depth
    BY <1>2, DepthType DEF StartSlot
  <2> QED  BY <1>2, <2>1 DEF StartSlot, TypeOK, obsVars
<1>3. CASE PollError
  <2>1. recent' \in Seq(Outcomes) /\ Len(recent') <= Depth
    BY <1>3, RememberType DEF PollError, TypeOK, Outcomes
  <2>2. errors' \in 0..BackoffAfterErrors
    BY <1>3, CountType DEF PollError, TypeOK
  <2> QED  BY <1>3, <2>1, <2>2 DEF PollError, TypeOK, obsVars
<1>4. CASE PollEmpty
  <2>1. recent' \in Seq(Outcomes) /\ Len(recent') <= Depth
    BY <1>4, RememberType DEF PollEmpty, TypeOK, Outcomes
  <2>2. empties' \in 0..IdleAfterEmpty
    BY <1>4, CountType DEF PollEmpty, TypeOK
  <2> QED  BY <1>4, <2>1, <2>2 DEF PollEmpty, TypeOK, Recovered, obsVars
<1>5. CASE PollRows
  <2>1. recent' \in Seq(Outcomes) /\ Len(recent') <= Depth
    BY <1>5, RememberType DEF PollRows, TypeOK, Outcomes
  <2>2. batch' \subseteq Ids /\ mark' \in Ids
    BY <1>5, PollFacts DEF TypeOK
  <2> QED  BY <1>5, <2>1, <2>2 DEF PollRows, TypeOK, obsVars
<1>6. CASE Save
  BY <1>6 DEF Save, TypeOK, slotVars, obsVars
<1>7. CASE SaveFails
  BY <1>7 DEF SaveFails, TypeOK, slotVars
<1>8. CASE Dispatch
  <2>1. times' \in [Ids -> Nat]
    BY <1>8 DEF Dispatch, TypeOK
  <2> QED  BY <1>8, <2>1 DEF Dispatch, TypeOK, slotVars, obsVars
<1>9. CASE Stop
  BY <1>9 DEF Stop, TypeOK, slotVars
<1>10. CASE UNCHANGED vars
  BY <1>10 DEF vars, TypeOK, slotVars, obsVars
<1> QED  BY <1>1, <1>2, <1>3, <1>4, <1>5, <1>6, <1>7, <1>8, <1>9, <1>10 DEF Next

-----------------------------------------------------------------------------
(* The marks, the batch and what a stop drops. *)

LEMMA PlacesStep == IInv /\ [Next]_vars => Places'
<1> SUFFICES ASSUME IInv, [Next]_vars  PROVE Places'
  OBVIOUS
<1> USE DEF IInv
<1>1. ASSUME NEW i \in Ids, InsertRow(i)  PROVE Places'
  BY <1>1 DEF InsertRow, Places
<1>2. CASE StartSlot
  BY <1>2 DEF StartSlot, Places
<1>3. CASE PollError
  BY <1>3 DEF PollError, Places
<1>4. CASE PollEmpty
  BY <1>4 DEF PollEmpty, Places
<1>5. CASE PollRows
  <2>1. table' = table /\ saved' = saved /\ pc' = "saving"
    BY <1>5 DEF PollRows
  <2>2. saved \in table \cup {NoMark}
    BY DEF Places
  <2> QED  BY <1>5, <2>1, <2>2, PollFacts DEF Places
<1>6. CASE Save
  BY <1>6 DEF Save, Places
<1>7. CASE SaveFails
  BY <1>7 DEF SaveFails, Places
<1>8. CASE Dispatch
  BY <1>8, DbAssumption, FS_EmptySet DEF Dispatch, Places
<1>9. CASE Stop
  BY <1>9, DbAssumption, FS_EmptySet DEF Stop, Places
<1>10. CASE UNCHANGED vars
  BY <1>10 DEF vars, Places
<1> QED  BY <1>1, <1>2, <1>3, <1>4, <1>5, <1>6, <1>7, <1>8, <1>9, <1>10 DEF Next

\* A stop drops at most one batch.
LEMMA LossStep == IInv /\ [Next]_vars => IsFiniteSet(lost') /\ LossPerStop'
<1> SUFFICES ASSUME IInv, [Next]_vars  PROVE IsFiniteSet(lost') /\ LossPerStop'
  OBVIOUS
<1>1. CASE Stop
  <2>1. stops \in Nat /\ BatchLimit \in Nat /\ stops' = stops + 1
    BY <1>1, PollAssumption, DbAssumption DEF Stop, IInv, TypeOK
  <2>2. /\ IsFiniteSet(lost) /\ Cardinality(lost) \in Nat
        /\ IsFiniteSet(batch) /\ Cardinality(batch) \in Nat
    BY FS_CardinalityType DEF IInv, Places
  <2>3. Cardinality(lost) <= stops * BatchLimit /\ Cardinality(batch) <= BatchLimit
    BY DEF IInv, LossPerStop, Places
  <2>4. (stops + 1) * BatchLimit = stops * BatchLimit + BatchLimit /\ stops * BatchLimit \in Nat
    BY <2>1
  <2>5. CASE lost' = lost
    <3>1. Cardinality(lost) <= (stops + 1) * BatchLimit
      BY <2>1, <2>2, <2>3, <2>4
    <3> QED  BY <2>1, <2>2, <2>5, <3>1 DEF LossPerStop
  <2>6. CASE lost' = lost \cup batch
    <3> DEFINE both == lost \cap batch
    <3>1. IsFiniteSet(both)
      BY <2>2, FS_Subset
    <3>2. Cardinality(both) \in Nat
      BY <3>1, FS_CardinalityType
    <3>3. /\ IsFiniteSet(lost \cup batch)
          /\ Cardinality(lost \cup batch) = Cardinality(lost) + Cardinality(batch) - Cardinality(both)
      BY <2>2, FS_Union
    <3> HIDE DEF both
    <3>4. Cardinality(lost \cup batch) <= stops * BatchLimit + BatchLimit
      BY <2>1, <2>2, <2>3, <2>4, <3>2, <3>3
    <3> QED  BY <2>1, <2>4, <2>6, <3>3, <3>4 DEF LossPerStop
  <2> QED  BY <1>1, <2>5, <2>6 DEF Stop
<1>2. CASE lost' = lost /\ stops' = stops
  BY <1>2 DEF IInv, LossPerStop
<1> QED
  BY <1>1, <1>2 DEF Next, InsertRow, StartSlot, PollError, PollEmpty, PollRows, Save,
                    SaveFails, Dispatch, vars, obsVars

-----------------------------------------------------------------------------
(* What the order of save and dispatch preserves. *)

LEMMA Numbers ==
  ASSUME TypeOK
  PROVE  /\ Ids \subseteq Nat /\ table \subseteq Ids /\ batch \subseteq Ids
         /\ \A i \in Ids : i \in Keys /\ i # NoMark
         /\ mark \in Keys /\ saved \in Keys /\ Cursor \in Keys
         /\ mark \in Nat /\ saved \in Nat /\ Cursor \in Nat
         /\ stops \in Nat /\ failedSaves \in Nat
         /\ times \in [Ids -> Nat]
BY DbAssumption, PollAssumption DEF TypeOK, NoMark, Cursor, Keys

\* More rows put more rows out of place, not fewer.
LEMMA OutOfPlace ==
  ASSUME [Next]_vars, NEW i
  PROVE  /\ Overtaken(table, i) => Overtaken(table', i)
         /\ Undercut(table, i) => Undercut(table', i)
<1>1. table \subseteq table'
  BY DEF Next, InsertRow, StartSlot, PollError, PollEmpty, PollRows, Save, SaveFails,
         Dispatch, Stop, vars
<1> QED  BY <1>1 DEF Overtaken, Undercut

\* A row in hand that is not undercut will not be returned again from this mark.
LEMMA InHandIsRead ==
  ASSUME TypeOK, Places, MarksInOrder, NEW i \in batch, ~Undercut(table, i)
  PROVE  ~TextLess(mark, i)
<1>1. i \in Ids /\ i \in Nat /\ mark \in Nat /\ i <= mark /\ mark \in Keys
  BY Numbers DEF MarksInOrder
<1>2. CASE i = mark
  BY <1>1, <1>2, TextIrreflexive
<1>3. CASE i # mark
  <2>1. mark \in table /\ i < mark
    BY <1>1, <1>3, Numbers DEF Places, NoMark
  <2> QED  BY <2>1 DEF Undercut
<1> QED  BY <1>2, <1>3

LEMMA MarksStep == IInv /\ [Next]_vars => MarksInOrder'
<1> SUFFICES ASSUME IInv, [Next]_vars  PROVE MarksInOrder'
  OBVIOUS
<1>1. TypeOK /\ Places /\ MarksInOrder
  BY DEF IInv
<1>2. CASE StartSlot
  BY <1>1, <1>2 DEF StartSlot, MarksInOrder, Places
<1>3. CASE PollRows
  <2>1. /\ batch' # {} /\ batch' \subseteq Ids /\ mark' \in batch' /\ saved' = saved
        /\ \A i \in batch' : TextLess(mark, i) /\ i <= mark'
    BY <1>1, <1>3, PollFacts, Numbers DEF Above, PollRows
  <2>2. ASSUME NEW i \in batch'  PROVE TextLess(saved, i)
    BY <1>1, <2>1, <2>2, Numbers, TextTransitive DEF MarksInOrder
  <2>3. saved # mark'
    BY <1>1, <2>1, <2>2, Numbers, TextIrreflexive
  <2> QED  BY <2>1, <2>2, <2>3 DEF MarksInOrder
<1>4. CASE Save
  BY <1>1, <1>4 DEF Save, MarksInOrder
<1>5. CASE SaveFails
  BY <1>1, <1>5 DEF SaveFails, MarksInOrder
<1>6. CASE Dispatch
  BY <1>1, <1>6 DEF Dispatch, MarksInOrder
<1>7. CASE Stop
  BY <1>1, <1>7 DEF Stop, MarksInOrder
<1>8. CASE UNCHANGED <<mark, saved, pc, batch>>
  BY <1>1, <1>8 DEF MarksInOrder
<1> QED  BY <1>2, <1>3, <1>4, <1>5, <1>6, <1>7, <1>8
         DEF Next, InsertRow, PollError, PollEmpty, vars

LEMMA RepeatsStep == IInv /\ [Next]_vars => Repeats'
<1> SUFFICES ASSUME IInv, [Next]_vars, NEW i \in Ids, ~Undercut(table', i)
             PROVE  /\ times'[i] <= 1 + stops' /\ times'[i] <= 1 + failedSaves'
                    /\ TextLess(Cursor', i) \/ i \in batch' => times'[i] <= stops'
                    /\ TextLess(saved', i) \/ i \in batch' => times'[i] <= failedSaves'
                    /\ pc' = "dispatching" /\ saved' # mark' /\ i \in batch' =>
                          times'[i] < failedSaves'
  BY DEF Repeats
<1>1. TypeOK /\ Places /\ MarksInOrder
  BY DEF IInv
<1>2. /\ ~Undercut(table, i) /\ times[i] \in Nat /\ stops \in Nat /\ failedSaves \in Nat
      /\ i \in Keys /\ mark \in Keys /\ saved \in Keys /\ batch \subseteq Ids
      /\ saved = mark \/ TextLess(saved, mark)
  BY <1>1, OutOfPlace, Numbers DEF MarksInOrder
<1>3. /\ times[i] <= 1 + stops /\ times[i] <= 1 + failedSaves
      /\ TextLess(Cursor, i) \/ i \in batch => times[i] <= stops
      /\ TextLess(saved, i) \/ i \in batch => times[i] <= failedSaves
      /\ pc = "dispatching" /\ saved # mark /\ i \in batch => times[i] < failedSaves
  BY <1>2 DEF IInv, Repeats
<1>4. TextLess(mark, i) => TextLess(saved, i)
  BY <1>2, TextTransitive
<1>5. CASE StartSlot
  <2>1. batch = {} /\ batch' = {} /\ saved' = saved /\ Cursor' = Cursor
        /\ times' = times /\ stops' = stops /\ failedSaves' = failedSaves
    BY <1>1, <1>5 DEF StartSlot, Places, Cursor, obsVars
  <2> QED  BY <1>3, <2>1
<1>6. CASE PollRows
  <2>1. /\ pc' = "saving" /\ saved' = saved /\ Cursor = mark /\ Cursor' = mark'
        /\ times' = times /\ stops' = stops /\ failedSaves' = failedSaves
    BY <1>6 DEF PollRows, Cursor, obsVars
  <2>2. /\ batch' \subseteq Ids /\ mark' \in batch'
        /\ \A j \in batch' : TextLess(mark, j)
    BY <1>1, <1>6, PollFacts, Numbers DEF Above
  <2>3. mark' \in Keys
    BY <1>1, <2>2, Numbers
  <2>4. TextLess(mark', i) \/ i \in batch' => TextLess(mark, i)
    BY <1>2, <2>2, <2>3, TextTransitive
  <2> QED  BY <1>3, <1>4, <2>1, <2>4
<1>7. CASE Save
  <2>1. /\ saved' = mark /\ mark' = mark /\ Cursor = mark /\ Cursor' = mark /\ batch' = batch
        /\ times' = times /\ stops' = stops /\ failedSaves' = failedSaves
    BY <1>7 DEF Save, Cursor, obsVars
  <2> QED  BY <1>3, <1>4, <2>1
<1>8. CASE SaveFails
  <2>1. /\ saved' = saved /\ mark' = mark /\ Cursor = mark /\ Cursor' = mark /\ batch' = batch
        /\ times' = times /\ stops' = stops /\ failedSaves' = failedSaves + 1
    BY <1>8 DEF SaveFails, Cursor
  <2> QED  BY <1>2, <1>3, <2>1
<1>9. CASE Dispatch
  <2>1. /\ pc = "dispatching" /\ saved' = saved /\ mark' = mark /\ batch' = {}
        /\ Cursor = mark /\ Cursor' = mark
        /\ times'[i] = IF i \in batch THEN times[i] + 1 ELSE times[i]
        /\ stops' = stops /\ failedSaves' = failedSaves
    BY <1>9 DEF Dispatch, Cursor, obsVars
  <2>2. i \in batch => ~TextLess(mark, i)
    BY <1>1, <1>2, InHandIsRead
  <2> QED  BY <1>2, <1>3, <2>1, <2>2
<1>10. CASE Stop
  <2>1. /\ saved' = saved /\ batch' = {} /\ Cursor' = saved
        /\ times' = times /\ stops' = stops + 1 /\ failedSaves' = failedSaves
    BY <1>10 DEF Stop, Cursor
  <2> QED  BY <1>2, <1>3, <2>1
<1>11. CASE UNCHANGED <<mark, saved, pc, batch, times, stops, failedSaves>>
  BY <1>3, <1>11 DEF Cursor
<1> QED  BY <1>5, <1>6, <1>7, <1>8, <1>9, <1>10, <1>11
         DEF Next, InsertRow, PollError, PollEmpty, vars, obsVars

LEMMA MissedStep == IInv /\ [Next]_vars => NothingMissed'
<1> SUFFICES ASSUME IInv, [Next]_vars, NEW i \in table', ~Overtaken(table', i)
             PROVE  \/ times'[i] > 0
                    \/ i \in batch' \cup late' \cup lost'
                    \/ TextLess(Cursor', i)
  BY DEF NothingMissed
<1>1. TypeOK /\ Places /\ MarksInOrder
  BY DEF IInv
<1>2. /\ Ids \subseteq Nat /\ table \subseteq Ids
      /\ mark \in Keys /\ saved \in Keys /\ Cursor \in Keys /\ Cursor \in Nat
  BY <1>1, Numbers
<1>3. i \in table => \/ times[i] > 0
                     \/ i \in batch \cup late \cup lost
                     \/ TextLess(Cursor, i)
  BY OutOfPlace DEF IInv, NothingMissed
<1>4. ASSUME NEW n \in Ids, InsertRow(n)
      PROVE  \/ times'[i] > 0
             \/ i \in batch' \cup late' \cup lost'
             \/ TextLess(Cursor', i)
  <2>1. /\ table' = table \cup {n} /\ late' = IF n <= Cursor THEN late \cup {n} ELSE late
        /\ Cursor' = Cursor /\ batch' = batch /\ times' = times /\ lost' = lost
    BY <1>4 DEF InsertRow, Cursor
  <2>2. CASE i \in table
    BY <1>3, <2>1, <2>2
  <2>3. CASE i = n /\ n <= Cursor
    BY <2>1, <2>3
  <2>4. CASE i = n /\ ~(n <= Cursor)
    <3>1. CASE Cursor = NoMark
      BY <2>1, <2>4, <3>1, TextAssumption
    <3>2. CASE Cursor # NoMark
      <4>1. Cursor \in table' /\ Cursor < i
        BY <1>1, <1>2, <2>1, <2>4, <3>2 DEF Places, Cursor
      <4>2. TextLess(Cursor, i)
        BY <4>1 DEF Overtaken
      <4> QED  BY <2>1, <4>2
    <3> QED  BY <3>1, <3>2
  <2> QED  BY <2>1, <2>2, <2>3, <2>4
<1>5. CASE StartSlot
  <2>1. /\ batch' = batch /\ Cursor' = Cursor
        /\ table' = table /\ times' = times /\ late' = late /\ lost' = lost
    BY <1>5 DEF StartSlot, Cursor, obsVars
  <2> QED  BY <1>3, <2>1
<1>6. CASE PollRows
  <2>1. /\ batch = {} /\ Cursor = mark /\ Cursor' = mark'
        /\ table' = table /\ times' = times /\ late' = late /\ lost' = lost
    BY <1>1, <1>6 DEF PollRows, Places, Cursor, obsVars
  <2>2. /\ mark' \in table
        /\ \A r \in Above(table, mark) \ batch' : mark' < r
    BY <1>1, <1>6, PollFacts
  <2>3. CASE TextLess(mark, i) /\ i \notin batch'
    <3>1. mark' < i
      BY <2>1, <2>2, <2>3 DEF Above
    <3>2. TextLess(mark', i)
      BY <2>1, <2>2, <3>1 DEF Overtaken
    <3> QED  BY <2>1, <3>2
  <2> QED  BY <1>3, <2>1, <2>3
<1>7. CASE Dispatch
  <2>1. /\ Cursor' = Cursor
        /\ \A r \in Ids : times'[r] = IF r \in batch THEN times[r] + 1 ELSE times[r]
        /\ table' = table /\ late' = late /\ lost' = lost
    BY <1>7 DEF Dispatch, Cursor, obsVars
  <2>2. times[i] \in Nat /\ i \in Ids
    BY <1>1, <1>2, <2>1, Numbers
  <2> QED  BY <1>3, <2>1, <2>2
<1>8. CASE Stop
  <2>1. /\ Cursor = mark /\ Cursor' = saved
        /\ lost' = IF saved = mark THEN lost \cup batch ELSE lost
        /\ table' = table /\ times' = times /\ late' = late
    BY <1>8 DEF Stop, Cursor
  <2>2. saved = mark \/ TextLess(saved, mark)
    BY <1>1 DEF MarksInOrder
  <2>3. i \in Keys
    BY <1>1, <1>2, <2>1, Numbers
  <2>4. TextLess(mark, i) => TextLess(saved, i)
    BY <1>2, <2>2, <2>3, TextTransitive
  <2>5. i \in batch => saved = mark \/ TextLess(saved, i)
    BY <1>1 DEF MarksInOrder
  <2> QED  BY <1>3, <2>1, <2>4, <2>5
<1>9. CASE \/ Save \/ SaveFails \/ PollError \/ PollEmpty \/ UNCHANGED vars
  <2>1. /\ Cursor' = Cursor /\ batch' = batch
        /\ table' = table /\ times' = times /\ late' = late /\ lost' = lost
    BY <1>9 DEF Save, SaveFails, PollError, PollEmpty, vars, Cursor, obsVars
  <2> QED  BY <1>3, <2>1
<1> QED  BY <1>4, <1>5, <1>6, <1>7, <1>8, <1>9 DEF Next

-----------------------------------------------------------------------------
(* The theorems. *)

LEMMA InitInv == Init => IInv
<1> SUFFICES ASSUME Init  PROVE IInv
  OBVIOUS
<1>1. TypeOK
  BY PollAssumption, DepthType DEF Init, TypeOK
<1>2. IsFiniteSet({}) /\ Cardinality({}) = 0
  BY FS_EmptySet
<1>3. Places
  BY <1>2, DbAssumption DEF Init, Places
<1>4. LossPerStop
  BY <1>2, DbAssumption DEF Init, LossPerStop
<1>5. MarksInOrder /\ Repeats /\ NothingMissed
  BY DEF Init, MarksInOrder, Repeats, NothingMissed, NoMark
<1> QED  BY <1>1, <1>2, <1>3, <1>4, <1>5 DEF IInv, Init

LEMMA NextInv == IInv /\ [Next]_vars => IInv'
<1> SUFFICES ASSUME IInv, [Next]_vars  PROVE IInv'
  OBVIOUS
<1>1. TypeOK'
  BY TypeStep DEF IInv
<1> QED  BY <1>1, PlacesStep, LossStep, MarksStep, RepeatsStep, MissedStep DEF IInv

LEMMA InvHolds == Spec => []IInv
BY InitInv, NextInv, PTL DEF Spec

\* The loop and its observers keep their types.
THEOREM TypeCorrect == Spec => []TypeOK
<1>1. IInv => TypeOK
  BY DEF IInv
<1> QED  BY <1>1, InvHolds, PTL

\* No row is silently skipped but one that was overtaken, for any keys and texts.
THEOREM NoRowMissed == Spec => []NothingMissed
<1>1. IInv => NothingMissed
  BY DEF IInv
<1> QED  BY <1>1, InvHolds, PTL

\* A duplicate needs a failed save and a stop, or a row that was undercut, for any
\* keys and texts and any number of stops and failed saves.
THEOREM DuplicatesAreBounded == Spec => []OnceUnlessSaveFailed
<1>1. IInv => OnceUnlessSaveFailed
  BY DEF IInv, Repeats, OnceUnlessSaveFailed
<1> QED  BY <1>1, InvHolds, PTL

\* A stop loses one batch at most, however the texts of the keys are ordered.
THEOREM LossIsBounded == Spec => []LossPerStop
<1>1. IInv => LossPerStop
  BY DEF IInv
<1> QED  BY <1>1, InvHolds, PTL
-----------------------------------------------------------------------------
(* The schedule. *)

\* n is the number of outcomes o the list s begins with, counted up to limit.
RunOf(s, o, n, limit) ==
  /\ n <= Len(s)
  /\ \A k \in 1..n : s[k] = o
  /\ n = limit \/ Len(s) = n \/ s[n + 1] # o

\* The list t is s with the outcome o before it, cut at Depth.
Follows(t, s, o) ==
  /\ t \in Seq(Outcomes)
  /\ Len(t) = IF Len(s) < Depth THEN Len(s) + 1 ELSE Depth
  /\ t[1] = o
  /\ \A k \in 1..(Len(t) - 1) : t[k + 1] = s[k]

\* The counters of the slot count what the observer saw, and the state of the
\* slot follows the counters.  An idle slot stays idle over errors, so its list
\* need not begin with empty polls.
Scheduled ==
  /\ RunOf(recent, "error", errors, BackoffAfterErrors)
  /\ RunOf(recent, "empty", empties, IdleAfterEmpty)
  /\ mode = "backoff" <=> errors = BackoffAfterErrors
  /\ mode = "idle" => Last(IdleAfterEmpty, {"empty", "error"})
  /\ mode = "active" => empties < IdleAfterEmpty

\* The list after one more outcome.
LEMMA RememberEffect ==
  ASSUME recent \in Seq(Outcomes), Len(recent) <= Depth,
         NEW o \in Outcomes, Remember(o)
  PROVE  Follows(recent', recent, o)
<1> DEFINE s == <<o>> \o recent
           n == IF Len(recent) < Depth THEN Len(recent) + 1 ELSE Depth
<1>1. /\ s \in Seq(Outcomes) /\ Len(s) = Len(recent) + 1 /\ s[1] = o
      /\ \A k \in 1..Len(recent) : s[k + 1] = recent[k]
  OBVIOUS
<1>2. n \in Nat /\ n >= 1 /\ n <= Len(s) /\ n <= Len(recent) + 1
  BY <1>1, DepthType
<1>3. recent' = SubSeq(s, 1, n)
  BY DEF Remember
<1> SUFFICES /\ recent' \in Seq(Outcomes) /\ Len(recent') = n /\ recent'[1] = o
             /\ \A k \in 1..(Len(recent') - 1) : recent'[k + 1] = recent[k]
  BY DEF Follows
<1> HIDE DEF s, n
<1>4. /\ SubSeq(s, 1, n) \in Seq(Outcomes) /\ Len(SubSeq(s, 1, n)) = n
      /\ \A k \in 1..n : SubSeq(s, 1, n)[k] = s[k]
  BY <1>1, <1>2
<1>5. recent'[1] = o
  BY <1>1, <1>2, <1>3, <1>4
<1>6. ASSUME NEW k \in 1..(n - 1)  PROVE recent'[k + 1] = recent[k]
  <2>1. k + 1 \in 1..n /\ k \in 1..Len(recent)
    BY <1>2
  <2> QED  BY <1>1, <1>3, <1>4, <2>1
<1> QED  BY <1>3, <1>4, <1>5, <1>6

\* One more of the same: the run grows up to its limit.
LEMMA RunGrows ==
  ASSUME NEW s \in Seq(Outcomes), Len(s) <= Depth,
         NEW o \in Outcomes, NEW t, Follows(t, s, o),
         NEW limit \in Nat, limit <= Depth, NEW n \in 0..limit,
         RunOf(s, o, n, limit)
  PROVE  RunOf(t, o, CountTo(n, limit), limit)
<1> DEFINE m == CountTo(n, limit)
<1>1. /\ t \in Seq(Outcomes) /\ Len(t) \in Nat /\ Len(s) \in Nat
      /\ Len(t) = IF Len(s) < Depth THEN Len(s) + 1 ELSE Depth
      /\ t[1] = o
      /\ \A k \in 1..(Len(t) - 1) : t[k + 1] = s[k]
  BY DEF Follows
<1>2. n <= Len(s) /\ \A k \in 1..n : s[k] = o
  BY DEF RunOf
<1>3. m \in 0..limit /\ m <= n + 1 /\ (n = limit => m = n) /\ (n < limit => m = n + 1)
  BY DEF CountTo
<1> SUFFICES /\ m <= Len(t)
             /\ \A k \in 1..m : t[k] = o
             /\ m = limit \/ Len(t) = m \/ t[m + 1] # o
  BY DEF RunOf
<1> HIDE DEF m
<1>4. m <= Len(t)
  BY <1>1, <1>2, <1>3, DepthType
<1>5. ASSUME NEW k \in 1..m  PROVE t[k] = o
  <2>1. CASE k = 1
    BY <1>1, <2>1
  <2>2. CASE k # 1
    <3>1. k - 1 \in 1..n /\ k - 1 \in 1..(Len(t) - 1) /\ (k - 1) + 1 = k
      BY <1>1, <1>3, <1>4, <2>2
    <3> QED  BY <1>1, <1>2, <3>1
  <2> QED  BY <2>1, <2>2
<1>6. CASE n = limit
  BY <1>3, <1>4, <1>5, <1>6
<1>7. CASE n < limit /\ Len(s) = n
  <2>1. Len(t) = m
    BY <1>1, <1>3, <1>7, DepthType
  <2> QED  BY <1>4, <1>5, <2>1
<1>8. CASE n < limit /\ Len(s) # n /\ s[n + 1] # o
  <2>1. CASE Len(t) = m
    BY <1>4, <1>5, <2>1
  <2>2. CASE Len(t) # m
    <3>1. m \in 1..(Len(t) - 1) /\ m = n + 1
      BY <1>1, <1>3, <1>4, <1>8, <2>2
    <3>2. t[m + 1] = s[n + 1]
      BY <1>1, <3>1
    <3> QED  BY <1>4, <1>5, <1>8, <3>2
  <2> QED  BY <2>1, <2>2
<1>9. n = limit \/ n < limit
  BY <1>3
<1> QED  BY <1>6, <1>7, <1>8, <1>9 DEF RunOf

\* Anything else ends the run.
LEMMA RunEnds ==
  ASSUME recent \in Seq(Outcomes), Len(recent) <= Depth,
         NEW x \in Outcomes, Remember(x),
         NEW o, o # x, NEW limit \in Nat
  PROVE  RunOf(recent', o, 0, limit)
<1>1. recent' \in Seq(Outcomes) /\ recent'[1] = x
  BY RememberEffect DEF Follows
<1> QED  BY <1>1 DEF RunOf

\* What holds of the latest n polls still holds after one more of the kind.
LEMMA LastKept ==
  ASSUME recent \in Seq(Outcomes), Len(recent) <= Depth,
         NEW S, NEW o \in Outcomes, o \in S, Remember(o),
         NEW n \in Nat, Last(n, S)
  PROVE  Last(n, S)'
<1>1. /\ recent' \in Seq(Outcomes) /\ Len(recent) \in Nat /\ Len(recent') \in Nat
      /\ Len(recent') = IF Len(recent) < Depth THEN Len(recent) + 1 ELSE Depth
      /\ recent'[1] = o
      /\ \A k \in 1..(Len(recent') - 1) : recent'[k + 1] = recent[k]
  BY RememberEffect DEF Follows
<1>2. n <= Len(recent) /\ \A k \in 1..n : recent[k] \in S
  BY DEF Last
<1>3. n <= Len(recent')
  BY <1>1, <1>2, DepthType
<1>4. ASSUME NEW k \in 1..n  PROVE recent'[k] \in S
  <2>1. CASE k = 1
    BY <1>1, <2>1
  <2>2. CASE k # 1
    <3>1. k - 1 \in 1..n /\ k - 1 \in 1..(Len(recent') - 1) /\ (k - 1) + 1 = k
      BY <1>1, <1>3, <2>2
    <3> QED  BY <1>1, <1>2, <3>1
  <2> QED  BY <2>1, <2>2
<1> QED  BY <1>3, <1>4 DEF Last

\* A run that reached n is what the latest n polls were, and the other way round.
LEMMA RunIsLast ==
  ASSUME recent \in Seq(Outcomes), NEW o, NEW limit \in Nat, NEW n \in 0..limit,
         RunOf(recent, o, n, limit)
  PROVE  n = limit <=> Last(limit, {o})
<1>1. n = limit => Last(limit, {o})
  BY DEF RunOf, Last
<1>2. ASSUME Last(limit, {o}), n # limit  PROVE FALSE
  <2>1. n + 1 \in 1..limit /\ Len(recent) >= limit /\ Len(recent) # n
    BY <1>2 DEF Last
  <2> QED  BY <1>2, <2>1 DEF RunOf, Last
<1> QED  BY <1>1, <1>2

LEMMA Thresholds ==
  /\ IdleAfterEmpty \in Nat /\ IdleAfterEmpty > 0 /\ IdleAfterEmpty <= Depth
  /\ BackoffAfterErrors \in Nat /\ BackoffAfterErrors > 0 /\ BackoffAfterErrors <= Depth
BY PollAssumption DEF Depth

\* Every step keeps the counters and the state of the slot in agreement.
LEMMA ScheduleStep == TypeOK /\ Scheduled /\ [Next]_vars => Scheduled'
<1> SUFFICES ASSUME TypeOK, Scheduled, [Next]_vars  PROVE Scheduled'
  OBVIOUS
<1>1. /\ recent \in Seq(Outcomes) /\ Len(recent) <= Depth
      /\ errors \in 0..BackoffAfterErrors /\ empties \in 0..IdleAfterEmpty
      /\ mode \in {"active", "idle", "backoff"}
      /\ {"error", "empty", "rows"} \subseteq Outcomes
  BY DEF TypeOK, Outcomes
<1>2. /\ RunOf(recent, "error", errors, BackoffAfterErrors)
      /\ RunOf(recent, "empty", empties, IdleAfterEmpty)
      /\ mode = "backoff" <=> errors = BackoffAfterErrors
      /\ mode = "idle" => Last(IdleAfterEmpty, {"empty", "error"})
      /\ mode = "active" => empties < IdleAfterEmpty
  BY DEF Scheduled
<1>3. CASE StartSlot
  <2>1. mode' = "active" /\ empties' = 0 /\ errors' = 0 /\ Len(recent') = 0
    BY <1>3 DEF StartSlot
  <2> QED  BY <2>1, Thresholds DEF Scheduled, RunOf
<1>4. CASE PollError
  <2>1. /\ errors' = CountTo(errors, BackoffAfterErrors) /\ empties' = 0 /\ Remember("error")
        /\ mode' = IF errors' >= BackoffAfterErrors THEN "backoff" ELSE mode
    BY <1>4 DEF PollError
  <2>2. RunOf(recent', "error", errors', BackoffAfterErrors)
    BY <1>1, <1>2, <2>1, RememberEffect, RunGrows, Thresholds
  <2>3. RunOf(recent', "empty", 0, IdleAfterEmpty)
    BY <1>1, <2>1, RunEnds, Thresholds
  <2>4. mode' = "idle" => Last(IdleAfterEmpty, {"empty", "error"})'
    <3>1. SUFFICES ASSUME mode' = "idle"  PROVE Last(IdleAfterEmpty, {"empty", "error"})'
      OBVIOUS
    <3>2. Last(IdleAfterEmpty, {"empty", "error"})
      BY <1>2, <2>1, <3>1
    <3> QED  BY <1>1, <2>1, <3>2, LastKept, Thresholds
  <2>5. errors' \in 0..BackoffAfterErrors /\ (errors = BackoffAfterErrors => errors' = errors)
    BY <1>1, <2>1, Thresholds DEF CountTo
  <2>6. mode' = "backoff" <=> errors' = BackoffAfterErrors
    BY <1>1, <1>2, <2>1, <2>5, Thresholds
  <2>7. mode' = "active" => empties' < IdleAfterEmpty
    BY <2>1, Thresholds
  <2> QED  BY <2>1, <2>2, <2>3, <2>4, <2>6, <2>7 DEF Scheduled, RunOf
<1>5. CASE PollEmpty
  <2>1. /\ errors' = 0 /\ empties' = CountTo(empties, IdleAfterEmpty) /\ Remember("empty")
        /\ mode' = IF Recovered = "active" /\ empties' >= IdleAfterEmpty THEN "idle" ELSE Recovered
    BY <1>5 DEF PollEmpty
  <2>2. RunOf(recent', "empty", empties', IdleAfterEmpty)
    BY <1>1, <1>2, <2>1, RememberEffect, RunGrows, Thresholds
  <2>3. RunOf(recent', "error", 0, BackoffAfterErrors)
    BY <1>1, <2>1, RunEnds, Thresholds
  <2>4. empties' \in 0..IdleAfterEmpty
    BY <1>1, <2>1, Thresholds DEF CountTo
  <2>5. ASSUME mode' = "idle"  PROVE Last(IdleAfterEmpty, {"empty", "error"})'
    <3>1. CASE mode = "idle"
      BY <1>1, <1>2, <2>1, <3>1, LastKept, Thresholds
    <3>2. CASE mode # "idle"
      <4>1. empties' = IdleAfterEmpty
        BY <1>1, <2>1, <2>4, <2>5, <3>2, Thresholds DEF Recovered
      <4> QED  BY <2>2, <4>1 DEF RunOf, Last
    <3> QED  BY <3>1, <3>2
  <2>6. mode' # "backoff" /\ errors' # BackoffAfterErrors
    BY <1>1, <2>1, Thresholds DEF Recovered
  <2>7. mode' = "active" => empties' < IdleAfterEmpty
    BY <1>1, <2>1, <2>4, Thresholds DEF Recovered
  <2> QED  BY <2>1, <2>2, <2>3, <2>5, <2>6, <2>7 DEF Scheduled, RunOf
<1>6. CASE PollRows
  <2>1. errors' = 0 /\ empties' = 0 /\ mode' = "active" /\ Remember("rows")
    BY <1>6 DEF PollRows
  <2>2. RunOf(recent', "error", 0, BackoffAfterErrors) /\ RunOf(recent', "empty", 0, IdleAfterEmpty)
    BY <1>1, <2>1, RunEnds, Thresholds
  <2> QED  BY <2>1, <2>2, Thresholds DEF Scheduled, RunOf
<1>7. CASE UNCHANGED slotVars
  BY <1>7, <1>2 DEF slotVars, Scheduled, RunOf, Last
<1> QED
  BY <1>3, <1>4, <1>5, <1>6, <1>7 DEF Next, InsertRow, Save, SaveFails, Dispatch, Stop, vars

LEMMA ScheduleInit == Init => Scheduled
<1> SUFFICES ASSUME Init  PROVE Scheduled
  OBVIOUS
<1>1. mode = "active" /\ empties = 0 /\ errors = 0 /\ Len(recent) = 0
  BY DEF Init
<1> QED  BY <1>1, Thresholds DEF Scheduled, RunOf

\* The pace of a slot is a function of its latest polls, for any thresholds.
THEOREM PaceFollowsPolls == Spec => []ModeFollowsPolls
<1>1. TypeOK /\ Scheduled => ModeFollowsPolls
  <2> SUFFICES ASSUME TypeOK, Scheduled  PROVE ModeFollowsPolls
    OBVIOUS
  <2>1. /\ recent \in Seq(Outcomes)
        /\ errors \in 0..BackoffAfterErrors /\ empties \in 0..IdleAfterEmpty
    BY DEF TypeOK
  <2>2. errors = BackoffAfterErrors <=> Last(BackoffAfterErrors, {"error"})
    BY <2>1, RunIsLast, Thresholds DEF Scheduled
  <2>3. empties = IdleAfterEmpty <=> Last(IdleAfterEmpty, {"empty"})
    BY <2>1, RunIsLast, Thresholds DEF Scheduled
  <2>4. empties < IdleAfterEmpty => empties # IdleAfterEmpty
    BY <2>1, Thresholds
  <2> QED  BY <2>2, <2>3, <2>4 DEF Scheduled, ModeFollowsPolls
<1>2. IInv => TypeOK
  BY DEF IInv
<1>3. Spec => []TypeOK
  BY <1>2, InvHolds, PTL
<1>4. Init /\ []TypeOK /\ [][Next]_vars => []Scheduled
  BY ScheduleInit, ScheduleStep, PTL
<1> QED  BY <1>1, <1>3, <1>4, PTL DEF Spec
=============================================================================
