--------------------------- MODULE SettlementProofs ---------------------------
(***************************************************************************)
(* Proofs about Settlement, for any number of chapters, runs and any       *)
(* continuity window.                                                      *)
(*                                                                         *)
(* The argument: a settlement always moves the version of the tracking     *)
(* authority, so a run whose Writer Pack holds the current version has     *)
(* drawn on the current Canon (DrawnOK).  What a run depends on is either  *)
(* still the head or marked stale (DepsOK), and a settled head with a      *)
(* stale dependency is invalidated (HeadsOK).  The book only grows, so a   *)
(* chapter is never before the place it was settled at (OrderOK).          *)
(***************************************************************************)
EXTENDS Settlement, FiniteSetTheorems, TLAPS

\* A started run holds a version of the past; the current one says that
\* Canon is still what the run has drawn on.
DrawnOK ==
  \A r \in Runs : phase[r] # "absent" =>
    pack[r] <= version /\ (pack[r] = version => read[r] = head)

\* A run does not depend on its own chapter, and depends on what is a head
\* or marked stale.
DepsOK ==
  \A r \in Runs :
    /\ deps[r][target[r]] = NoRun
    /\ phase[r] = "absent" => deps[r] = EmptyCanon
    /\ \A s \in Chapters :
         /\ s \in stale[r] => deps[r][s] # NoRun
         /\ deps[r][s] # NoRun /\ s \notin stale[r] => deps[r][s] = head[s]

\* The runs with a settlement.
SettledRuns == {a.run : a \in settlements}

\* A head is the settled run of its own chapter, invalidated if stale.
HeadsOK ==
  \A c \in Chapters : head[c] # NoRun =>
    /\ head[c] \in SettledRuns
    /\ target[head[c]] = c
    /\ stale[head[c]] # {} => c \in invalidated

\* A settlement lies in the past of the tracking authority, and the head it
\* replaced is not a head any more.
RowsOK ==
  \A a \in settlements :
    /\ phase[a.run] = "accepted"
    /\ pack[a.run] < version
    /\ a.before \in SettledRuns \cup {NoRun}
    /\ head[target[a.run]] # a.before

\* A settled chapter is where it was when it was settled, or behind.
OrderOK == \A c \in Chapters : head[c] # NoRun => order[c] <= ReadingOrder(c)

\* The inductive invariant.
IInv ==
  /\ TypeOK /\ records = head /\ DrawnOK /\ DepsOK /\ HeadsOK /\ RowsOK /\ CanonHistoryLinear
  /\ OrderOK

(***************************************************************************)
(* Steps                                                                   *)
(***************************************************************************)

\* The place of a chapter is a number.
LEMMA FiniteBook ==
  ASSUME NEW b \in Seq(Chapters), NEW c
  PROVE  LET S == {d \in ToSet(b) : d <= c} IN IsFiniteSet(S) /\ Cardinality(S) \in Nat
<1> DEFINE S == {d \in ToSet(b) : d <= c}
<1>1. ToSet(b) \subseteq Chapters BY DEF ToSet
<1>2. IsFiniteSet(S) BY <1>1, SettlementAssumption, FS_Subset
<1> QED BY <1>2, FS_CardinalityType

\* A chapter that is added leaves every chapter where it is, or moves it back.
LEMMA BookGrows ==
  ASSUME IInv, NEW n \in Chapters, book' = Append(book, n), NEW c \in Chapters
  PROVE  ReadingOrder(c) \in Nat /\ ReadingOrder(c)' \in Nat /\ ReadingOrder(c) <= ReadingOrder(c)'
<1> DEFINE S == {d \in ToSet(book) : d <= c}
           T == {d \in ToSet(book') : d <= c}
<1>1. book \in Seq(Chapters) /\ book' \in Seq(Chapters) BY DEF IInv, TypeOK
<1>2. IsFiniteSet(S) /\ Cardinality(S) \in Nat BY <1>1, FiniteBook
<1>3. IsFiniteSet(T) /\ Cardinality(T) \in Nat BY <1>1, FiniteBook
<1>4. ToSet(book) \subseteq ToSet(book')
  <2>1. DOMAIN book \subseteq DOMAIN book' /\ \A i \in DOMAIN book : book'[i] = book[i] BY <1>1
  <2> QED BY <2>1 DEF ToSet
<1>5. S \subseteq T BY <1>4
<1>6. Cardinality(S) <= Cardinality(T) BY <1>3, <1>5, FS_Subset
<1>7. ReadingOrder(c) = Cardinality(S) /\ ReadingOrder(c)' = Cardinality(T)
  BY DEF ReadingOrder, ToSet
<1> QED BY <1>2, <1>3, <1>6, <1>7

\* The initial states satisfy the inductive invariant.
LEMMA InitIInv == Init => IInv
<1> SUFFICES ASSUME Init PROVE IInv
  OBVIOUS
<1>1. EmptyCanon \in Canons
  BY DEF EmptyCanon, Canons, Heads
<1>2. TypeOK
  BY <1>1 DEF Init, TypeOK, Phases, Rows, Heads
<1>3. DrawnOK /\ HeadsOK /\ RowsOK /\ CanonHistoryLinear /\ OrderOK
  BY DEF Init, DrawnOK, HeadsOK, RowsOK, CanonHistoryLinear, OrderOK, EmptyCanon
<1>4. DepsOK
  BY DEF Init, DepsOK, EmptyCanon
<1> QED BY <1>2, <1>3, <1>4 DEF IInv, Init

\* A step that leaves Canon, dependencies and settlements alone and only
\* moves a started run on keeps the invariant.
LEMMA QuietStep ==
  ASSUME IInv, TypeOK',
         UNCHANGED <<book, order, head, records, version, invalidated, target, pack, deps, stale,
                     settlements, read>>,
         \A r \in Runs : /\ phase[r] = "absent" <=> phase'[r] = "absent"
                         /\ phase[r] = "accepted" => phase'[r] = "accepted"
  PROVE  IInv'
<1>1. DrawnOK' /\ DepsOK' /\ HeadsOK'
  BY DEF IInv, DrawnOK, DepsOK, HeadsOK, SettledRuns
<1>2. RowsOK'
  BY DEF IInv, RowsOK, SettledRuns, TypeOK, Rows
<1>3. CanonHistoryLinear' /\ OrderOK'
  BY DEF IInv, CanonHistoryLinear, OrderOK, ReadingOrder
<1> QED BY <1>1, <1>2, <1>3 DEF IInv

\* A chapter that is created moves the later ones, and nothing else.
LEMMA CreateStep ==
  ASSUME IInv, NEW n \in Chapters, CreateChapter(n)
  PROVE  IInv'
<1>1. /\ book' = Append(book, n)
      /\ UNCHANGED <<order, head, records, version, invalidated, target, pack, deps, stale, settlements, read,
                     phase, revision, preflight, accepted>>
  BY DEF CreateChapter, runVars, decisionVars
<1>2. TypeOK' BY <1>1 DEF IInv, TypeOK
<1>3. DrawnOK' /\ DepsOK' /\ HeadsOK' /\ RowsOK' /\ CanonHistoryLinear'
  BY <1>1 DEF IInv, DrawnOK, DepsOK, HeadsOK, RowsOK, CanonHistoryLinear, SettledRuns
<1>4. OrderOK'
  <2> SUFFICES ASSUME NEW c \in Chapters, head[c] # NoRun PROVE order[c] <= ReadingOrder(c)'
    BY <1>1 DEF OrderOK
  <2>1. ReadingOrder(c) \in Nat /\ ReadingOrder(c)' \in Nat /\ ReadingOrder(c) <= ReadingOrder(c)'
    BY <1>1, BookGrows
  <2>2. order[c] \in Nat /\ order[c] <= ReadingOrder(c) BY DEF IInv, TypeOK, OrderOK
  <2> QED BY <2>1, <2>2
<1> QED BY <1>1, <1>2, <1>3, <1>4 DEF IInv

\* A beginning run draws on the current Canon.
LEMMA StartStep ==
  ASSUME IInv, NEW r \in Runs, StartRun(r)
  PROVE  IInv'
<1> DEFINE D == [c \in Chapters |-> IF c \in Recent THEN head[c] ELSE NoRun]
<1>1. /\ TypeOK /\ head \in Canons /\ target[r] \in Chapters
      /\ UNCHANGED <<book, order, head, records, version, invalidated, target, stale, settlements>>
  BY DEF IInv, TypeOK, StartRun, authorityVars
<1>2. D \in Canons /\ D[target[r]] = NoRun
  BY <1>1 DEF Canons, Heads, StartRun, CanFreeze
<1>3. deps' = [deps EXCEPT ![r] = D]
  BY DEF StartRun
<1>4. \A c \in Chapters : D[c] # NoRun => D[c] = head[c]
  OBVIOUS
<1> HIDE DEF D
<1>5. TypeOK'
  BY <1>1, <1>2, <1>3 DEF TypeOK, StartRun, decisionVars, Phases
<1>6. DrawnOK'
  BY <1>1 DEF IInv, DrawnOK, StartRun, TypeOK
<1>7. DepsOK'
  <2>1. stale[r] = {}
    BY <1>1 DEF IInv, DepsOK, StartRun, TypeOK, EmptyCanon
  <2>2. ASSUME NEW q \in Runs
        PROVE  /\ deps'[q][target[q]] = NoRun
               /\ phase'[q] = "absent" => deps'[q] = EmptyCanon
               /\ \A s \in Chapters :
                    /\ s \in stale[q] => deps'[q][s] # NoRun
                    /\ deps'[q][s] # NoRun /\ s \notin stale[q] => deps'[q][s] = head[s]
    <3>1. CASE q = r
      BY <1>1, <1>2, <1>3, <1>4, <2>1, <3>1 DEF TypeOK, StartRun
    <3>2. CASE q # r
      BY <1>1, <1>3, <3>2 DEF IInv, DepsOK, TypeOK, StartRun
    <3> QED BY <3>1, <3>2
  <2> QED BY <1>1, <2>2 DEF DepsOK
<1>8. HeadsOK' /\ CanonHistoryLinear' /\ OrderOK'
  BY <1>1 DEF IInv, HeadsOK, SettledRuns, CanonHistoryLinear, OrderOK, ReadingOrder
<1>9. RowsOK'
  <2>1. \A a \in settlements : a.run # r /\ a.run \in Runs
    BY <1>1 DEF IInv, RowsOK, StartRun, TypeOK, Rows
  <2> QED BY <1>1, <2>1 DEF IInv, RowsOK, SettledRuns, StartRun, TypeOK
<1> QED BY <1>1, <1>5, <1>6, <1>7, <1>8, <1>9 DEF IInv

\* The selected context adds dependencies on current heads.
LEMMA FreezeStep ==
  ASSUME IInv, NEW r \in Runs, NEW S \in SUBSET Selectable(r), PersistContextFreeze(r, S)
  PROVE  IInv'
<1> DEFINE D == [c \in Chapters |-> IF c \in S THEN head[c] ELSE deps[r][c]]
<1>1. /\ TypeOK /\ head \in Canons /\ target[r] \in Chapters /\ deps[r] \in Canons
      /\ UNCHANGED <<book, order, head, records, version, invalidated, target, pack, settlements, read>>
      /\ phase[r] = "ready" /\ phase' = [phase EXCEPT ![r] = "frozen"]
      /\ stale' = [stale EXCEPT ![r] = stale[r] \ S]
  BY DEF IInv, TypeOK, PersistContextFreeze, authorityVars
<1>2. D \in Canons
  BY <1>1 DEF Canons
<1>sel. S \subseteq Chapters /\ target[r] \notin S /\ \A c \in S : head[c] # NoRun
  BY DEF Selectable
<1>3. deps' = [deps EXCEPT ![r] = D]
  BY DEF PersistContextFreeze
<1>4. \A c \in Chapters : D[c] = IF c \in S THEN head[c] ELSE deps[r][c]
  OBVIOUS
<1> HIDE DEF D
<1>5. TypeOK'
  <2>1. phase' \in [Runs -> Phases]
    BY <1>1 DEF TypeOK, Phases
  <2>2. deps' \in [Runs -> Canons]
    BY <1>1, <1>2, <1>3 DEF TypeOK
  <2>3. stale' \in [Runs -> SUBSET Chapters]
    BY <1>1 DEF TypeOK
  <2> QED BY <1>1, <2>1, <2>2, <2>3 DEF TypeOK, PersistContextFreeze, decisionVars
<1>6. DrawnOK'
  BY <1>1 DEF IInv, DrawnOK, TypeOK
<1>7. DepsOK'
  <2>1. ASSUME NEW q \in Runs
        PROVE  /\ deps'[q][target[q]] = NoRun
               /\ phase'[q] = "absent" => deps'[q] = EmptyCanon
               /\ \A s \in Chapters :
                    /\ s \in stale'[q] => deps'[q][s] # NoRun
                    /\ deps'[q][s] # NoRun /\ s \notin stale'[q] => deps'[q][s] = head[s]
    <3>1. CASE q = r
      <4>1. deps'[r] = D /\ stale'[r] = stale[r] \ S /\ phase'[r] = "frozen"
        BY <1>1, <1>3 DEF TypeOK
      <4>2. /\ deps[r][target[r]] = NoRun
            /\ \A s \in Chapters :
                 /\ s \in stale[r] => deps[r][s] # NoRun
                 /\ deps[r][s] # NoRun /\ s \notin stale[r] => deps[r][s] = head[s]
        BY DEF IInv, DepsOK
      <4> QED BY <1>1, <1>4, <1>sel, <3>1, <4>1, <4>2
    <3>2. CASE q # r
      BY <1>1, <1>3, <3>2 DEF IInv, DepsOK, TypeOK
    <3> QED BY <3>1, <3>2
  <2> QED BY <1>1, <2>1 DEF DepsOK
<1>8. HeadsOK'
  <2>1. \A c \in Chapters : head[c] # NoRun => head[c] \in Runs
    BY <1>1 DEF Canons, Heads
  <2>2. \A q \in Runs : stale'[q] \subseteq stale[q]
    BY <1>1 DEF TypeOK
  <2> QED BY <1>1, <2>1, <2>2 DEF IInv, HeadsOK, SettledRuns
<1>9. RowsOK'
  BY <1>1 DEF IInv, RowsOK, SettledRuns, TypeOK, Rows
<1>10. CanonHistoryLinear' /\ OrderOK'
  BY <1>1 DEF IInv, CanonHistoryLinear, OrderOK, ReadingOrder
<1> QED BY <1>1, <1>5, <1>6, <1>7, <1>8, <1>9, <1>10 DEF IInv

\* A settlement: the version moves, the replaced head goes stale everywhere.
LEMMA SettleStep ==
  ASSUME IInv, NEW r \in Runs, ApplySettlement(r)
  PROVE  IInv'
<1> DEFINE c == target[r]
           row == [run |-> r, before |-> head[c]]
           A == Affected(r)
<1>1. /\ TypeOK /\ head \in Canons /\ c \in Chapters
      /\ UNCHANGED <<book, target, pack, deps, read>>
      /\ phase[r] = "accepted" /\ pack[r] = version /\ DependenciesCurrent(r)
  BY DEF IInv, TypeOK, ApplySettlement, Settleable
<1>2. /\ head' = [head EXCEPT ![c] = r] /\ records' = [records EXCEPT ![c] = r]
      /\ order' = [order EXCEPT ![c] = ReadingOrder(c)]
      /\ settlements' = settlements \cup {row}
      /\ stale' = [q \in Runs |-> IF q \in A THEN stale[q] \cup {c} ELSE stale[q]]
      /\ phase' = [q \in Runs |-> IF q \in A /\ phase[q] = "frozen"
                                  THEN "stale_conflict" ELSE phase[q]]
      /\ invalidated' = (invalidated \ {c}) \cup {target[q] : q \in A}
      /\ version' = version + IF A = {} THEN 1 ELSE 2
  BY DEF ApplySettlement
<1>3. \A q \in Runs : q \in A <=> head[c] # NoRun /\ deps[q][c] = head[c] /\ c \notin stale[q]
  BY DEF Affected
<1>4. version' \in Nat /\ version' > version
  BY <1>1, <1>2 DEF TypeOK
<1>5. head[c] \in Heads /\ row \in Rows /\ row.run = r /\ row.before = head[c]
  BY <1>1 DEF Canons, Rows
<1>6. r \notin SettledRuns
  BY <1>1 DEF IInv, RowsOK, SettledRuns, TypeOK
<1>7. r # head[c] /\ r # NoRun
  BY <1>1, <1>6, SettlementAssumption DEF IInv, HeadsOK
<1> HIDE DEF A, row
<1>order. order' \in [Chapters -> Nat] /\ OrderOK'
  <2>1. ReadingOrder(c) \in Nat /\ \A d \in Chapters : ReadingOrder(d)' = ReadingOrder(d)
    BY <1>1, FiniteBook DEF ReadingOrder, TypeOK
  <2>2. order' \in [Chapters -> Nat] BY <1>1, <1>2, <2>1 DEF TypeOK
  <2>3. ASSUME NEW d \in Chapters, head'[d] # NoRun PROVE order'[d] <= ReadingOrder(d)
    <3>1. CASE d = c BY <1>1, <1>2, <2>1, <3>1 DEF TypeOK
    <3>2. CASE d # c BY <1>1, <1>2, <2>3, <3>2 DEF IInv, TypeOK, OrderOK, Canons
    <3> QED BY <3>1, <3>2
  <2> QED BY <2>1, <2>2, <2>3 DEF OrderOK
<1>8. TypeOK'
  <2>1. head' \in Canons /\ records' \in Canons
    BY <1>1, <1>2 DEF TypeOK, Canons, Heads
  <2>2. phase' \in [Runs -> Phases] /\ stale' \in [Runs -> SUBSET Chapters]
    BY <1>1, <1>2 DEF TypeOK, Phases
  <2>3. invalidated' \subseteq Chapters
    <3>1. A \subseteq Runs
      BY DEF A, Affected
    <3> QED BY <1>1, <1>2, <3>1 DEF TypeOK
  <2>4. settlements' \subseteq Rows
    BY <1>1, <1>2, <1>5 DEF TypeOK
  <2> QED BY <1>1, <1>4, <1>order, <2>1, <2>2, <2>3, <2>4 DEF TypeOK, ApplySettlement, decisionVars
<1>9. records' = head'
  BY <1>1, <1>2 DEF IInv
<1>10. DrawnOK'
  BY <1>1, <1>2, <1>4 DEF IInv, DrawnOK, TypeOK
<1>11. SettledRuns' = SettledRuns \cup {r}
  BY <1>2, <1>5 DEF SettledRuns
<1>12. \A d \in Chapters : head'[d] = IF d = c THEN r ELSE head[d]
  BY <1>1, <1>2 DEF Canons
<1>13. \A q \in Runs : stale'[q] = IF q \in A THEN stale[q] \cup {c} ELSE stale[q]
  BY <1>2
<1>14. DepsOK'
  <2>1. ASSUME NEW q \in Runs
        PROVE  /\ deps[q][target[q]] = NoRun
               /\ phase'[q] = "absent" => deps[q] = EmptyCanon
    BY <1>2 DEF IInv, DepsOK
  <2>2. ASSUME NEW q \in Runs, NEW s \in Chapters
        PROVE  /\ s \in stale'[q] => deps[q][s] # NoRun
               /\ deps[q][s] # NoRun /\ s \notin stale'[q] => deps[q][s] = head'[s]
    <3>1. /\ s \in stale[q] => deps[q][s] # NoRun
          /\ deps[q][s] # NoRun /\ s \notin stale[q] => deps[q][s] = head[s]
      BY DEF IInv, DepsOK
    <3>2. CASE s # c
      <4>1. s \in stale'[q] <=> s \in stale[q]
        BY <1>13, <3>2
      <4> QED BY <1>12, <3>1, <3>2, <4>1
    <3>3. CASE s = c /\ q \in A
      <4>1. c \in stale'[q]
        BY <1>13, <3>3
      <4>2. deps[q][c] # NoRun
        BY <1>3, <3>3
      <4> QED BY <3>3, <4>1, <4>2
    <3>4. CASE s = c /\ q \notin A
      <4>1. stale'[q] = stale[q]
        BY <1>13, <3>4
      <4>2. ~(deps[q][c] # NoRun /\ c \notin stale[q])
        BY <1>3, <3>1, <3>4
      <4> QED BY <3>1, <3>4, <4>1, <4>2
    <3> QED BY <3>2, <3>3, <3>4
  <2> QED BY <1>1, <2>1, <2>2 DEF DepsOK
<1>15. HeadsOK'
  <2>1. ASSUME NEW d \in Chapters, head'[d] # NoRun
        PROVE  /\ head'[d] \in SettledRuns'
               /\ target[head'[d]] = d
               /\ stale'[head'[d]] # {} => d \in invalidated'
    <3>1. CASE d = c
      <4>1. stale[r] = {} /\ r \notin A
        <5>1. \A s \in Chapters : s \in stale[r] => deps[r][s] # NoRun
          BY DEF IInv, DepsOK
        <5>2. stale[r] = {}
          BY <1>1, <5>1 DEF DependenciesCurrent, TypeOK
        <5>3. deps[r][c] = NoRun
          BY DEF IInv, DepsOK
        <5> QED BY <1>3, <5>2, <5>3
      <4> QED BY <1>11, <1>12, <1>13, <3>1, <4>1
    <3>2. CASE d # c
      <4>1. head'[d] = head[d] /\ head[d] # NoRun /\ head[d] \in Runs
        BY <1>1, <1>12, <2>1, <3>2 DEF Canons, Heads
      <4>2. /\ head[d] \in SettledRuns /\ target[head[d]] = d
            /\ stale[head[d]] # {} => d \in invalidated
        BY <4>1 DEF IInv, HeadsOK
      <4>3. CASE head[d] \in A
        <5>1. target[head[d]] \in invalidated'
          BY <1>2, <4>3
        <5> QED BY <1>11, <4>1, <4>2, <5>1
      <4>4. CASE head[d] \notin A
        BY <1>2, <1>11, <1>13, <3>2, <4>1, <4>2, <4>4
      <4> QED BY <4>3, <4>4
    <3> QED BY <3>1, <3>2
  <2> QED BY <1>1, <2>1 DEF HeadsOK
<1>16. RowsOK'
  <2>1. ASSUME NEW a \in settlements'
        PROVE  /\ phase'[a.run] = "accepted"
               /\ pack[a.run] < version'
               /\ a.before \in SettledRuns' \cup {NoRun}
               /\ head'[target[a.run]] # a.before
    <3>1. CASE a = row
      <4>1. head[c] \in SettledRuns \cup {NoRun}
        BY <1>1 DEF IInv, HeadsOK
      <4>2. phase'[r] = "accepted"
        BY <1>1, <1>2
      <4> QED BY <1>1, <1>4, <1>5, <1>7, <1>11, <1>12, <3>1, <4>1, <4>2
    <3>2. CASE a \in settlements
      <4>1. /\ phase[a.run] = "accepted" /\ pack[a.run] < version /\ a.run \in Runs
            /\ a.before \in SettledRuns \cup {NoRun} /\ head[target[a.run]] # a.before
            /\ pack[a.run] \in Nat /\ target[a.run] \in Chapters
        BY <1>1, <3>2 DEF IInv, RowsOK, TypeOK, Rows
      <4>2. a.before # r
        BY <1>6, <1>7, <4>1
      <4>3. phase'[a.run] = "accepted"
        BY <1>2, <4>1
      <4>4. pack[a.run] < version'
        BY <1>1, <1>4, <4>1 DEF TypeOK
      <4> QED BY <1>11, <1>12, <4>1, <4>2, <4>3, <4>4
    <3> QED BY <1>2, <3>1, <3>2
  <2> QED BY <1>1, <2>1 DEF RowsOK
<1>17. CanonHistoryLinear'
  <2>1. ASSUME NEW a \in settlements
        PROVE  a.run # r /\ (target[a.run] = c => a.before # head[c])
    BY <1>6 DEF IInv, RowsOK, SettledRuns
  <2> QED BY <1>1, <1>2, <1>5, <2>1 DEF IInv, CanonHistoryLinear
<1> QED BY <1>8, <1>9, <1>10, <1>14, <1>15, <1>16, <1>17, <1>order DEF IInv

\* The inductive invariant holds in every next state.
LEMMA NextIInv == IInv /\ [Next]_vars => IInv'
<1> SUFFICES ASSUME IInv, [Next]_vars PROVE IInv'
  OBVIOUS
<1>1. ASSUME NEW r \in Runs, RunStep(r) PROVE IInv'
  <2>1. CASE StartRun(r)
    BY <2>1, StartStep
  <2>2. CASE \E S \in SUBSET Selectable(r) : PersistContextFreeze(r, S)
    BY <2>2, FreezeStep
  <2>3. CASE ReleaseCandidate(r)
    <3>1. TypeOK'
      BY <2>3 DEF IInv, TypeOK, ReleaseCandidate, authorityVars, decisionVars, Phases
    <3> QED BY <2>3, <3>1, QuietStep DEF IInv, TypeOK, ReleaseCandidate, authorityVars
  <2>4. CASE RequestRevision(r)
    <3>1. TypeOK'
      BY <2>4 DEF IInv, TypeOK, RequestRevision, authorityVars, runVars
    <3> QED BY <2>4, <3>1, QuietStep DEF RequestRevision, authorityVars, runVars
  <2>5. CASE AcceptCandidate(r)
    <3>1. accepted' \in Seq(Runs)
      BY <2>5 DEF IInv, TypeOK, AcceptCandidate
    <3>2. TypeOK'
      BY <2>5, <3>1 DEF IInv, TypeOK, AcceptCandidate, authorityVars, Phases
    <3> QED BY <2>5, <3>2, QuietStep DEF IInv, TypeOK, AcceptCandidate, authorityVars
  <2>6. CASE SettlementPreflight(r)
    <3>1. head[target[r]] \in Heads
      BY DEF IInv, TypeOK, Canons
    <3>2. TypeOK'
      BY <2>6, <3>1 DEF IInv, TypeOK, SettlementPreflight, authorityVars, runVars
    <3> QED BY <2>6, <3>2, QuietStep DEF SettlementPreflight, authorityVars, runVars
  <2>7. CASE ApplySettlement(r)
    BY <2>7, SettleStep
  <2> QED BY <1>1, <2>1, <2>2, <2>3, <2>4, <2>5, <2>6, <2>7 DEF RunStep
<1>2. CASE UNCHANGED vars
  BY <1>2, QuietStep DEF vars, authorityVars, runVars, decisionVars, IInv, TypeOK
<1>3. ASSUME NEW c \in Chapters, CreateChapter(c) PROVE IInv'
  BY <1>3, CreateStep
<1> QED BY <1>1, <1>2, <1>3 DEF Next

(***************************************************************************)
(* Theorems                                                                *)
(***************************************************************************)

\* The inductive invariant holds of every behaviour.
THEOREM Invariance == Spec => []IInv
BY InitIInv, NextIInv, PTL DEF Spec

\* No run is settled twice and no head of a chapter is replaced twice, however
\* many runs race for a chapter (apply_settlement).
THEOREM HistoryLinear == Spec => []CanonHistoryLinear
<1>1. IInv => CanonHistoryLinear
  BY DEF IInv
<1> QED BY <1>1, Invariance, PTL

\* A settled chapter written on a head that was replaced since is invalidated
\* and its dependency stale, whatever the window (apply_settlement).
THEOREM StalenessComplete == Spec => []StaleHeadsInvalidated
<1>1. IInv => StaleHeadsInvalidated
  <2> SUFFICES ASSUME IInv, NEW c \in Chapters, NEW s \in Chapters,
                      head[c] # NoRun, deps[head[c]][s] \notin {NoRun, head[s]}
               PROVE  c \in invalidated /\ s \in stale[head[c]]
    BY DEF StaleHeadsInvalidated
  <2>1. head[c] \in Runs
    BY DEF IInv, TypeOK, Canons, Heads
  <2>2. s \in stale[head[c]]
    BY <2>1 DEF IInv, DepsOK
  <2> QED BY <2>2 DEF IInv, HeadsOK
<1> QED BY <1>1, Invariance, PTL

\* The head of a chapter that is not invalidated can be exported, unless a
\* chapter was created before it since it was settled (load_current_source).
THEOREM ValidHeadsExportable == Spec => []ValidHeadsPublishable
<1>1. IInv => ValidHeadsPublishable
  <2> SUFFICES ASSUME IInv, NEW c \in Chapters, head[c] # NoRun, c \notin invalidated
               PROVE  Publishable(head[c]) \/ order[c] < ReadingOrder(c)
    BY DEF ValidHeadsPublishable
  <2>1. head[c] \in Runs
    BY DEF IInv, TypeOK, Canons, Heads
  <2>2. target[head[c]] = c /\ stale[head[c]] = {}
    BY DEF IInv, HeadsOK
  <2>3. DependenciesCurrent(head[c])
    BY <2>1, <2>2 DEF IInv, DepsOK, DependenciesCurrent
  <2>4. ReadingOrder(c) \in Nat /\ order[c] \in Nat
    BY FiniteBook DEF IInv, TypeOK, ReadingOrder
  <2>5. order[c] = ReadingOrder(c) \/ order[c] < ReadingOrder(c)
    BY <2>4 DEF IInv, OrderOK
  <2> QED BY <2>1, <2>2, <2>3, <2>5 DEF Publishable
<1> QED BY <1>1, Invariance, PTL

\* The tables are well typed, for any number of chapters and runs.
THEOREM TypeCorrect == Spec => []TypeOK
<1>1. IInv => TypeOK BY DEF IInv
<1> QED BY <1>1, Invariance, PTL

\* An accepted candidate has no requested revision, whichever request was first
\* (request_candidate_revision, accept_candidate).
THEOREM RevisionsOnlyInReview == Spec => []AcceptedNotUnderRevision
<1> DEFINE InReview == \A r \in revision : phase[r] = "review"
<1>1. Init => InReview BY DEF Init
<1>2. ASSUME IInv, InReview, Next PROVE InReview'
  <2> USE <1>2 DEF IInv, TypeOK
  <2>0. CASE \E c \in Chapters : CreateChapter(c) BY <2>0 DEF CreateChapter, runVars, decisionVars
  <2> SUFFICES ASSUME NEW r \in Runs, RunStep(r) PROVE InReview' BY <2>0 DEF Next
  <2>1. CASE StartRun(r) BY <2>1 DEF StartRun, decisionVars
  <2>2. ASSUME NEW S, PersistContextFreeze(r, S) PROVE InReview'
    BY <2>2 DEF PersistContextFreeze, decisionVars
  <2>3. CASE ReleaseCandidate(r) BY <2>3 DEF ReleaseCandidate, decisionVars
  <2>4. CASE RequestRevision(r) BY <2>4 DEF RequestRevision, runVars
  <2>5. CASE AcceptCandidate(r) BY <2>5 DEF AcceptCandidate
  <2>6. CASE SettlementPreflight(r) BY <2>6 DEF SettlementPreflight, runVars
  <2>7. CASE ApplySettlement(r) BY <2>7 DEF ApplySettlement, decisionVars
  <2> QED BY <2>1, <2>2, <2>3, <2>4, <2>5, <2>6, <2>7 DEF RunStep
<1>3. ASSUME InReview, UNCHANGED vars PROVE InReview'
  BY <1>3 DEF vars, runVars, decisionVars
<1>4. InReview => AcceptedNotUnderRevision BY DEF AcceptedNotUnderRevision
<1> QED BY <1>1, <1>2, <1>3, <1>4, Invariance, PTL DEF Spec

\* Settlement implements SerialCanon: every chapter is settled on exactly the
\* Canon its run has drawn on (author_run_start, apply_settlement).
THEOREM Refinement == Spec => ImplementsSerialCanon
<1> DEFINE Drawn == [r \in Runs |-> IF phase[r] = "absent" THEN {} ELSE {read[r]}]
<1>1. Init => Serial!Init
  BY DEF Init, Serial!Init, EmptyCanon, Serial!EmptyCanon
<1>2. IInv /\ [Next]_vars => [Serial!Next]_(Serial!vars)
  <2> SUFFICES ASSUME IInv, [Next]_vars PROVE [Serial!Next]_(Serial!vars)
    OBVIOUS
  <2>1. TypeOK
    BY DEF IInv
  <2>2. ASSUME NEW r \in Runs, StartRun(r) PROVE Serial!Draft(r)
    <3>1. Drawn[r] = {} /\ head' = head
      BY <2>2 DEF StartRun, authorityVars
    <3>2. Drawn' = [Drawn EXCEPT ![r] = {head}]
      BY <2>1, <2>2 DEF StartRun, TypeOK
    <3> QED BY <3>1, <3>2 DEF Serial!Draft
  <2>3. ASSUME NEW r \in Runs, ApplySettlement(r) PROVE Serial!Settle(r)
    <3>1. phase[r] = "accepted" /\ pack[r] = version /\ target[r] \in Chapters
      BY <2>1, <2>3 DEF ApplySettlement, Settleable, TypeOK
    <3>2. head \in Drawn[r]
      BY <3>1 DEF IInv, DrawnOK
    <3>3. head' = [head EXCEPT ![target[r]] = r]
      BY <2>3 DEF ApplySettlement
    <3>4. Drawn' = Drawn
      BY <2>3 DEF ApplySettlement
    <3> QED BY <3>1, <3>2, <3>3, <3>4 DEF Serial!Settle
  <2>4. ASSUME NEW r \in Runs, RunStep(r), ~StartRun(r), ~ApplySettlement(r)
        PROVE  UNCHANGED Serial!vars
    <3>1. /\ UNCHANGED <<head, read>>
          /\ \A q \in Runs : phase[q] = "absent" <=> phase'[q] = "absent"
      BY <2>1, <2>4 DEF RunStep, PersistContextFreeze, ReleaseCandidate, RequestRevision,
         AcceptCandidate, SettlementPreflight, authorityVars, runVars, TypeOK
    <3>2. Drawn' = Drawn
      BY <3>1
    <3> QED BY <3>1, <3>2 DEF Serial!vars
  <2>5. CASE UNCHANGED vars
    BY <2>5 DEF vars, authorityVars, runVars, Serial!vars
  <2>6. ASSUME NEW c \in Chapters, CreateChapter(c) PROVE UNCHANGED Serial!vars
    BY <2>6 DEF CreateChapter, runVars, Serial!vars
  <2> QED BY <2>2, <2>3, <2>4, <2>5, <2>6 DEF Next, Serial!Next
<1> QED BY <1>1, <1>2, Invariance, PTL DEF Spec, ImplementsSerialCanon, Serial!Spec
=============================================================================
