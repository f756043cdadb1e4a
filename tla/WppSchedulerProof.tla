-------------------------- MODULE WppSchedulerProof --------------------------
(***************************************************************************)
(* Theorems about WppScheduler for every picture size, number of threads   *)
(* and number of extra lines.  The order of the wavefront needs a picture  *)
(* two CTUs wide, or extra lines: Wide.                                    *)
(***************************************************************************)
EXTENDS WppScheduler, FiniteSetTheorems, TLAPS

Wide == W > 1 \/ Extra

\* A row with a CTU in its hands, or granted, has its neighbours: the row
\* above is two CTUs ahead or finished.
Ahead(y) == y > 0 => col[y - 1] >= Lesser(col[y] + 2, W)

-----------------------------------------------------------------------------
\* The inductive invariant.  Order says what the rows have reached,
\* Contexts which context states are saved, GrantState and ReportState how
\* the scheduler's variables follow the rows with and without extra lines.
Order ==
  \A y \in Rows :
    /\ phase[y] = "done" <=> col[y] = W
    /\ phase[y] = "idle" => col[y] = 0
    /\ phase[y] \in {"code", "coded"} => Ahead(y)
    /\ y > 0 /\ col[y] > 0 => col[y - 1] >= Lesser(col[y] + 1, W)

Contexts ==
  SyncsContexts => \A y \in Rows :
    /\ CodedIn(y) >= 2 => ctxVec[y] = picture
    /\ y > 0 /\ W > 1 /\ (col[y] > 0 \/ phase[y] \in {"code", "coded"})
         => loaded[y] = picture

GrantState ==
  /\ \A y \in Rows :
       /\ lineDone[y] = IF col[y] = W THEN IntMax ELSE col[y] - 1
       /\ col[y] = W => y \in lineProc
       /\ sync[y] <= col[y]
       /\ col[y] < W => (sync[y] >= col[y] <=> y \in lineProc)
       /\ phase[y] \in {"code", "coded"} => y \in lineProc
       /\ y \in lineProc /\ col[y] < W => Ahead(y)
  /\ running = Cardinality(Granted)

ReportState ==
  \A y \in Rows : sync[y] = col[y] - 1

IInv ==
  /\ TypeOK
  /\ Order
  /\ Contexts
  /\ Extra => GrantState
  /\ ~Extra => ReportState

-----------------------------------------------------------------------------
LEMMA InitInv == Init => IInv
<1> SUFFICES ASSUME Init PROVE IInv
  OBVIOUS
<1> USE WppAssumption DEF Init
<1>1. TypeOK
  BY DEF TypeOK, SyncInit, ProcInit, Rows, Phases
<1>2. Order
  BY DEF Order, Rows
<1>3. Contexts
  BY DEF Contexts, CodedIn, Rows
<1>4. ASSUME Extra PROVE GrantState
  <2>1. Granted = {0}
    BY <1>4 DEF Granted, ProcInit, Rows
  <2>2. Cardinality(Granted) = 1
    BY <2>1, FS_Singleton
  <2>3. QED
    BY <1>4, <2>2 DEF GrantState, SyncInit, ProcInit, Rows, Ahead
<1>5. ASSUME ~Extra PROVE ReportState
  BY <1>5 DEF ReportState, SyncInit, Rows
<1>6. QED
  BY <1>1, <1>2, <1>3, <1>4, <1>5 DEF IInv

LEMMA BeginRowInv ==
  ASSUME IInv, NEW y \in Rows, BeginRow(y)
  PROVE  IInv'
<1> USE WppAssumption DEF IInv, BeginRow, sched
<1>1. TypeOK'
  BY DEF TypeOK, Phases
<1>2. Order'
  BY DEF Order, TypeOK, Ahead, Phases
<1>3. Contexts'
  BY DEF Contexts, TypeOK, CodedIn, Phases
<1>4. ASSUME Extra PROVE GrantState'
  BY <1>4 DEF GrantState, Granted, TypeOK, Ahead, Phases
<1>5. ASSUME ~Extra PROVE ReportState'
  BY <1>5 DEF ReportState
<1>6. QED
  BY <1>1, <1>2, <1>3, <1>4, <1>5

LEMMA BeginCtuInv ==
  ASSUME IInv, Wide, NEW y \in Rows, BeginCtu(y)
  PROVE  IInv'
<1> USE WppAssumption DEF IInv, BeginCtu, sched
<1>1. col[y] < W /\ Ahead(y) /\ (Extra => y \in lineProc)
  <2>1. col[y] \in 0 .. W /\ col[y] # W
    BY DEF Order, TypeOK
  <2>2. CASE Extra
    BY <2>1, <2>2 DEF Ready, GrantState, TypeOK
  <2>3. CASE ~Extra
    <3>1. CASE y = 0
      BY <2>1, <2>3, <3>1 DEF Ahead
    <3>2. CASE y > 0
      <4>1. y - 1 \in Rows /\ y \in Nat
        BY <3>2 DEF Rows
      <4>2. CASE col[y] + 1 < W
        BY <2>1, <2>3, <3>2, <4>1, <4>2 DEF Ready, ReportState, Ahead, Lesser, TypeOK
      <4>3. CASE col[y] + 1 = W
        BY <2>1, <2>3, <3>2, <4>1, <4>3 DEF Wide, Order, Ahead, Lesser, TypeOK
      <4>4. QED
        BY <2>1, <4>2, <4>3
    <3>3. QED
      BY <3>1, <3>2 DEF Rows
  <2>4. QED
    BY <2>2, <2>3
<1>2. TypeOK'
  <2>1. LoadsContexts(y) => y - 1 \in Rows
    BY DEF LoadsContexts, Rows
  <2>2. QED
    BY <2>1 DEF TypeOK, Phases
<1>3. Order'
  BY <1>1 DEF Order, TypeOK, Ahead, Phases
<1>4. Contexts'
  <2>1. \A r \in Rows : CodedIn(r)' = CodedIn(r)
    BY DEF CodedIn, TypeOK, Phases
  <2>2. ASSUME SyncsContexts, NEW r \in Rows, r > 0, W > 1,
               (col[r] > 0 \/ phase[r] \in {"code", "coded"})'
        PROVE  loaded'[r] = picture
    <3>1. CASE r = y /\ col[y] = 0
      <4>1. y - 1 \in Rows
        BY <2>2, <3>1 DEF Rows
      <4>2. CodedIn(y - 1) >= 2
        BY <1>1, <2>2, <3>1, <4>1 DEF Ahead, Lesser, CodedIn, TypeOK
      <4>3. ctxVec[y - 1] = picture
        BY <4>1, <4>2, <2>2 DEF Contexts
      <4>4. QED
        BY <2>2, <3>1, <4>3 DEF LoadsContexts, TypeOK
    <3>2. CASE r = y /\ col[y] > 0
      BY <2>2, <3>2 DEF Contexts, LoadsContexts, TypeOK
    <3>3. CASE r # y
      BY <2>2, <3>3 DEF Contexts, LoadsContexts, TypeOK
    <3>4. QED
      BY <3>1, <3>2, <3>3 DEF TypeOK
  <2>3. QED
    BY <2>1, <2>2 DEF Contexts
<1>5. ASSUME Extra PROVE GrantState'
  BY <1>1, <1>5 DEF GrantState, Granted, TypeOK, Ahead, Phases
<1>6. ASSUME ~Extra PROVE ReportState'
  BY <1>6 DEF ReportState
<1>7. QED
  BY <1>2, <1>3, <1>4, <1>5, <1>6

LEMMA EndCtuInv ==
  ASSUME IInv, NEW y \in Rows, EndCtu(y)
  PROVE  IInv'
<1> USE WppAssumption DEF IInv, EndCtu, sched
<1>1. TypeOK'
  BY DEF TypeOK, Phases
<1>2. Order'
  BY DEF Order, TypeOK, Ahead, Phases
<1>3. Contexts'
  <2>1. ASSUME SyncsContexts, NEW r \in Rows, CodedIn(r)' >= 2
        PROVE  ctxVec'[r] = picture
    <3>1. CASE r = y /\ col[y] = 1
      BY <2>1, <3>1 DEF TypeOK
    <3>2. CASE r = y /\ col[y] # 1
      BY <2>1, <3>2 DEF Contexts, CodedIn, TypeOK
    <3>3. CASE r # y
      BY <2>1, <3>3 DEF Contexts, CodedIn, TypeOK
    <3>4. QED
      BY <3>1, <3>2, <3>3
  <2>2. QED
    BY <2>1 DEF Contexts, TypeOK
<1>4. ASSUME Extra PROVE GrantState'
  BY <1>4 DEF GrantState, Granted, TypeOK, Ahead, Phases
<1>5. ASSUME ~Extra PROVE ReportState'
  BY <1>5 DEF ReportState
<1>6. QED
  BY <1>1, <1>2, <1>3, <1>4, <1>5

-----------------------------------------------------------------------------
\* setReady without extra lines.
LEMMA ReportInv ==
  ASSUME IInv, Wide, ~Extra, NEW y \in Rows, SetReady(y)
  PROVE  IInv'
<1> USE WppAssumption DEF IInv, SetReady, Report, sched
<1>1. col[y] \in 0 .. W - 1 /\ Ahead(y)
  BY DEF Order, TypeOK
<1>2. TypeOK'
  BY <1>1 DEF TypeOK, Phases
<1>3. Order'
  BY <1>1 DEF Order, TypeOK, Ahead, Phases, Lesser
<1>4. Contexts'
  BY <1>1 DEF Contexts, CodedIn, TypeOK, Phases
<1>5. ReportState'
  BY <1>1 DEF ReportState, TypeOK
<1>6. QED
  BY <1>2, <1>3, <1>4, <1>5

\* What the part of setReady under m_mutex does, in terms of the set of rows
\* that it grants.
Given(G, y) ==
  /\ G \subseteq Rows
  /\ lineDone' = [lineDone EXCEPT ![y] = IF col[y] + 1 = W THEN IntMax ELSE col[y]]
  /\ \A r \in G : /\ r \notin (lineProc \ {y})
                  /\ r = y => col[y] + 1 # W
                  /\ r > 0 => lineDone'[r - 1] >= Lesser(lineDone'[r] + 2, W - 1)
  /\ lineProc' = (lineProc \ {y}) \cup G \cup (IF col[y] + 1 = W THEN {y} ELSE {})
  /\ sync' = [r \in Rows |-> IF r \in G THEN lineDone'[r] + 1 ELSE sync[r]]
  /\ running' = running - 1 + Cardinality(G)
  /\ running' <= NumThreads
  /\ first' = IF col[y] + 1 = W THEN y + 1 ELSE first
  /\ first' \in 0 .. H
  /\ \A r \in G : r = y \/ r <= LastLine(first')

LEMMA RowsFinite == ASSUME NEW S \in SUBSET Rows
                    PROVE  IsFiniteSet(S) /\ Cardinality(S) \in Nat
<1>1. IsFiniteSet(Rows)
  BY WppAssumption, FS_Interval DEF Rows
<1>2. QED
  BY <1>1, FS_Subset, FS_CardinalityType

LEMMA GrantGives ==
  ASSUME TypeOK, NEW y \in Rows, Grant(y), col[y] < W, running > 0
  PROVE  \E G \in SUBSET Rows : Given(G, y)
<1> DEFINE last == col[y] + 1 = W
           f    == IF last THEN y + 1 ELSE first
           done == [lineDone EXCEPT ![y] = IF last THEN IntMax ELSE col[y]]
           proc == IF last THEN lineProc \cup {y} ELSE lineProc \ {y}
           own  == OwnGrant(f, done, proc, y)
           free == {r \in f .. LastLine(f) : r \notin own /\ Runnable(done, proc, r, 1)}
<1> USE WppAssumption
<1>1. PICK jobs \in SUBSET free :
        /\ IsUppermost(jobs, free, NumThreads - Busy(own))
        /\ first' = f
        /\ lineDone' = done
        /\ lineProc' = proc \cup own \cup jobs
        /\ sync' = [r \in Rows |-> IF r \in own \cup jobs THEN done[r] + 1 ELSE sync[r]]
        /\ running' = Busy(own) + Cardinality(jobs)
  BY DEF Grant
<1>2. f \in 0 .. H /\ LastLine(f) \in Int /\ LastLine(f) < H
  BY DEF TypeOK, Rows, LastLine, Lesser, D
<1>3. /\ done = [lineDone EXCEPT ![y] = IF col[y] + 1 = W THEN IntMax ELSE col[y]]
      /\ done \in [Rows -> Int]
      /\ proc = (lineProc \ {y}) \cup (IF col[y] + 1 = W THEN {y} ELSE {})
      /\ proc \subseteq Rows
      /\ f = IF col[y] + 1 = W THEN y + 1 ELSE first
  BY DEF TypeOK
<1>4. /\ free \subseteq Rows /\ free \cap own = {}
      /\ \A r \in free : Runnable(done, proc, r, 1) /\ r <= LastLine(f)
  BY <1>2 DEF Rows
<1> HIDE DEF last, f, done, proc, free
<1>5. \/ own = {}
      \/ \E r \in Rows : /\ own = {r} /\ Runnable(done, proc, r, 1)
                         /\ r = y \/ r <= LastLine(f)
  <2>1. CASE ContinuesBelow(f, done, proc, y)
    <3>1. y + 1 \in Rows /\ Runnable(done, proc, y + 1, 4) /\ y + 1 <= LastLine(f)
      BY <1>2, <2>1 DEF ContinuesBelow, Rows
    <3>2. Runnable(done, proc, y + 1, 1)
      <4>1. done[y + 1] \in Int /\ y + 1 > 0
        BY <1>3, <3>1 DEF Rows
      <4>2. done[(y + 1) - 1] \in Int
        BY <1>3 DEF Rows
      <4>3. QED
        BY <3>1, <4>1, <4>2 DEF Runnable, Lesser
    <3>3. own = {y + 1}
      BY <2>1 DEF OwnGrant
    <3>4. QED
      BY <3>1, <3>2, <3>3
  <2>2. CASE ~ContinuesBelow(f, done, proc, y)
    BY <2>2 DEF OwnGrant
  <2>3. QED
    BY <2>1, <2>2
<1> HIDE DEF own
<1>6. own \subseteq Rows /\ jobs \subseteq Rows /\ own \cap jobs = {}
  BY <1>4, <1>5
<1>7. Cardinality(own) \in 0 .. 1
  <2>1. CASE own = {}
    BY <2>1, FS_EmptySet
  <2>2. CASE own # {}
    <3>1. PICK r \in Rows : own = {r}
      BY <1>5, <2>2
    <3>2. QED
      BY <3>1, FS_Singleton
  <2>3. QED
    BY <2>1, <2>2
<1>8. Busy(own) \in Nat /\ Busy(own) <= NumThreads
  BY <1>7 DEF Busy, TypeOK
<1>9. Cardinality(jobs) \in Nat /\ Cardinality(jobs) <= NumThreads - Busy(own)
  <2>1. Cardinality(free) \in Nat /\ Cardinality(jobs) \in Nat
    BY <1>4, <1>6, RowsFinite
  <2>2. Cardinality(jobs) = Lesser(NumThreads - Busy(own), Cardinality(free))
    BY <1>1 DEF IsUppermost
  <2>3. QED
    BY <1>8, <2>1, <2>2 DEF Lesser
<1>10. Cardinality(own \cup jobs) = Cardinality(own) + Cardinality(jobs)
  <2>1. /\ IsFiniteSet(own) /\ IsFiniteSet(jobs)
        /\ Cardinality(own \cap jobs) = 0
    BY <1>6, RowsFinite, FS_EmptySet
  <2>2. Cardinality(own \cup jobs)
          = Cardinality(own) + Cardinality(jobs) - Cardinality(own \cap jobs)
    BY <2>1, FS_Union
  <2>3. QED
    BY <1>7, <1>9, <2>1, <2>2
<1>11. running' = running - 1 + Cardinality(own \cup jobs) /\ running' <= NumThreads
  BY <1>1, <1>7, <1>8, <1>9, <1>10 DEF Busy, TypeOK
<1>12. ASSUME NEW r \in own \cup jobs
       PROVE  /\ r \notin (lineProc \ {y})
              /\ r = y => col[y] + 1 # W
              /\ r > 0 => done[r - 1] >= Lesser(done[r] + 2, W - 1)
              /\ r = y \/ r <= LastLine(f)
  <2>1. r \in Rows /\ Runnable(done, proc, r, 1) /\ (r = y \/ r <= LastLine(f))
    BY <1>4, <1>5, <1>6
  <2>2. done[r] \in Int
    BY <1>3, <2>1
  <2>3. r > 0 => done[r - 1] >= Lesser(done[r] + 2, W - 1)
    BY <2>1, <2>2 DEF Runnable, Lesser
  <2>4. QED
    BY <1>3, <2>1, <2>3 DEF Runnable
<1>13. Given(own \cup jobs, y)
  <2>1. lineProc' = (lineProc \ {y}) \cup (own \cup jobs) \cup (IF col[y] + 1 = W THEN {y} ELSE {})
    BY <1>1, <1>3
  <2>2. lineDone' = [lineDone EXCEPT ![y] = IF col[y] + 1 = W THEN IntMax ELSE col[y]]
    BY <1>1, <1>3
  <2>3. /\ first' = IF col[y] + 1 = W THEN y + 1 ELSE first
        /\ first' \in 0 .. H
        /\ \A r \in own \cup jobs : r = y \/ r <= LastLine(first')
    BY <1>1, <1>2, <1>3, <1>12
  <2>4. QED
    BY <1>1, <1>6, <1>11, <1>12, <2>1, <2>2, <2>3 DEF Given
<1>14. QED
  BY <1>6, <1>13

\* setReady with extra lines.
LEMMA GrantInv ==
  ASSUME IInv, Extra, NEW y \in Rows, SetReady(y)
  PROVE  IInv'
<1> USE WppAssumption
<1>1. /\ col[y] \in 0 .. W - 1 /\ Ahead(y)
      /\ y \in lineProc /\ lineDone[y] = col[y] - 1 /\ sync[y] = col[y]
  BY DEF IInv, SetReady, Order, TypeOK, GrantState
<1>2. col' = [col EXCEPT ![y] = @ + 1] /\ col' \in [Rows -> 0 .. W]
  BY <1>1 DEF SetReady, IInv, TypeOK
<1>3. y \in Granted /\ Granted \subseteq Rows /\ running > 0
  <2>1. y \in Granted /\ Granted \subseteq Rows
    BY <1>1 DEF Granted, IInv, TypeOK
  <2>2. Cardinality(Granted) # 0
    BY <2>1, RowsFinite, FS_EmptySet
  <2>3. QED
    BY <2>1, <2>2 DEF IInv, GrantState, TypeOK
<1>4. PICK G \in SUBSET Rows : Given(G, y)
  BY <1>1, <1>3, GrantGives DEF IInv, SetReady
<1>5. \A r \in Rows : lineDone'[r] = IF col'[r] = W THEN IntMax ELSE col'[r] - 1
  BY <1>1, <1>2, <1>4 DEF Given, IInv, GrantState, TypeOK
<1>6. \A r \in G : /\ r \notin Granted \ {y}
                   /\ col'[r] < W
                   /\ r > 0 => col'[r - 1] >= Lesser(col'[r] + 2, W)
  <2>1. ASSUME NEW r \in G
        PROVE  r \notin Granted \ {y} /\ col'[r] < W
    BY <1>1, <1>2, <1>4 DEF Given, Granted, IInv, GrantState, TypeOK
  <2>2. ASSUME NEW r \in G, r > 0
        PROVE  col'[r - 1] >= Lesser(col'[r] + 2, W)
    <3>1. r \in Rows /\ r - 1 \in Rows
      BY <2>2 DEF Rows
    <3>2. lineDone'[r - 1] >= Lesser(lineDone'[r] + 2, W - 1)
      BY <1>4, <2>2 DEF Given
    <3>3. lineDone'[r] = col'[r] - 1
      BY <1>5, <2>1, <2>2, <3>1
    <3>4. QED
      BY <1>2, <1>5, <3>1, <3>2, <3>3 DEF Lesser
  <2>3. QED
    BY <2>1, <2>2
<1>7. lineProc' = (lineProc \ {y}) \cup G \cup (IF col'[y] = W THEN {y} ELSE {})
  BY <1>2, <1>4 DEF Given, IInv, TypeOK
<1>8. sync' = [r \in Rows |-> IF r \in G THEN col'[r] ELSE sync[r]]
  BY <1>2, <1>4, <1>5, <1>6 DEF Given
<1>9. running' = running - 1 + Cardinality(G) /\ running' \in 0 .. NumThreads
  BY <1>3, <1>4, RowsFinite DEF Given, IInv, TypeOK
<1>10. TypeOK'
  <2>1. sync' \in [Rows -> -1 .. W - 1]
    BY <1>2, <1>6, <1>8 DEF IInv, TypeOK
  <2>2. lineDone' \in [Rows -> -1 .. W - 1 \cup {IntMax}]
    BY <1>1, <1>4 DEF Given, IInv, TypeOK
  <2>3. lineProc' \subseteq Rows
    BY <1>7 DEF IInv, TypeOK
  <2>4. phase' \in [Rows -> Phases]
    BY DEF SetReady, IInv, TypeOK, Phases
  <2>5. QED
    BY <1>2, <1>4, <1>9, <2>1, <2>2, <2>3, <2>4 DEF Given, SetReady, IInv, TypeOK
<1>11. Order'
  BY <1>1, <1>2 DEF SetReady, IInv, Order, TypeOK, Ahead, Phases, Lesser
<1>12. Contexts'
  BY <1>1, <1>2 DEF SetReady, IInv, Contexts, CodedIn, TypeOK, Phases
<1>13. GrantState'
  <2>1. ASSUME NEW r \in Rows
        PROVE  /\ col'[r] = W => r \in lineProc'
               /\ sync'[r] <= col'[r]
               /\ col'[r] < W => (sync'[r] >= col'[r] <=> r \in lineProc')
    <3>1. CASE r = y
      <4>1. col'[y] = col[y] + 1 /\ sync'[y] = IF y \in G THEN col'[y] ELSE col[y]
        BY <1>1, <1>2, <1>8 DEF IInv, TypeOK
      <4>2. col'[y] # W => (y \in lineProc' <=> y \in G)
        BY <1>7
      <4>3. QED
        BY <1>1, <1>7, <3>1, <4>1, <4>2
    <3>2. CASE r # y
      BY <1>2, <1>7, <1>8, <2>1, <3>2 DEF IInv, GrantState, TypeOK
    <3>3. QED
      BY <3>1, <3>2
  <2>2. ASSUME NEW r \in Rows, (phase[r] \in {"code", "coded"})'
        PROVE  r \in lineProc'
    BY <1>7, <2>2 DEF SetReady, IInv, GrantState, TypeOK
  <2>3. ASSUME NEW r \in Rows, r \in lineProc', col'[r] < W, r > 0
        PROVE  col'[r - 1] >= Lesser(col'[r] + 2, W)
    <3>1. CASE r \in G
      BY <1>6, <2>3, <3>1
    <3>2. CASE r \notin G
      <4>1. r \in lineProc /\ r # y /\ r - 1 \in Rows /\ col[r] < W
        <5>1. r \in lineProc \ {y}
          BY <1>2, <1>7, <2>3, <3>2
        <5>2. r - 1 \in Rows
          BY <2>3 DEF Rows
        <5>3. col[r] = col'[r]
          BY <1>2, <5>1 DEF IInv, TypeOK
        <5>4. QED
          BY <2>3, <5>1, <5>2, <5>3
      <4>2. col[r - 1] >= Lesser(col[r] + 2, W)
        BY <2>3, <4>1 DEF IInv, GrantState, Ahead
      <4>3. col'[r] = col[r] /\ col'[r - 1] >= col[r - 1]
        BY <1>1, <1>2, <2>3, <4>1 DEF IInv, TypeOK
      <4>4. QED
        BY <1>2, <4>1, <4>2, <4>3 DEF Lesser, IInv, TypeOK
    <3>3. QED
      BY <3>1, <3>2
  <2>4. running' = Cardinality(Granted')
    <3>1. Granted' = (Granted \ {y}) \cup G
      <4>1. \A r \in Rows : lineDone'[r] # IntMax <=> col'[r] # W
        BY <1>2, <1>5
      <4>2. \A r \in Rows : r # y => lineDone'[r] = lineDone[r]
        BY <1>4 DEF Given, IInv, TypeOK
      <4>3. Granted' = {r \in lineProc' : lineDone'[r] # IntMax}
        BY DEF Granted
      <4>4. ASSUME NEW r \in Granted'
            PROVE  r \in (Granted \ {y}) \cup G
        BY <1>2, <1>7, <4>1, <4>2, <4>3, <4>4 DEF Granted, IInv, TypeOK
      <4>5. ASSUME NEW r \in (Granted \ {y}) \cup G
            PROVE  r \in Granted'
        BY <1>3, <1>6, <1>7, <4>1, <4>2, <4>3, <4>5 DEF Granted
      <4>6. QED
        BY <4>4, <4>5
    <3>2. (Granted \ {y}) \cap G = {}
      BY <1>6
    <3>3. Cardinality(Granted \ {y}) = running - 1
      BY <1>3, RowsFinite, FS_RemoveElement DEF IInv, GrantState
    <3>4. IsFiniteSet(Granted \ {y}) /\ IsFiniteSet(G) /\ Cardinality(G) \in Nat
      BY <1>3, RowsFinite
    <3>5. Cardinality((Granted \ {y}) \cup G) = running - 1 + Cardinality(G)
      <4>1. Cardinality((Granted \ {y}) \cap G) = 0
        BY <3>2, FS_EmptySet
      <4>2. Cardinality((Granted \ {y}) \cup G)
              = Cardinality(Granted \ {y}) + Cardinality(G)
                - Cardinality((Granted \ {y}) \cap G)
        BY <3>4, FS_Union
      <4>3. QED
        BY <3>3, <3>4, <4>1, <4>2 DEF IInv, TypeOK
    <3>6. QED
      BY <1>9, <3>1, <3>5
  <2>5. QED
    BY <1>5, <2>1, <2>2, <2>3, <2>4 DEF GrantState, Ahead
<1>14. QED
  BY <1>10, <1>11, <1>12, <1>13 DEF IInv

LEMMA NextPictureInv ==
  ASSUME IInv, NextPicture
  PROVE  IInv'
<1> USE WppAssumption DEF IInv, NextPicture
<1>1. TypeOK'
  <2>1. lineDone' \in [Rows -> -1 .. W - 1 \cup {IntMax}] /\ lineProc' \subseteq Rows
    <3>1. CASE Extra
      BY <3>1 DEF ProcInit, Rows
    <3>2. CASE ~Extra
      BY <3>2 DEF TypeOK
    <3>3. QED
      BY <3>1, <3>2
  <2>2. /\ sync' \in [Rows -> -1 .. W - 1]
        /\ phase' \in [Rows -> Phases]
        /\ col' \in [Rows -> 0 .. W]
    BY DEF SyncInit, Rows, Phases
  <2>3. /\ first' \in 0 .. H
        /\ running' \in 0 .. NumThreads
        /\ picture' \in 1 .. MaxPictures
    BY DEF TypeOK
  <2>4. QED
    BY <2>1, <2>2, <2>3 DEF TypeOK
<1>2. Order'
  BY DEF Order, Rows
<1>3. Contexts'
  BY DEF Contexts, CodedIn, Rows
<1>4. ASSUME Extra PROVE GrantState'
  <2>1. Granted' = {0}
    BY <1>4 DEF Granted, ProcInit, Rows
  <2>2. Cardinality(Granted') = 1
    BY <2>1, FS_Singleton
  <2>3. QED
    BY <1>4, <2>2 DEF GrantState, SyncInit, ProcInit, Rows, Ahead
<1>5. ASSUME ~Extra PROVE ReportState'
  BY <1>5 DEF ReportState, SyncInit, Rows
<1>6. QED
  BY <1>1, <1>2, <1>3, <1>4, <1>5

LEMMA StepInv == ASSUME Wide, IInv, [Next]_vars PROVE IInv'
<1>1. CASE UNCHANGED vars
  BY <1>1 DEF IInv, TypeOK, Order, Contexts, GrantState, ReportState, Granted,
              Ahead, CodedIn, vars
<1>2. CASE NextPicture
  BY <1>2, NextPictureInv
<1>3. CASE Terminated
  BY <1>1, <1>3 DEF Terminated
<1>4. ASSUME NEW y \in Rows, Thread(y) PROVE IInv'
  <2>1. CASE BeginRow(y)
    BY <2>1, BeginRowInv
  <2>2. CASE BeginCtu(y)
    BY <2>2, BeginCtuInv
  <2>3. CASE EndCtu(y)
    BY <2>3, EndCtuInv
  <2>4. CASE SetReady(y)
    BY <2>4, ReportInv, GrantInv
  <2>5. QED
    BY <1>4, <2>1, <2>2, <2>3, <2>4 DEF Thread
<1>5. QED
  BY <1>1, <1>2, <1>3, <1>4 DEF Next

\* The inductive invariant holds of every behaviour of the scheduler.
THEOREM Invariance == ASSUME Wide PROVE Spec => []IInv
<1>1. Init => IInv
  BY InitInv
<1>2. IInv /\ [Next]_vars => IInv'
  BY StepInv
<1>3. QED
  BY <1>1, <1>2, PTL DEF Spec

-----------------------------------------------------------------------------
\* The variables of the scheduler stay in their ranges; in particular no
\* more than NumThreads rows are ever granted (setReady's counting).
THEOREM TypeCorrect == ASSUME Wide PROVE Spec => []TypeOK
<1>1. IInv => TypeOK
  BY DEF IInv
<1>2. QED
  BY <1>1, Invariance, PTL

\* A CTU is coded only when its neighbours are reconstructed (wait and the
\* grants of setReady).
THEOREM Dependencies == ASSUME Wide PROVE Spec => []DependenciesMet
<1>1. IInv => DependenciesMet
  <2> SUFFICES ASSUME IInv, NEW y \in Coding, y > 0
               PROVE  CodedIn(y - 1) >= Lesser(col[y] + 2, W)
    BY DEF DependenciesMet
  <2>1. y \in Rows /\ y - 1 \in Rows
    <3>1. y \in Rows
      BY DEF Coding
    <3>2. QED
      BY <3>1, WppAssumption DEF Rows
  <2>2. col[y - 1] >= Lesser(col[y] + 2, W)
    BY <2>1 DEF Coding, IInv, Order, Ahead
  <2>3. col[y - 1] \in Int /\ CodedIn(y - 1) >= col[y - 1] /\ col[y] \in Int
    BY <2>1 DEF IInv, TypeOK, CodedIn
  <2>4. QED
    BY <2>2, <2>3, WppAssumption DEF Lesser, CodedIn
<1>2. QED
  BY <1>1, Invariance, PTL

\* No row starts from the contexts of an earlier picture (encodeCtus).
THEOREM Fresh == ASSUME Wide PROVE Spec => []ContextsFresh
<1>1. IInv => ContextsFresh
  BY DEF IInv, Contexts, ContextsFresh
<1>2. QED
  BY <1>1, Invariance, PTL

\* m_numWppThreadsRunning is the number of rows with a grant (setReady).
THEOREM Counting == ASSUME Wide PROVE Spec => []RunningExact
<1>1. IInv => RunningExact
  <2> SUFFICES ASSUME IInv, Extra PROVE RunningExact
    BY DEF RunningExact
  <2>1. Coding \subseteq Granted
    BY WppAssumption DEF Coding, Granted, IInv, GrantState, TypeOK, Order
  <2>2. QED
    BY <2>1, WppAssumption DEF IInv, GrantState, TypeOK, RunningExact
<1>2. QED
  BY <1>1, Invariance, PTL

-----------------------------------------------------------------------------
\* Every step of the threads is a step of the wavefront or leaves it alone.
LEMMA StepImplements ==
  ASSUME Wide, IInv, IInv', [Next]_vars
  PROVE  [WavefrontOrder!Next]_(WavefrontOrder!wvars)
<1> DEFINE coded == [y \in Rows |-> CodedIn(y)]
<1> USE WppAssumption DEF IInv, WavefrontOrder!wvars, WavefrontOrder!Rows
<1>1. CASE UNCHANGED vars
  BY <1>1 DEF vars, CodedIn, Coding
<1>2. CASE NextPicture
  <2>1. coded' = [y \in Rows |-> 0]
    BY <1>2 DEF NextPicture, CodedIn
  <2>2. Coding = {} /\ Coding' = {}
    BY <1>2 DEF NextPicture, Coding, PictureDone
  <2>3. \A y \in Rows : coded[y] = W
    BY <1>2 DEF NextPicture, PictureDone, CodedIn, Order
  <2>4. WavefrontOrder!NextPicture
    BY <1>2, <2>1, <2>2, <2>3 DEF NextPicture, WavefrontOrder!NextPicture, Rows
  <2>5. QED
    BY <2>4 DEF WavefrontOrder!Next
<1>3. ASSUME NEW y \in Rows, BeginRow(y)
      PROVE  UNCHANGED WavefrontOrder!wvars
  BY <1>3 DEF BeginRow, CodedIn, Coding, TypeOK, Phases
<1>4. ASSUME NEW y \in Rows, BeginCtu(y)
      PROVE  WavefrontOrder!BeginCtu(y)
  <2>1. coded' = coded
    BY <1>4 DEF BeginCtu, CodedIn, TypeOK, Phases
  <2>2. Coding' = Coding \cup {y} /\ y \notin Coding
    BY <1>4 DEF BeginCtu, Coding, TypeOK, Phases
  <2>3. coded[y] = col[y] /\ col[y] \in 0 .. W - 1
    BY <1>4 DEF BeginCtu, CodedIn, Order, TypeOK
  <2>4. y > 0 => coded[y - 1] >= WavefrontOrder!Above(coded[y])
    <3> SUFFICES ASSUME y > 0 PROVE coded[y - 1] >= WavefrontOrder!Above(coded[y])
      OBVIOUS
    <3>1. y - 1 \in Rows
      BY DEF Rows
    <3>2. col'[y - 1] >= Lesser(col'[y] + 2, W) /\ col' = col
      BY <1>4 DEF BeginCtu, Order, Ahead, TypeOK
    <3>3. coded[y - 1] >= col[y - 1] /\ col[y - 1] \in Int
      BY <3>1 DEF CodedIn, TypeOK
    <3>4. QED
      BY <2>3, <3>1, <3>2, <3>3 DEF WavefrontOrder!Above, Lesser, CodedIn
  <2>5. QED
    BY <1>4, <2>1, <2>2, <2>3, <2>4 DEF BeginCtu, WavefrontOrder!BeginCtu
<1>5. ASSUME NEW y \in Rows, EndCtu(y)
      PROVE  WavefrontOrder!EndCtu(y)
  <2>1. coded' = [coded EXCEPT ![y] = @ + 1]
    BY <1>5 DEF EndCtu, CodedIn, TypeOK, Phases
  <2>2. Coding' = Coding \ {y} /\ y \in Coding
    BY <1>5 DEF EndCtu, Coding, TypeOK, Phases
  <2>3. QED
    BY <1>5, <2>1, <2>2 DEF EndCtu, WavefrontOrder!EndCtu
<1>6. ASSUME NEW y \in Rows, SetReady(y)
      PROVE  UNCHANGED WavefrontOrder!wvars
  BY <1>6 DEF SetReady, CodedIn, Coding, TypeOK, Phases
<1>7. QED
  BY <1>1, <1>2, <1>3, <1>4, <1>5, <1>6
     DEF Next, Thread, Terminated, Rows, WavefrontOrder!Next

\* The scheduler and its threads implement the wavefront order.
THEOREM Implementation == ASSUME Wide PROVE Spec => ImplementsWavefront
<1>1. Init => WavefrontOrder!Init
  BY WppAssumption DEF Init, WavefrontOrder!Init, WavefrontOrder!Rows, Rows, CodedIn, Coding
<1>2. IInv /\ IInv' /\ [Next]_vars => [WavefrontOrder!Next]_(WavefrontOrder!wvars)
  BY StepImplements
<1>3. QED
  BY <1>1, <1>2, Invariance, PTL DEF Spec, ImplementsWavefront, WavefrontOrder!Spec

-----------------------------------------------------------------------------
\* A row that reports its CTU holds one of the slots that are counted.
LEMMA SlotHeld ==
  ASSUME IInv, Extra, NEW y \in Rows, phase[y] = "coded"
  PROVE  /\ col[y] \in 0 .. W - 1
         /\ y \in lineProc
         /\ running \in 1 .. NumThreads
<1> USE WppAssumption
<1>1. col[y] \in 0 .. W - 1 /\ y \in lineProc /\ lineDone[y] # IntMax
  BY DEF IInv, Order, TypeOK, GrantState
<1>2. y \in Granted /\ Granted \subseteq Rows
  BY <1>1 DEF Granted, IInv, TypeOK
<1>3. Cardinality(Granted) # 0
  BY <1>2, RowsFinite, FS_EmptySet
<1>4. QED
  BY <1>1, <1>3 DEF IInv, GrantState, TypeOK

\* The reporting thread's slot goes to one row at most.
LEMMA OwnGrantAtMostOne ==
  ASSUME NEW f, NEW done, NEW proc, NEW y
  PROVE  Cardinality(OwnGrant(f, done, proc, y)) \in 0 .. 1
<1>1. \/ OwnGrant(f, done, proc, y) = {}
      \/ \E r : OwnGrant(f, done, proc, y) = {r}
  BY DEF OwnGrant
<1>2. QED
  BY <1>1, FS_EmptySet, FS_Singleton

\* Whatever was granted before, one call of setReady leaves either no slot or
\* no row that could take it.
LEMMA GrantConserves ==
  ASSUME TypeOK, NEW y \in Rows, Grant(y), running > 0
  PROVE  WorkConserving'
<1> DEFINE last == col[y] + 1 = W
           f    == IF last THEN y + 1 ELSE first
           done == [lineDone EXCEPT ![y] = IF last THEN IntMax ELSE col[y]]
           proc == IF last THEN lineProc \cup {y} ELSE lineProc \ {y}
           own  == OwnGrant(f, done, proc, y)
           free == {r \in f .. LastLine(f) : r \notin own /\ Runnable(done, proc, r, 1)}
           slots == NumThreads - Busy(own)
<1> USE WppAssumption
<1>1. PICK jobs \in SUBSET free :
        /\ IsUppermost(jobs, free, slots)
        /\ first' = f
        /\ lineDone' = done
        /\ lineProc' = proc \cup own \cup jobs
        /\ running' = Busy(own) + Cardinality(jobs)
  BY DEF Grant
<1>2. slots \in Nat /\ Busy(own) \in Nat
  BY OwnGrantAtMostOne DEF Busy, TypeOK
<1>3. IsFiniteSet(free) /\ Cardinality(free) \in Nat
  <2>1. f \in 0 .. H /\ LastLine(f) \in Int /\ LastLine(f) < H
    BY DEF TypeOK, Rows, LastLine, Lesser, D
  <2> HIDE DEF f
  <2>2. free \subseteq Rows
    BY <2>1 DEF Rows
  <2>3. QED
    BY <2>2, RowsFinite
<1> HIDE DEF last, f, done, proc, own, free
<1>4. CASE Cardinality(jobs) = slots
  BY <1>1, <1>2, <1>4 DEF WorkConserving
<1>5. CASE Cardinality(jobs) = Cardinality(free)
  <2>1. jobs = free
    BY <1>3, <1>5, FS_Subset
  <2>2. ASSUME NEW r \in f .. LastLine(f), Runnable(lineDone', lineProc', r, 1)
        PROVE  FALSE
    <3>1. r \notin own /\ r \notin free /\ Runnable(done, proc, r, 1)
      BY <1>1, <2>1, <2>2 DEF Runnable
    <3>2. QED
      BY <3>1, <2>2 DEF free
  <2>3. \A r \in first' .. LastLine(first') : ~Runnable(lineDone', lineProc', r, 1)
    BY <1>1, <2>2
  <2>4. QED
    BY <2>3 DEF WorkConserving, LastLine, Runnable
<1>6. Cardinality(jobs) = slots \/ Cardinality(jobs) = Cardinality(free)
  BY <1>1 DEF IsUppermost, Lesser
<1>7. QED
  BY <1>4, <1>5, <1>6

\* Before the first report only the first row can be coded.
LEMMA FreshIdle ==
  ASSUME Extra, NEW r \in 0 .. LastLine(0)
  PROVE  ~Runnable([y \in Rows |-> -1], ProcInit, r, 1)
<1> USE WppAssumption
<1> SUFFICES ASSUME Runnable([y \in Rows |-> -1], ProcInit, r, 1)
             PROVE  FALSE
  OBVIOUS
<1>1. r \in Rows /\ r > 0 /\ r - 1 \in Rows
  BY DEF Runnable, ProcInit, Rows, LastLine, Lesser, D
<1>2. QED
  BY <1>1 DEF Runnable, Lesser

\* A grant is never lost between two calls of setReady: while a row of the
\* window can be coded, every thread has a row (setReady and getNextCtu).
THEOREM Conserving == Spec => []WorkConserving
<1>1. Init => WorkConserving
  <2> SUFFICES ASSUME Init, Extra PROVE WorkConserving
    BY DEF WorkConserving
  <2>1. QED
    BY FreshIdle DEF Init, WorkConserving
<1>2. IInv /\ WorkConserving /\ [Next]_vars => WorkConserving'
  <2> SUFFICES ASSUME IInv, WorkConserving, [Next]_vars, Extra
               PROVE  WorkConserving'
    BY DEF WorkConserving
  <2>1. ASSUME UNCHANGED sched
        PROVE  WorkConserving'
    BY <2>1 DEF sched, WorkConserving, Runnable, LastLine
  <2>2. CASE NextPicture
    <3>1. \A r \in first' .. LastLine(first') : ~Runnable(lineDone', lineProc', r, 1)
      BY <2>2, FreshIdle DEF NextPicture
    <3>2. QED
      BY <3>1 DEF WorkConserving, LastLine, Runnable
  <2>3. ASSUME NEW y \in Rows, SetReady(y)
        PROVE  WorkConserving'
    <3>1. running > 0
      BY <2>3, SlotHeld DEF SetReady
    <3>2. QED
      BY <2>3, <3>1, GrantConserves DEF SetReady, IInv
  <2>4. QED
    BY <2>1, <2>2, <2>3
       DEF Next, Thread, Terminated, BeginRow, BeginCtu, EndCtu, vars, sched
<1>3. CASE Wide
  BY <1>1, <1>2, <1>3, Invariance, PTL DEF Spec
<1>4. CASE ~Wide
  <2>1. WorkConserving
    BY <1>4 DEF Wide, WorkConserving
  <2>2. QED
    BY <2>1, PTL
<1>5. QED
  BY <1>3, <1>4

-----------------------------------------------------------------------------
\* With extra lines, the rows above m_firstNonFinishedLine are finished and the
\* others are not, and no row is granted that is D or more rows below it.
Window ==
  \A r \in Rows : /\ col[r] = W <=> r < first
                  /\ r \in lineProc => r < first + D

\* A row that ends is the first that was not finished; the grants go to rows
\* of the window, or once more to the row that reports.
LEMMA GrantWindow ==
  ASSUME IInv, Window, Extra, NEW y \in Rows, SetReady(y)
  PROVE  Window'
<1> USE WppAssumption DEF D
<1>1. col[y] \in 0 .. W - 1 /\ y \in lineProc /\ running > 0
  BY SlotHeld DEF SetReady
<1>2. PICK G \in SUBSET Rows : Given(G, y)
  BY <1>1, GrantGives DEF IInv, SetReady
<1>3. col' = [col EXCEPT ![y] = @ + 1] /\ first \in 0 .. H
  BY DEF SetReady, IInv, TypeOK
<1>4. col[y] + 1 = W => y = first
  <2> SUFFICES ASSUME col[y] + 1 = W, y # first PROVE FALSE
    OBVIOUS
  <2>1. y > 0 /\ y > first /\ y - 1 \in Rows
    BY <1>1, <1>3 DEF Window, Rows
  <2>2. col[y - 1] >= Lesser(col[y] + 2, W)
    BY <2>1 DEF IInv, Order, Ahead, SetReady
  <2>3. col[y - 1] \in 0 .. W
    BY <2>1 DEF IInv, TypeOK
  <2>4. col[y - 1] = W
    BY <1>1, <2>2, <2>3 DEF Lesser
  <2>5. QED
    BY <1>3, <2>1, <2>4 DEF Window, Rows
<1>5. first' = IF col[y] + 1 = W THEN first + 1 ELSE first
  BY <1>2, <1>4 DEF Given
<1>6. ASSUME NEW r \in Rows PROVE col'[r] = W <=> r < first'
  <2>1. col'[r] = IF r = y THEN col[y] + 1 ELSE col[r]
    BY <1>3 DEF IInv, TypeOK
  <2>2. (col[r] = W <=> r < first) /\ (col[y] = W <=> y < first)
    BY DEF Window
  <2>3. r \in Int /\ y \in Int
    BY DEF Rows
  <2>4. QED
    BY <1>1, <1>3, <1>4, <1>5, <2>1, <2>2, <2>3
<1>7. ASSUME NEW r \in Rows, r \in lineProc' PROVE r < first' + D
  <2>1. \A f \in 0 .. H : LastLine(f) \in Int /\ LastLine(f) < f + D
    BY DEF LastLine, Lesser
  <2>2. \A f \in 0 .. H : r <= LastLine(f) => r < f + D
    BY <2>1 DEF Rows
  <2>3. r \in lineProc \/ r <= LastLine(first')
    BY <1>1, <1>2, <1>7 DEF Given
  <2>4. r \in lineProc => r < first + D
    BY DEF Window
  <2>5. CASE r \in lineProc
    BY <1>3, <1>5, <2>4, <2>5 DEF Rows
  <2>6. CASE r <= LastLine(first')
    BY <1>2, <2>2, <2>6 DEF Given
  <2>7. QED
    BY <2>3, <2>5, <2>6
<1>8. QED
  BY <1>6, <1>7 DEF Window

\* A row with a grant has a worker that comes to it, for more than one thread:
\* the parallel loop's worker has finished its row D rows above (LastLine of
\* setReady and the static schedule of compressSlice).
THEOREM Reaching == ASSUME NumThreads > 1 PROVE Spec => []GrantReachesWorker
<1> USE WppAssumption
<1>1. Init => (Extra => Window)
  BY DEF Init, Window, ProcInit, Rows, D
<1>2. IInv /\ (Extra => Window) /\ [Next]_vars => (Extra => Window)'
  <2> SUFFICES ASSUME IInv, Window, [Next]_vars, Extra
               PROVE  Window'
    BY DEF Extra
  <2>1. ASSUME UNCHANGED <<sched, col>>
        PROVE  Window'
    BY <2>1 DEF sched, Window
  <2>2. CASE NextPicture
    BY <2>2 DEF NextPicture, Window, ProcInit, Rows, D
  <2>3. ASSUME NEW y \in Rows, SetReady(y)
        PROVE  Window'
    BY <2>3, GrantWindow
  <2>4. QED
    BY <2>1, <2>2, <2>3
       DEF Next, Thread, Terminated, BeginRow, BeginCtu, EndCtu, vars, sched
<1>3. IInv /\ (Extra => Window) => GrantReachesWorker
  <2> SUFFICES ASSUME IInv, Window, Extra, NEW r \in Granted, r >= Workers
               PROVE  phase[r - Workers] = "done"
    BY DEF GrantReachesWorker
  <2>1. r \in Rows /\ r < first + D /\ Workers = D
    BY DEF Granted, Window, Workers, IInv, TypeOK
  <2>2. r - D \in Rows /\ r - D < first
    BY <2>1 DEF Rows, D, IInv, TypeOK
  <2>3. col[r - D] = W
    BY <2>2 DEF Window
  <2>4. QED
    BY <2>1, <2>2, <2>3 DEF IInv, Order
<1>4. CASE Wide
  BY <1>1, <1>2, <1>3, <1>4, Invariance, PTL DEF Spec
<1>5. CASE ~Wide
  <2>1. GrantReachesWorker
    BY <1>5 DEF Wide, GrantReachesWorker
  <2>2. QED
    BY <2>1, PTL
<1>6. QED
  BY <1>4, <1>5
=============================================================================
