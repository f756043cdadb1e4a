---------------------------- MODULE WppScheduler ----------------------------
(***************************************************************************)
(* The scheduler of the encoder's WPP-style parallelism (Scheduler in      *)
(* CommonLib/Picture.cpp) and the threads that it drives                   *)
(* (EncSlice::compressSlice and encodeCtus).                               *)
(*                                                                         *)
(* A parallel loop with a static schedule hands row y to worker y mod D;   *)
(* each row waits for the scheduler before a CTU, codes it, saves the      *)
(* CABAC contexts after its second CTU, and reports it.  Without extra     *)
(* lines a row waits for the row above; with extra lines more rows than    *)
(* threads are begun and setReady grants the CTUs one by one.              *)
(***************************************************************************)
EXTENDS Integers, FiniteSets

CONSTANTS W,            \* m_ctuXsize
          H,            \* m_ctuYsize
          NumThreads,   \* NumWppThreads
          ExtraLines,   \* NumWppExtraLines
          EnsureWppBitEqual, \* contexts as with threads, also without them
          MaxPictures,  \* bound: pictures coded
          IntMax        \* the largest int, which no column reaches

ASSUME WppAssumption ==
  /\ IntMax \in Nat
  /\ W \in 1 .. IntMax
  /\ H \in Nat \ {0}
  /\ NumThreads \in Nat \ {0}
  /\ ExtraLines \in Nat
  /\ EnsureWppBitEqual \in BOOLEAN
  /\ MaxPictures \in Nat \ {0}

VARIABLES first,      \* m_firstNonFinishedLine
          running,    \* m_numWppThreadsRunning
          lineDone,   \* m_LineDone: last CTU reported, IntMax after the row
          lineProc,   \* the rows set in m_LineProc: granted or finished
          sync,       \* m_Val of m_SyncObjs
          phase,      \* where the thread of the row is
          col,        \* ctuXPosInCtus of the row's thread
          ctxVec,     \* m_entropyCodingSyncContextStateVec: picture saved in
          loaded,     \* the picture whose contexts the row was begun with
          picture     \* the picture being coded

sched == <<first, running, lineDone, lineProc>>
vars  == <<first, running, lineDone, lineProc, sync, phase, col, ctxVec,
           loaded, picture>>

Rows   == 0 .. H - 1
Phases == {"idle", "wait", "code", "coded", "done"}

\* m_numWppDataInstances; the grant of CTUs is used when it is not NumThreads.
D     == NumThreads + ExtraLines
Extra == ExtraLines # 0

\* The threads of the parallel loop over the rows (one without bUseThreads).
Workers == IF NumThreads > 1 THEN D ELSE 1

Lesser(a, b) == IF a <= b THEN a ELSE b

-----------------------------------------------------------------------------
\* Scheduler::init on the variables of the scheduler.
SyncInit == [y \in Rows |-> IF Extra /\ y = 0 THEN 0 ELSE -1]
ProcInit == IF Extra THEN {0} ELSE {}

Init ==
  /\ first = 0
  /\ running = 1
  /\ lineDone = [y \in Rows |-> -1]
  /\ lineProc = ProcInit
  /\ sync = SyncInit
  /\ phase = [y \in Rows |-> "idle"]
  /\ col = [y \in Rows |-> 0]
  /\ ctxVec = [y \in Rows |-> 0]
  /\ loaded = [y \in Rows |-> 0]
  /\ picture = 1

\* The worker of row y has left its previous row.
WorkerFree(y) == y >= Workers => phase[y - Workers] = "done"

BeginRow(y) ==
  /\ phase[y] = "idle"
  /\ WorkerFree(y)
  /\ phase' = [phase EXCEPT ![y] = "wait"]
  /\ UNCHANGED <<sched, sync, col, ctxVec, loaded, picture>>

\* Scheduler::wait returns.
Ready(y) ==
  IF Extra THEN sync[y] >= col[y]
  ELSE y > 0 /\ col[y] + 1 < W => sync[y - 1] >= col[y] + 1

\* Are contexts handed from row to row?
SyncsContexts == NumThreads > 1 \/ EnsureWppBitEqual

\* A row below the first starts from the contexts saved by the row above.
\* Contexts of an earlier picture are loaded for the first CTU only
\* (getCIPFSpec, UnitTools.cpp:61), so ctxLoaded holds in no other row.
LoadsContexts(y) == col[y] = 0 /\ y > 0 /\ W > 1 /\ SyncsContexts

BeginCtu(y) ==
  /\ phase[y] = "wait"
  /\ Ready(y)
  /\ phase' = [phase EXCEPT ![y] = "code"]
  /\ loaded' = IF LoadsContexts(y)
               THEN [loaded EXCEPT ![y] = ctxVec[y - 1]] ELSE loaded
  /\ UNCHANGED <<sched, sync, col, ctxVec, picture>>

\* Mutant of EndCtu: the contexts are saved at the end of the row.
EndCtuSavesLast(y) ==
  /\ phase[y] = "code"
  /\ phase' = [phase EXCEPT ![y] = "coded"]
  /\ ctxVec' = IF col[y] = W - 1 /\ SyncsContexts
               THEN [ctxVec EXCEPT ![y] = picture] ELSE ctxVec
  /\ UNCHANGED <<sched, sync, col, loaded, picture>>

\* compressCtu has reconstructed the CTU; the second one's contexts are saved.
EndCtu(y) ==
  /\ phase[y] = "code"
  /\ phase' = [phase EXCEPT ![y] = "coded"]
  /\ ctxVec' = IF col[y] = 1 /\ SyncsContexts
               THEN [ctxVec EXCEPT ![y] = picture] ELSE ctxVec
  /\ UNCHANGED <<sched, sync, col, loaded, picture>>

-----------------------------------------------------------------------------
\* Mutant of Runnable: the lead is counted from the last CTU, not the next.
RunnableLevel(done, proc, r, off) ==
  /\ r \notin proc
  /\ r > 0 => done[r - 1] >= Lesser(done[r] + off, W - 1)

\* getNextCtu: the next CTU of row r may be coded, with a lead of the row
\* above of off CTUs.
Runnable(done, proc, r, off) ==
  /\ r \notin proc
  /\ r > 0 => done[r - 1] >= Lesser(done[r] + 1 + off, W - 1)

\* Mutant of LastLine: the window is one row too high.
LastLineTooFar(f) == Lesser(H, f + D + 1) - 1

\* The last row that a data instance exists for.
LastLine(f) == Lesser(H, f + D) - 1

\* setReady prefers the row below when the last of the busy rows got far.
ContinuesBelow(f, done, proc, y) ==
  /\ y = f + NumThreads - 1
  /\ y + 1 <= LastLine(f)
  /\ col[y] >= W \div 4
  /\ Runnable(done, proc, y + 1, 4)

\* The row that the reporting thread's own slot goes to, if any.
OwnGrant(f, done, proc, y) ==
  IF ContinuesBelow(f, done, proc, y) THEN {y + 1}
  ELSE IF Runnable(done, proc, y, 1) THEN {y} ELSE {}

\* Mutant of IsUppermost: one CTU at most is granted to the waiting threads.
IsUppermostOne(jobs, set, n) ==
  /\ Cardinality(jobs) = Lesser(Lesser(n, 1), Cardinality(set))
  /\ \A j \in jobs, r \in set \ jobs : j < r

\* Mutant of IsUppermost: every runnable row is granted, not only n.
IsUppermostAll(jobs, set, n) == jobs = set

\* Mutant of IsUppermost: the threads that wait are granted nothing.
IsUppermostNone(jobs, set, n) == jobs = {}

\* jobs are the n uppermost rows of set, or all of them.
IsUppermost(jobs, set, n) ==
  /\ Cardinality(jobs) = Lesser(n, Cardinality(set))
  /\ \A j \in jobs, r \in set \ jobs : j < r

\* Mutant of Busy: the reporting thread's own grant is not counted.
BusyUncounted(own) == running - 1

\* m_numWppThreadsRunning once the reporting thread's slot is granted again.
Busy(own) == running - 1 + Cardinality(own)

\* The part of setReady that runs under m_mutex.
Grant(y) ==
  LET last == col[y] + 1 = W
      f    == IF last THEN y + 1 ELSE first
      done == [lineDone EXCEPT ![y] = IF last THEN IntMax ELSE col[y]]
      proc == IF last THEN lineProc \cup {y} ELSE lineProc \ {y}
      own  == OwnGrant(f, done, proc, y)
      free == {r \in f .. LastLine(f) : r \notin own /\ Runnable(done, proc, r, 1)}
      busy == Busy(own)
  IN \E jobs \in SUBSET free :
       /\ IsUppermost(jobs, free, NumThreads - busy)
       /\ first' = f
       /\ lineDone' = done
       /\ lineProc' = proc \cup own \cup jobs
       /\ sync' = [r \in Rows |-> IF r \in own \cup jobs THEN done[r] + 1 ELSE sync[r]]
       /\ running' = busy + Cardinality(jobs)

\* setReady without extra lines.
Report(y) == sync' = [sync EXCEPT ![y] = col[y]] /\ UNCHANGED sched

SetReady(y) ==
  /\ phase[y] = "coded"
  /\ IF Extra THEN Grant(y) ELSE Report(y)
  /\ col' = [col EXCEPT ![y] = @ + 1]
  /\ phase' = [phase EXCEPT ![y] = IF col[y] + 1 = W THEN "done" ELSE "wait"]
  /\ UNCHANGED <<ctxVec, loaded, picture>>

PictureDone == \A y \in Rows : phase[y] = "done"

\* The loop's barrier, and Scheduler::init for the next picture.
NextPicture ==
  /\ PictureDone
  /\ picture < MaxPictures
  /\ picture' = picture + 1
  /\ first' = 0
  /\ running' = 1
  /\ IF Extra THEN /\ lineDone' = [y \in Rows |-> -1]
                   /\ lineProc' = ProcInit
              ELSE UNCHANGED <<lineDone, lineProc>>
  /\ sync' = SyncInit
  /\ phase' = [y \in Rows |-> "idle"]
  /\ col' = [y \in Rows |-> 0]
  /\ UNCHANGED <<ctxVec, loaded>>

Terminated == PictureDone /\ picture = MaxPictures /\ UNCHANGED vars

Thread(y) == BeginRow(y) \/ BeginCtu(y) \/ EndCtu(y) \/ SetReady(y)

Next == NextPicture \/ Terminated \/ \E y \in Rows : Thread(y)

Spec == Init /\ [][Next]_vars

\* Every thread is run by the operating system, and the barrier is passed.
Fairness == WF_vars(NextPicture) /\ \A y \in Rows : WF_vars(Thread(y))

FairSpec == Spec /\ Fairness

-----------------------------------------------------------------------------
TypeOK ==
  /\ first \in 0 .. H
  /\ running \in 0 .. NumThreads
  /\ lineDone \in [Rows -> -1 .. W - 1 \cup {IntMax}]
  /\ lineProc \subseteq Rows
  /\ sync \in [Rows -> -1 .. W - 1]
  /\ phase \in [Rows -> Phases]
  /\ col \in [Rows -> 0 .. W]
  /\ ctxVec \in [Rows -> 0 .. MaxPictures]
  /\ loaded \in [Rows -> 0 .. MaxPictures]
  /\ picture \in 1 .. MaxPictures

\* The CTUs of row y that are reconstructed.
CodedIn(y) == IF phase[y] = "coded" THEN col[y] + 1 ELSE col[y]
Coding     == {y \in Rows : phase[y] = "code"}
Granted    == {y \in lineProc : lineDone[y] # IntMax}

\* A CTU is coded only when the neighbours it predicts from, up to the
\* above-right one, are reconstructed, whatever the scheduler granted before
\* (wait, setReady and getNextCtu).
DependenciesMet ==
  \A y \in Coding : y > 0 => CodedIn(y - 1) >= Lesser(col[y] + 2, W)

\* Where contexts are handed on, a row never starts from those that an earlier
\* picture left in m_entropyCodingSyncContextStateVec, which is not cleared
\* between pictures.
ContextsFresh ==
  SyncsContexts => \A y \in Rows :
    y > 0 /\ W > 1 /\ (col[y] > 0 \/ phase[y] \in {"code", "coded"})
      => loaded[y] = picture

\* m_numWppThreadsRunning, which setReady only counts up and down, is the
\* number of rows with a grant, and at most NumThreads of them are coded.
RunningExact ==
  Extra => /\ running = Cardinality(Granted)
           /\ Coding \subseteq Granted
           /\ running <= NumThreads

\* No thread is left without a CTU while a row of the window could be coded:
\* a grant is never lost between two calls of setReady.
WorkConserving ==
  Extra => \/ running = NumThreads
           \/ \A r \in first .. LastLine(first) : ~Runnable(lineDone, lineProc, r, 1)

\* A row with a grant has a worker that comes to it: its previous row, D rows
\* above, is finished.  Otherwise the grant, and with it a thread, is lost.
GrantReachesWorker ==
  Extra => \A r \in Granted : r >= Workers => phase[r - Workers] = "done"

\* Every picture that is begun is coded to the end.
PicturesComplete ==
  \A p \in 1 .. MaxPictures : picture = p ~> picture = p /\ PictureDone

\* A CTU counts as coded once compressCtu is done with it, before it is
\* reported to the scheduler.
WavefrontOrder == INSTANCE Wavefront WITH
  coded  <- [y \in Rows |-> CodedIn(y)],
  active <- Coding

\* The threads, their waits and the scheduler's grants implement the wavefront
\* order of Wavefront.tla, one picture after the other.
ImplementsWavefront == WavefrontOrder!Spec
=============================================================================
