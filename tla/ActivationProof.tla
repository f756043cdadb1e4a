--------------------------- MODULE ActivationProof ---------------------------
(***************************************************************************)
(* What a bitstream has to keep to so that no parameter set is read after  *)
(* it was deleted and every slice is decoded with the sets it names: a set *)
(* changes at most once between two pictures, and only before an IDR       *)
(* picture.  For the precalculated values a PPS has to change along with   *)
(* its SPS, too.                                                           *)
(***************************************************************************)
EXTENDS ParameterSetsProof

USE ParameterSetsAssumption

ChangesAtIdr ==
  /\ MaxUpdates <= 1
  /\ SpsChangeAt \subseteq {"IDR"}
  /\ PpsChangeAt \subseteq {"IDR"}

-----------------------------------------------------------------------------
(* The inductive invariant.                                                *)

\* A map holds each set under the id it carries.
Numbered ==
  /\ \A i \in SpsIds : Present(spsMap, i) => GetPS(spsMap, i).id = i
  /\ \A i \in PpsIds : Present(ppsMap, i) => GetPS(ppsMap, i).id = i

\* The sets of the last picture are active, and the bitstream has the same
\* contents for their ids until it sends others.
LastSets ==
  /\ \A g, h \in sent.slice : g = h
  /\ sent.slice = {} => InList = {}
  /\ \A h \in sent.slice :
       /\ h.sps.id = spsMap.active
       /\ h.pps.id = ppsMap.active
       /\ h.pps.sps = h.sps.id
       /\ status = "run" => activeSpsId = h.sps.id
       /\ sent.spsUpdates[h.sps.id] = 0 <=> sent.sps[h.sps.id] = {h.sps}
       /\ sent.ppsUpdates[h.pps.id] = 0 <=> sent.pps[h.pps.id] = {h.pps}

\* All pictures of the list have the SPS of the last one: it is stored and
\* not changed, or kept as the last active set.
SpsOfList ==
  \A h \in sent.slice, b \in InList :
    LET o == pics[b].sps
        i == h.sps.id
    IN  /\ o # Null
        /\ spsMap.data[o] = h.sps
        /\ sent.spsUpdates[i] = 0 => o = spsMap.ps[i] /\ ~spsMap.changed[i]
        /\ sent.spsUpdates[i] > 0 => /\ o = spsMap.last
                                     /\ open # NoPicture => spsMap.changed[i]

\* The PPS of a picture of the list is stored as long as its id has not been
\* sent with other contents; after that it may be deleted.
PpsOfList ==
  \A b \in InList :
    LET o == pics[b].pps
        i == ppsMap.data[o].id
    IN  /\ o \in 1 .. ppsMap.made
        /\ sent.ppsUpdates[i] = 0 => o = ppsMap.ps[i] /\ ~ppsMap.changed[i]

\* The PPS of the open picture is kept as the last active set when it changes.
PpsOfOpen ==
  open # NoPicture => \A h \in sent.slice :
    LET o == pics[open].pps
        i == h.pps.id
    IN  /\ ppsMap.data[o] = h.pps
        /\ sent.ppsUpdates[i] > 0 => o = ppsMap.last /\ ppsMap.changed[i]

\* Where the slice that waits is not of an IDR picture, no PPS has changed,
\* and it has the SPS of the last picture or is one that is not decoded.
NoChangeWaits ==
  \A slice \in next :
    IF slice.kind = "IDR" THEN InList = {}
    ELSE /\ \A i \in PpsIds : sent.ppsUpdates[i] = 0
         /\ \A h \in sent.slice :
              LET e == GetPS(spsMap, GetPS(ppsMap, slice.pps).sps)
              IN  e = h.sps \/ (slice.kind = "TRAIL" /\ e.id # h.sps.id)

AInv == /\ Numbered /\ LastSets /\ SpsOfList /\ PpsOfList /\ PpsOfOpen
        /\ NoChangeWaits /\ NoFault /\ ExitJustified

-----------------------------------------------------------------------------
(* One map.                                                                *)

\* What storePS does to the entries, the flags and the last active set.
StoreEffect(Ids, m, r, id, nal) ==
  /\ r.active = m.active
  /\ r.made = m.made + 1
  /\ \A o \in 1 .. m.made : r.data[o] = m.data[o]
  /\ \A i \in Ids \ {id} : r.ps[i] = m.ps[i] /\ r.changed[i] = m.changed[i]
  /\ id # m.active => r.last = m.last
  /\ ~Present(m, id) => r.ps[id] = m.made + 1
  /\ Present(m, id) /\ Differs(m, id, nal) =>
       /\ r.ps[id] = m.made + 1
       /\ r.changed[id]
       /\ id = m.active => r.last = m.ps[id]
  /\ Present(m, id) /\ ~Differs(m, id, nal) =>
       r.ps = m.ps /\ r.changed = m.changed /\ r.last = m.last

\* The effect of storePS.
LEMMA StoreDoes ==
  ASSUME NEW Ids, NEW max \in Nat, NEW nals, NEW m \in Maps(Ids, max, nals),
         NEW id \in Ids, NEW nal \in nals, m.made < max, OwnedOnce(m)
  PROVE  StoreEffect(Ids, m, StorePS(m, id, nal), id, nal)
<1> DEFINE n == Allocate(m, nal)
           o == m.made + 1
           r == StorePS(m, id, nal)
<1>0. Allocated(Ids, max, nals, m, n, nal)
  BY AllocateOK
<1>1. /\ n \in Maps(Ids, max, nals)
      /\ n.ps = m.ps /\ n.changed = m.changed /\ n.active = m.active
      /\ n.last = m.last /\ n.made = o
  BY <1>0 DEF Allocated
<1>2. \A k \in 1 .. m.made : n.data[k] = m.data[k]
  BY DEF Allocate, Maps
<1>3. m.made \in Nat
  BY DEF Maps
<1> HIDE DEF n
<1>4. CASE ~Present(m, id)
  <2>1. r = [n EXCEPT !.ps[id] = o, !.changed[id] = FALSE]
    BY <1>4 DEF StorePS, n
  <2>2. /\ r.ps = [m.ps EXCEPT ![id] = o] /\ r.changed = [m.changed EXCEPT ![id] = FALSE]
        /\ r.active = m.active /\ r.last = m.last /\ r.made = o /\ r.data = n.data
    BY <2>1, <1>1 DEF Maps
  <2> QED
    BY <2>2, <1>2, <1>4 DEF StoreEffect, Maps
<1>5. CASE Present(m, id) /\ Differs(m, id, nal)
  <2>1. r = Replace(n, id, o)
    BY <1>5 DEF StorePS, n
  <2>2. /\ r.ps = [m.ps EXCEPT ![id] = o] /\ r.changed = [m.changed EXCEPT ![id] = TRUE]
        /\ r.active = m.active /\ r.made = o /\ r.data = n.data
        /\ r.last = IF id = m.active THEN m.ps[id] ELSE m.last
    <3> DEFINE p == [n.ps EXCEPT ![id] = o]
               c == [n.changed EXCEPT ![id] = TRUE]
    <3>1. CASE n.active = id
      <4>1. r = [n EXCEPT !.live = n.live \ {n.last}, !.last = n.ps[id], !.ps = p, !.changed = c]
        BY <1>1, <2>1, <3>1 DEF Replace, Delete, Maps
      <4> HIDE DEF p, c, r
      <4>2. /\ r.ps = p /\ r.changed = c /\ r.active = n.active /\ r.made = n.made
            /\ r.data = n.data /\ r.last = n.ps[id]
        BY <1>1, <4>1 DEF Maps
      <4> QED
        BY <1>1, <3>1, <4>2 DEF p, c
    <3>2. CASE n.active # id
      <4>1. r = [n EXCEPT !.live = n.live \ {n.ps[id]}, !.ps = p, !.changed = c]
        BY <1>1, <2>1, <3>2 DEF Replace, Delete, Maps
      <4> HIDE DEF p, c, r
      <4>2. /\ r.ps = p /\ r.changed = c /\ r.active = n.active /\ r.made = n.made
            /\ r.data = n.data /\ r.last = n.last
        BY <1>1, <4>1 DEF Maps
      <4> QED
        BY <1>1, <3>2, <4>2 DEF p, c
    <3> QED
      BY <3>1, <3>2
  <2> QED
    BY <2>2, <1>2, <1>5 DEF StoreEffect, Maps
<1>6. CASE Present(m, id) /\ ~Differs(m, id, nal)
  <2>1. r = [n EXCEPT !.live = n.live \ {o}]
    BY <1>6 DEF StorePS, n, Delete
  <2>2. /\ r.ps = m.ps /\ r.changed = m.changed /\ r.active = m.active
        /\ r.last = m.last /\ r.made = o /\ r.data = n.data
    BY <2>1, <1>1 DEF Maps
  <2> QED
    BY <2>2, <1>2, <1>6 DEF StoreEffect, Maps
<1> QED
  BY <1>4, <1>5, <1>6

\* What a map owns is alive and was made.
LEMMA OwnedLive ==
  ASSUME NEW Ids, NEW max \in Nat, NEW nals, NEW m \in Maps(Ids, max, nals), OwnedOnce(m)
  PROVE  /\ \A i \in Ids : m.ps[i] # Null => m.ps[i] \in m.live
         /\ m.last # Null => m.last \in m.live
         /\ \A o \in m.live : o \in 1 .. m.made
BY DEF OwnedOnce, Owners, Maps

-----------------------------------------------------------------------------
(* Storing parameter sets.                                                 *)

\* What d does to the contents sent and to the number of updates, if a set
\* changes once at most.
SentOnce(Ids, s, t, u, v, d) ==
  /\ t = [s EXCEPT ![d.id] = {d}]
  /\ u[d.id] = 0
  /\ v[d.id] = IF s[d.id] \in {{}, {d}} THEN 0 ELSE 1
  /\ \A i \in Ids \ {d.id} : v[i] = u[i]

\* An SPS that is stored.
LEMMA SpsSent ==
  ASSUME IInv, ChangesAtIdr, NEW d \in SpsNals, DecodeSPS(d)
  PROVE  /\ StoreEffect(SpsIds, spsMap, spsMap', d.id, d)
         /\ Stored(SpsIds, MaxMade, SpsNals, spsMap, spsMap', d.id, d)
         /\ SentOnce(SpsIds, sent.sps, sent'.sps, sent.spsUpdates, sent'.spsUpdates, d)
         /\ sent'.pps = sent.pps /\ sent'.ppsUpdates = sent.ppsUpdates
         /\ sent'.slice = sent.slice
         /\ next = {} /\ status = "run"
         /\ UNCHANGED <<ppsMap, activeSpsId, pcv, pics, open, next, status>>
<1>1. /\ spsMap \in Maps(SpsIds, MaxMade, SpsNals) /\ spsMap.made < MaxMade
      /\ OwnedOnce(spsMap) /\ d.id \in SpsIds /\ MaxMade \in Nat
      /\ spsMap' = StorePS(spsMap, d.id, d)
  BY DEF IInv, TypeOK, Owned, DecodeSPS
<1>2. StoreEffect(SpsIds, spsMap, spsMap', d.id, d)
  BY <1>1, StoreDoes
<1>3. Stored(SpsIds, MaxMade, SpsNals, spsMap, spsMap', d.id, d)
  BY <1>1, StoreOK
<1> DEFINE changes == sent.sps[d.id] \notin {{}, {d}}
           n == sent.spsUpdates[d.id]
           v == IF changes \/ n > 0 THEN n + 1 ELSE n
           g == IF changes
                THEN sent.old \cup {i \in PpsIds : \E q \in sent.pps[i] : q.sps = d.id}
                ELSE sent.old
<1>4. sent \in Sent /\ MaxUpdates \in Nat /\ MaxUpdates <= 1
  BY DEF IInv, TypeOK, ChangesAtIdr
<1>5. n \in Nat /\ (changes \/ n > 0 => n < MaxUpdates)
  BY <1>1, <1>4 DEF DecodeSPS, Sent
<1>6. n = 0 /\ v = IF changes THEN 1 ELSE 0
  BY <1>4, <1>5
<1>7. sent' = [sent EXCEPT !.sps = [sent.sps EXCEPT ![d.id] = {d}],
                           !.spsUpdates = [sent.spsUpdates EXCEPT ![d.id] = v], !.old = g]
  BY DEF DecodeSPS
<1> HIDE DEF v, g
<1>8. /\ sent'.sps = [sent.sps EXCEPT ![d.id] = {d}]
      /\ sent'.spsUpdates = [sent.spsUpdates EXCEPT ![d.id] = v]
      /\ sent'.pps = sent.pps /\ sent'.ppsUpdates = sent.ppsUpdates
      /\ sent'.slice = sent.slice
  BY <1>4, <1>7 DEF Sent
<1>9. SentOnce(SpsIds, sent.sps, sent'.sps, sent.spsUpdates, sent'.spsUpdates, d)
  BY <1>1, <1>4, <1>6, <1>8 DEF SentOnce, Sent
<1> QED
  BY <1>2, <1>3, <1>8, <1>9 DEF DecodeSPS, Reading

\* A PPS that is stored.
LEMMA PpsSent ==
  ASSUME IInv, ChangesAtIdr, NEW d \in PpsNals, DecodePPS(d)
  PROVE  /\ StoreEffect(PpsIds, ppsMap, ppsMap', d.id, d)
         /\ Stored(PpsIds, MaxMade, PpsNals, ppsMap, ppsMap', d.id, d)
         /\ SentOnce(PpsIds, sent.pps, sent'.pps, sent.ppsUpdates, sent'.ppsUpdates, d)
         /\ sent'.sps = sent.sps /\ sent'.spsUpdates = sent.spsUpdates
         /\ sent'.slice = sent.slice
         /\ next = {} /\ status = "run"
         /\ UNCHANGED <<spsMap, activeSpsId, pcv, pics, open, next, status>>
<1>1. /\ ppsMap \in Maps(PpsIds, MaxMade, PpsNals) /\ ppsMap.made < MaxMade
      /\ OwnedOnce(ppsMap) /\ d.id \in PpsIds /\ MaxMade \in Nat
      /\ ppsMap' = StorePS(ppsMap, d.id, d)
  BY DEF IInv, TypeOK, Owned, DecodePPS
<1>2. StoreEffect(PpsIds, ppsMap, ppsMap', d.id, d)
  BY <1>1, StoreDoes
<1>3. Stored(PpsIds, MaxMade, PpsNals, ppsMap, ppsMap', d.id, d)
  BY <1>1, StoreOK
<1> DEFINE changes == sent.pps[d.id] \notin {{}, {d}}
           n == sent.ppsUpdates[d.id]
           v == IF changes \/ n > 0 THEN n + 1 ELSE n
           g == IF changes THEN sent.old \ {d.id} ELSE sent.old
<1>4. sent \in Sent /\ MaxUpdates \in Nat /\ MaxUpdates <= 1
  BY DEF IInv, TypeOK, ChangesAtIdr
<1>5. n \in Nat /\ (changes \/ n > 0 => n < MaxUpdates)
  BY <1>1, <1>4 DEF DecodePPS, Sent
<1>6. n = 0 /\ v = IF changes THEN 1 ELSE 0
  BY <1>4, <1>5
<1>7. sent' = [sent EXCEPT !.pps = [sent.pps EXCEPT ![d.id] = {d}],
                           !.ppsUpdates = [sent.ppsUpdates EXCEPT ![d.id] = v], !.old = g]
  BY DEF DecodePPS
<1> HIDE DEF v, g
<1>8. /\ sent'.pps = [sent.pps EXCEPT ![d.id] = {d}]
      /\ sent'.ppsUpdates = [sent.ppsUpdates EXCEPT ![d.id] = v]
      /\ sent'.sps = sent.sps /\ sent'.spsUpdates = sent.spsUpdates
      /\ sent'.slice = sent.slice
  BY <1>4, <1>7 DEF Sent
<1>9. SentOnce(PpsIds, sent.pps, sent'.pps, sent.ppsUpdates, sent'.ppsUpdates, d)
  BY <1>1, <1>4, <1>6, <1>8 DEF SentOnce, Sent
<1> QED
  BY <1>2, <1>3, <1>8, <1>9 DEF DecodePPS, Reading

\* The sets of the last picture, by type and by number.
LEMMA LastSetsType ==
  ASSUME IInv, AInv, NEW h \in sent.slice
  PROVE  /\ h.sps \in SpsNals /\ h.pps \in PpsNals
         /\ h.sps.id \in SpsIds /\ h.pps.id \in PpsIds
         /\ sent.sps[h.sps.id] \in SUBSET SpsNals
         /\ sent.pps[h.pps.id] \in SUBSET PpsNals
<1>1. h.sps \in SpsNals /\ h.pps \in PpsNals
  BY DEF IInv, TypeOK, Sent
<1>2. h.sps.id \in SpsIds /\ h.pps.id \in PpsIds
  BY <1>1
<1> QED
  BY <1>1, <1>2 DEF IInv, TypeOK, Sent

\* A picture of the list has an SPS and a PPS that were made.
LEMMA ListMade ==
  ASSUME IInv, AInv, NEW b \in InList
  PROVE  /\ \E h \in sent.slice : TRUE
         /\ pics[b].sps \in spsMap.live
         /\ pics[b].sps \in 1 .. spsMap.made
         /\ pics[b].pps \in 1 .. ppsMap.made
<1>1. PICK h \in sent.slice : TRUE
  BY DEF AInv, LastSets
<1>2. /\ spsMap \in Maps(SpsIds, MaxMade, SpsNals) /\ OwnedOnce(spsMap)
      /\ MaxMade \in Nat /\ h.sps.id \in SpsIds /\ sent.spsUpdates[h.sps.id] \in Nat
  BY LastSetsType DEF IInv, TypeOK, Owned, Sent
<1>3. pics[b].sps # Null /\ pics[b].sps \in {spsMap.ps[h.sps.id], spsMap.last}
  BY <1>2 DEF AInv, SpsOfList
<1>4. pics[b].sps \in spsMap.live /\ pics[b].sps \in 1 .. spsMap.made
  BY <1>2, <1>3, OwnedLive
<1>5. pics[b].pps \in 1 .. ppsMap.made
  BY DEF AInv, PpsOfList
<1> QED
  BY <1>1, <1>4, <1>5

\* Storing an SPS keeps the invariant.
LEMMA DecodeSPSAct ==
  ASSUME IInv, AInv, ChangesAtIdr, NEW d \in SpsNals, DecodeSPS(d)
  PROVE  AInv'
<1>1. /\ StoreEffect(SpsIds, spsMap, spsMap', d.id, d)
      /\ Stored(SpsIds, MaxMade, SpsNals, spsMap, spsMap', d.id, d)
      /\ SentOnce(SpsIds, sent.sps, sent'.sps, sent.spsUpdates, sent'.spsUpdates, d)
      /\ sent'.pps = sent.pps /\ sent'.ppsUpdates = sent.ppsUpdates
      /\ sent'.slice = sent.slice
      /\ next = {} /\ status = "run"
      /\ UNCHANGED <<ppsMap, activeSpsId, pcv, pics, open, next, status>>
  BY SpsSent
<1>2. d.id \in SpsIds /\ InList' = InList
  BY <1>1 DEF InList
<1>3. Numbered'
  BY <1>1, <1>2 DEF AInv, Numbered, Stored, Present, GetPS
<1>4. LastSets'
  <2>1. ASSUME NEW h \in sent.slice
        PROVE  sent'.spsUpdates[h.sps.id] = 0 <=> sent'.sps[h.sps.id] = {h.sps}
    <3>1. /\ h.sps.id \in SpsIds /\ sent.sps \in [SpsIds -> SUBSET SpsNals]
          /\ sent.spsUpdates[h.sps.id] = 0 <=> sent.sps[h.sps.id] = {h.sps}
      BY LastSetsType DEF AInv, LastSets, IInv, TypeOK, Sent
    <3> QED
      BY <1>1, <1>2, <3>1 DEF SentOnce
  <2> QED
    BY <1>1, <1>2, <2>1 DEF AInv, LastSets, StoreEffect
<1>5. SpsOfList'
  <2> SUFFICES ASSUME NEW h \in sent.slice, NEW b \in InList
               PROVE  LET o == pics[b].sps
                          i == h.sps.id
                      IN  /\ o # Null
                          /\ spsMap'.data[o] = h.sps
                          /\ sent'.spsUpdates[i] = 0 => o = spsMap'.ps[i] /\ ~spsMap'.changed[i]
                          /\ sent'.spsUpdates[i] > 0 => /\ o = spsMap'.last
                                                        /\ open # NoPicture => spsMap'.changed[i]
    BY <1>1, <1>2 DEF SpsOfList
  <2> DEFINE o == pics[b].sps
             i == h.sps.id
  <2>1. /\ o # Null /\ spsMap.data[o] = h.sps
        /\ sent.spsUpdates[i] = 0 => o = spsMap.ps[i] /\ ~spsMap.changed[i]
        /\ sent.spsUpdates[i] > 0 => /\ o = spsMap.last
                                     /\ open # NoPicture => spsMap.changed[i]
        /\ i = spsMap.active
        /\ sent.spsUpdates[i] = 0 <=> sent.sps[i] = {h.sps}
    BY DEF AInv, SpsOfList, LastSets
  <2>2. i \in SpsIds /\ o \in 1 .. spsMap.made
    BY LastSetsType, ListMade
  <2>3. spsMap'.data[o] = spsMap.data[o]
    BY <1>1, <2>2 DEF StoreEffect
  <2>4. CASE d.id # i
    BY <1>1, <2>1, <2>2, <2>3, <2>4 DEF StoreEffect, SentOnce
  <2>5. CASE d.id = i
    <3>1. sent.spsUpdates[i] = 0 /\ o = spsMap.ps[i] /\ ~spsMap.changed[i] /\ sent.sps[i] = {h.sps}
      BY <1>1, <2>1, <2>5 DEF SentOnce
    <3>2. Present(spsMap, i) /\ GetPS(spsMap, i) = h.sps
      BY <2>1, <3>1 DEF Present, GetPS
    <3>3. CASE d = h.sps
      <4>1. sent'.spsUpdates[i] = 0
        BY <1>1, <2>5, <3>1, <3>3 DEF SentOnce
      <4>2. ~Differs(spsMap, i, d)
        BY <3>1, <3>2, <3>3 DEF Differs
      <4> QED
        BY <1>1, <2>1, <2>3, <2>5, <3>1, <3>2, <4>1, <4>2 DEF StoreEffect
    <3>4. CASE d # h.sps
      <4>1. sent'.spsUpdates[i] = 1
        BY <1>1, <2>5, <3>1, <3>4 DEF SentOnce
      <4>2. Differs(spsMap, i, d)
        BY <3>2, <3>4 DEF Differs
      <4> QED
        BY <1>1, <2>1, <2>3, <2>5, <3>1, <3>2, <4>1, <4>2 DEF StoreEffect
    <3> QED
      BY <3>3, <3>4
  <2> QED
    BY <2>4, <2>5
<1>6. PpsOfList' /\ PpsOfOpen'
  BY <1>1, <1>2 DEF AInv, PpsOfList, PpsOfOpen
<1>7. NoChangeWaits' /\ NoFault' /\ ExitJustified'
  BY <1>1 DEF NoChangeWaits, NoFault, ExitJustified
<1> QED
  BY <1>3, <1>4, <1>5, <1>6, <1>7 DEF AInv

\* Storing a PPS keeps the invariant.
LEMMA DecodePPSAct ==
  ASSUME IInv, AInv, ChangesAtIdr, NEW d \in PpsNals, DecodePPS(d)
  PROVE  AInv'
<1>1. /\ StoreEffect(PpsIds, ppsMap, ppsMap', d.id, d)
      /\ Stored(PpsIds, MaxMade, PpsNals, ppsMap, ppsMap', d.id, d)
      /\ SentOnce(PpsIds, sent.pps, sent'.pps, sent.ppsUpdates, sent'.ppsUpdates, d)
      /\ sent'.sps = sent.sps /\ sent'.spsUpdates = sent.spsUpdates
      /\ sent'.slice = sent.slice
      /\ next = {} /\ status = "run"
      /\ UNCHANGED <<spsMap, activeSpsId, pcv, pics, open, next, status>>
  BY PpsSent
<1>2. d.id \in PpsIds /\ InList' = InList
  BY <1>1 DEF InList
<1>3. Numbered'
  BY <1>1, <1>2 DEF AInv, Numbered, Stored, Present, GetPS
<1>4. LastSets'
  <2>1. ASSUME NEW h \in sent.slice
        PROVE  sent'.ppsUpdates[h.pps.id] = 0 <=> sent'.pps[h.pps.id] = {h.pps}
    <3>1. /\ h.pps.id \in PpsIds /\ sent.pps \in [PpsIds -> SUBSET PpsNals]
          /\ sent.ppsUpdates[h.pps.id] = 0 <=> sent.pps[h.pps.id] = {h.pps}
      BY LastSetsType DEF AInv, LastSets, IInv, TypeOK, Sent
    <3> QED
      BY <1>1, <1>2, <3>1 DEF SentOnce
  <2> QED
    BY <1>1, <1>2, <2>1 DEF AInv, LastSets, StoreEffect
<1>5. ASSUME NEW b \in InList,
             sent.ppsUpdates[ppsMap.data[pics[b].pps].id] = 0,
             d.id = ppsMap.data[pics[b].pps].id
      PROVE  /\ d # ppsMap.data[pics[b].pps] =>
                  /\ sent'.ppsUpdates[d.id] = 1
                  /\ ppsMap'.changed[d.id]
                  /\ d.id = ppsMap.active => ppsMap'.last = pics[b].pps
             /\ d = ppsMap.data[pics[b].pps] =>
                  /\ sent'.ppsUpdates[d.id] = 0
                  /\ pics[b].pps = ppsMap'.ps[d.id] /\ ~ppsMap'.changed[d.id]
  <2> DEFINE o == pics[b].pps
  <2>1. o = ppsMap.ps[d.id] /\ ~ppsMap.changed[d.id]
    BY <1>5 DEF AInv, PpsOfList
  <2>2. Present(ppsMap, d.id) /\ GetPS(ppsMap, d.id) = ppsMap.data[o]
    BY <2>1, ListMade DEF Present, GetPS, Null
  <2>3. sent.pps[d.id] = {ppsMap.data[o]}
    BY <1>2, <2>2 DEF IInv, Latest
  <2>4. CASE d # ppsMap.data[o]
    <3>1. sent'.ppsUpdates[d.id] = 1
      BY <1>1, <2>3, <2>4 DEF SentOnce
    <3>2. Differs(ppsMap, d.id, d)
      BY <2>2, <2>4 DEF Differs
    <3> QED
      BY <1>1, <2>1, <2>2, <2>4, <3>1, <3>2 DEF StoreEffect
  <2>5. CASE d = ppsMap.data[o]
    <3>1. sent'.ppsUpdates[d.id] = 0
      BY <1>1, <2>3, <2>5 DEF SentOnce
    <3>2. ~Differs(ppsMap, d.id, d)
      BY <2>1, <2>2, <2>5 DEF Differs
    <3> QED
      BY <1>1, <2>1, <2>2, <2>5, <3>1, <3>2 DEF StoreEffect
  <2> QED
    BY <2>4, <2>5
<1>6. \A b \in InList : /\ pics[b].pps \in 1 .. ppsMap'.made
                        /\ ppsMap'.data[pics[b].pps] = ppsMap.data[pics[b].pps]
                        /\ ppsMap.data[pics[b].pps].id \in PpsIds
  <2> SUFFICES ASSUME NEW b \in InList
               PROVE  /\ pics[b].pps \in 1 .. ppsMap'.made
                      /\ ppsMap'.data[pics[b].pps] = ppsMap.data[pics[b].pps]
                      /\ ppsMap.data[pics[b].pps].id \in PpsIds
    OBVIOUS
  <2>1. /\ pics[b].pps \in 1 .. ppsMap.made /\ MaxMade \in Nat
        /\ ppsMap.made \in 0 .. MaxMade /\ ppsMap.data \in [1 .. MaxMade -> PpsNals]
    BY ListMade DEF IInv, TypeOK, Maps
  <2>2. ppsMap.data[pics[b].pps] \in PpsNals
    BY <2>1
  <2> QED
    BY <1>1, <2>1, <2>2 DEF StoreEffect
<1>7. PpsOfList'
  <2> SUFFICES ASSUME NEW b \in InList
               PROVE  LET o == pics[b].pps
                          i == ppsMap'.data[o].id
                      IN  /\ o \in 1 .. ppsMap'.made
                          /\ sent'.ppsUpdates[i] = 0 => o = ppsMap'.ps[i] /\ ~ppsMap'.changed[i]
    BY <1>1, <1>2 DEF PpsOfList
  <2> DEFINE i == ppsMap.data[pics[b].pps].id
  <2>1. CASE d.id = i
    <3>1. sent.ppsUpdates[i] = 0
      BY <1>1, <2>1 DEF SentOnce
    <3>2. /\ d # ppsMap.data[pics[b].pps] => sent'.ppsUpdates[d.id] = 1
          /\ d = ppsMap.data[pics[b].pps] =>
               pics[b].pps = ppsMap'.ps[d.id] /\ ~ppsMap'.changed[d.id]
      BY <1>5, <2>1, <3>1
    <3> QED
      BY <1>6, <2>1, <3>2
  <2>2. CASE d.id # i
    <3>1. sent.ppsUpdates[i] = 0 => pics[b].pps = ppsMap.ps[i] /\ ~ppsMap.changed[i]
      BY DEF AInv, PpsOfList
    <3>2. /\ sent'.ppsUpdates[i] = sent.ppsUpdates[i]
          /\ ppsMap'.ps[i] = ppsMap.ps[i] /\ ppsMap'.changed[i] = ppsMap.changed[i]
      BY <1>1, <1>6, <2>2 DEF StoreEffect, SentOnce
    <3> QED
      BY <1>6, <3>1, <3>2
  <2> QED
    BY <2>1, <2>2
<1>8. PpsOfOpen'
  <2> SUFFICES ASSUME open # NoPicture, NEW h \in sent.slice
               PROVE  LET o == pics[open].pps
                          i == h.pps.id
                      IN  /\ ppsMap'.data[o] = h.pps
                          /\ sent'.ppsUpdates[i] > 0 => o = ppsMap'.last /\ ppsMap'.changed[i]
    BY <1>1 DEF PpsOfOpen
  <2> DEFINE o == pics[open].pps
             i == h.pps.id
  <2>1. open \in InList
    BY DEF IInv, TypeOK, InList
  <2>2. /\ ppsMap.data[o] = h.pps /\ i = ppsMap.active /\ i \in PpsIds
        /\ sent.ppsUpdates[i] > 0 => o = ppsMap.last /\ ppsMap.changed[i]
    BY LastSetsType DEF AInv, PpsOfOpen, LastSets
  <2>3. CASE d.id = i
    <3>1. sent.ppsUpdates[i] = 0
      BY <1>1, <2>3 DEF SentOnce
    <3> QED
      BY <1>5, <1>6, <2>1, <2>2, <2>3, <3>1
  <2>4. CASE d.id # i
    BY <1>1, <1>6, <2>1, <2>2, <2>4 DEF StoreEffect, SentOnce
  <2> QED
    BY <2>3, <2>4
<1>9. SpsOfList'
  BY <1>1, <1>2 DEF AInv, SpsOfList
<1>10. NoChangeWaits' /\ NoFault' /\ ExitJustified'
  BY <1>1 DEF NoChangeWaits, NoFault, ExitJustified
<1> QED
  BY <1>3, <1>4, <1>7, <1>8, <1>9, <1>10 DEF AInv

-----------------------------------------------------------------------------
(* The pictures.                                                           *)

\* What the invariant says of the maps and the pictures, the slice that
\* waits and the status apart.
SetsKept == Numbered /\ LastSets /\ SpsOfList /\ PpsOfList /\ PpsOfOpen

\* A step that at most takes pictures out of the list or changes how they are
\* held, and closes the open picture or lets it be.
LEMMA PicsKept ==
  ASSUME IInv, AInv, UNCHANGED <<maps, sent>>,
         \A b \in Pictures : pics'[b].state # "none" =>
           pics[b].state # "none" /\ pics'[b].sps = pics[b].sps /\ pics'[b].pps = pics[b].pps,
         open' \in {open, NoPicture}, open' # NoPicture => pics'[open].state # "none",
         status = "run"
  PROVE  SetsKept'
<1>1. /\ UNCHANGED <<spsMap, ppsMap, activeSpsId, sent>>
      /\ InList' \subseteq InList
      /\ \A b \in InList' : pics'[b].sps = pics[b].sps /\ pics'[b].pps = pics[b].pps
  BY DEF maps, InList
<1>2. open' # NoPicture => open' = open /\ open \in InList'
  BY DEF InList, IInv, TypeOK
<1>3. Numbered' /\ LastSets'
  BY <1>1 DEF AInv, Numbered, LastSets, Present, GetPS
<1>4. SpsOfList' /\ PpsOfList'
  BY <1>1, <1>2 DEF AInv, SpsOfList, PpsOfList
<1>5. PpsOfOpen'
  BY <1>1, <1>2 DEF AInv, PpsOfOpen
<1> QED
  BY <1>3, <1>4, <1>5 DEF SetsKept

\* No picture reads a set that is gone: the SPS of all and the PPS of the
\* open one are there, and the PPSs of all while none has changed.
LEMMA Alive ==
  ASSUME IInv, AInv
  PROVE  /\ MayFinish /\ MayFlush
         /\ \A b \in InList : SpsAlive(b)
         /\ (\A i \in PpsIds : sent.ppsUpdates[i] = 0) => \A b \in InList : PpsAlive(b)
<1>1. \A b \in InList : SpsAlive(b)
  BY ListMade DEF SpsAlive
<1>2. /\ ppsMap \in Maps(PpsIds, MaxMade, PpsNals) /\ OwnedOnce(ppsMap) /\ MaxMade \in Nat
      /\ sent.ppsUpdates \in [PpsIds -> Nat]
  BY DEF IInv, TypeOK, Owned, Sent
<1>3. ASSUME NEW b \in InList
      PROVE  /\ ppsMap.data[pics[b].pps].id \in PpsIds
             /\ sent.ppsUpdates[ppsMap.data[pics[b].pps].id] = 0 => PpsAlive(b)
  <2> DEFINE o == pics[b].pps
             i == ppsMap.data[o].id
  <2>1. o \in 1 .. ppsMap.made
    BY ListMade
  <2>2. ppsMap.data[o] \in PpsNals
    BY <1>2, <2>1 DEF Maps
  <2>3. i \in PpsIds
    BY <2>2
  <2>4. sent.ppsUpdates[i] = 0 => o = ppsMap.ps[i]
    BY DEF AInv, PpsOfList
  <2>5. o # Null
    BY <2>1 DEF Null
  <2> QED
    BY <1>2, <2>3, <2>4, <2>5, OwnedLive DEF PpsAlive
<1>4. MayFinish
  <2> SUFFICES ASSUME open # NoPicture PROVE SpsAlive(open) /\ PpsAlive(open)
    BY DEF MayFinish
  <2>1. open \in InList
    BY DEF IInv, TypeOK, InList
  <2>2. PICK h \in sent.slice : TRUE
    BY <2>1, ListMade
  <2>3. /\ ppsMap.data[pics[open].pps] = h.pps
        /\ sent.ppsUpdates[h.pps.id] > 0 => pics[open].pps = ppsMap.last
    BY <2>2 DEF AInv, PpsOfOpen
  <2>4. pics[open].pps \in 1 .. ppsMap.made
    BY <2>1, ListMade
  <2>5. ppsMap.last # Null => ppsMap.last \in ppsMap.live
    BY <1>2, OwnedLive
  <2> DEFINE i == ppsMap.data[pics[open].pps].id
  <2>6. i \in PpsIds /\ (sent.ppsUpdates[i] = 0 => PpsAlive(open))
    BY <1>3, <2>1
  <2>7. sent.ppsUpdates[i] > 0 => PpsAlive(open)
    BY <2>3, <2>4, <2>5 DEF PpsAlive, Null
  <2>8. sent.ppsUpdates[i] \in Nat
    BY <1>2, <2>6
  <2> QED
    BY <1>1, <2>1, <2>6, <2>7, <2>8
<1>5. MayFlush
  BY <1>1 DEF MayFlush
<1> QED
  BY <1>1, <1>3, <1>4, <1>5

\* Finished pictures stay in the list, flushed ones leave it.
LEMMA EndedPics ==
  ASSUME IInv
  PROVE  /\ \A b \in Pictures : /\ FinishedPics[b].state # "none" => pics[b].state # "none"
                                /\ FinishedPics[b].sps = pics[b].sps
                                /\ FinishedPics[b].pps = pics[b].pps
         /\ \A b \in Pictures : FlushedPics[b].state = "none"
<1>1. /\ pics \in [Pictures -> Pics] /\ open \in Pictures \cup {NoPicture}
      /\ {b \in Pictures : pics[b].state = "open"} = {open} \ {NoPicture}
  BY DEF IInv, TypeOK
<1>2. \A b \in Pictures : FlushedPics[b].state = "none"
  BY DEF FlushedPics, NoPic
<1>3. CASE open = NoPicture
  BY <1>2, <1>3 DEF FinishedPics
<1>4. CASE open # NoPicture
  <2> DEFINE q == [pics[open] EXCEPT !.state = "held"]
  <2>1. open \in Pictures /\ pics[open].state = "open"
    BY <1>1, <1>4
  <2>2. q.sps = pics[open].sps /\ q.pps = pics[open].pps /\ q.state = "held"
    BY <1>1, <2>1 DEF Pics
  <2>3. FinishedPics = [pics EXCEPT ![open] = q]
    BY <1>4 DEF FinishedPics
  <2> HIDE DEF q
  <2> QED
    BY <1>1, <1>2, <2>1, <2>2, <2>3
<1> QED
  BY <1>3, <1>4

\* A slice of a new picture.
LEMMA FindNewPictureAct ==
  ASSUME IInv, AInv, ChangesAtIdr, NEW kind \in Kinds, NEW i \in PpsIds,
         FindNewPicture(kind, i)
  PROVE  AInv'
<1>1. MayFinish /\ MayFlush
  BY Alive
<1>2. /\ next' = {[kind |-> kind, pps |-> i]}
      /\ pics' = IF kind = "IDR" THEN FlushedPics ELSE FinishedPics
      /\ open' = NoPicture
      /\ UNCHANGED <<maps, status, sent>>
      /\ status = "run"
  BY <1>1 DEF FindNewPicture, Reading
<1>3. SetsKept'
  BY <1>2, EndedPics, PicsKept
<1>4. NoChangeWaits'
  <2>1. CASE kind = "IDR"
    <3>1. InList' = {}
      BY <1>2, <2>1, EndedPics DEF InList
    <3> QED
      BY <1>2, <2>1, <3>1 DEF NoChangeWaits
  <2>2. CASE kind # "IDR"
    <3>0. PICK d \in sent.pps[i] : \E e \in sent.sps[d.sps] : StreamAllows(kind, d, e)
      BY DEF FindNewPicture
    <3>1. PICK e \in sent.sps[d.sps] : StreamAllows(kind, d, e)
      BY <3>0
    <3>2. d = GetPS(ppsMap, i) /\ d.sps \in SpsIds
      <4>1. sent.pps[i] = IF Present(ppsMap, i) THEN {GetPS(ppsMap, i)} ELSE {}
        BY DEF IInv, Latest
      <4>2. d \in PpsNals
        BY <3>0 DEF IInv, TypeOK, Sent
      <4> QED
        BY <3>0, <4>1, <4>2
    <3>3. e = GetPS(spsMap, GetPS(ppsMap, i).sps)
      <4>1. sent.sps[d.sps] = IF Present(spsMap, d.sps) THEN {GetPS(spsMap, d.sps)} ELSE {}
        BY <3>2 DEF IInv, Latest
      <4> QED
        BY <3>1, <3>2, <4>1
    <3>4. sent.ppsUpdates \in [PpsIds -> Nat]
      BY DEF IInv, TypeOK, Sent
    <3>5. \A k \in PpsIds : sent.ppsUpdates[k] = 0
      <4> SUFFICES ASSUME NEW k \in PpsIds PROVE sent.ppsUpdates[k] = 0
        OBVIOUS
      <4>1. sent.ppsUpdates[k] > 0 => kind \in PpsChangeAt
        BY <3>1 DEF StreamAllows
      <4>2. sent.ppsUpdates[k] \in Nat
        BY <3>4
      <4>3. ~(sent.ppsUpdates[k] > 0)
        BY <2>2, <4>1 DEF ChangesAtIdr
      <4> QED
        BY <4>2, <4>3
    <3>6. \A h \in sent.slice : e = h.sps \/ (kind = "TRAIL" /\ e.id # h.sps.id)
      BY <2>2, <3>1 DEF StreamAllows, ChangesAtIdr
    <3>7. UNCHANGED <<ppsMap, spsMap, sent>>
      BY <1>2 DEF maps
    <3> DEFINE w == [kind |-> kind, pps |-> i]
    <3>8. w.kind = kind /\ w.pps = i /\ next' = {w}
      BY <1>2
    <3> HIDE DEF w
    <3> QED
      BY ZenonT(30), <2>2, <3>3, <3>5, <3>6, <3>7, <3>8 DEF NoChangeWaits, GetPS
  <2> QED
    BY <2>1, <2>2
<1>5. NoFault' /\ ExitJustified'
  BY <1>2 DEF NoFault, ExitJustified
<1> QED
  BY <1>3, <1>4, <1>5 DEF AInv, SetsKept

\* The end of the sequence and of the file, the output of a picture and the
\* slices that are rejected.
LEMMA EndsAct ==
  ASSUME IInv, AInv,
         \/ EndSequence
         \/ EndOfFile
         \/ \E b \in Pictures : ReleasePicture(b)
         \/ \E i \in PpsIds : RejectSlice(i)
  PROVE  AInv'
<1>1. MayFinish /\ MayFlush /\ \A b \in InList : SpsAlive(b)
  BY Alive
<1>2. next = {} /\ status = "run" /\ UNCHANGED <<maps, next, sent>>
  BY <1>1 DEF EndSequence, EndOfFile, ReleasePicture, RejectSlice, Reading, InList
<1>3. status' \in {"run", "done", "missing"}
  BY <1>1, <1>2 DEF EndSequence, EndOfFile, ReleasePicture, RejectSlice, InList
<1>4. ASSUME EndSequence \/ EndOfFile
      PROVE  SetsKept'
  <2>1. pics' \in {FinishedPics, FlushedPics} /\ open' = NoPicture
    BY <1>1, <1>4 DEF EndSequence, EndOfFile
  <2> QED
    BY <1>2, <2>1, EndedPics, PicsKept
<1>5. ASSUME NEW b \in Pictures, ReleasePicture(b)
      PROVE  SetsKept'
  <2> DEFINE q == [pics[b] EXCEPT !.state = "free"]
  <2>1. /\ pics[b].state = "held" /\ pics' = [pics EXCEPT ![b] = q] /\ open' = open
    BY <1>1, <1>5 DEF ReleasePicture, InList
  <2>2. pics \in [Pictures -> Pics] /\ (open # NoPicture => pics[open].state = "open" /\ open \in Pictures)
    BY DEF IInv, TypeOK
  <2>3. q.sps = pics[b].sps /\ q.pps = pics[b].pps /\ q.state = "free"
    BY <2>2 DEF Pics
  <2> HIDE DEF q
  <2>4. \A c \in Pictures : pics'[c].state # "none" =>
          pics[c].state # "none" /\ pics'[c].sps = pics[c].sps /\ pics'[c].pps = pics[c].pps
    BY <2>1, <2>2, <2>3
  <2>5. open' # NoPicture => pics'[open].state # "none"
    BY <2>1, <2>2, <2>3
  <2> QED
    BY <1>2, <2>1, <2>4, <2>5, PicsKept
<1>6. ASSUME NEW i \in PpsIds, RejectSlice(i)
      PROVE  SetsKept'
  <2>1. pics' = pics /\ open' = open
    BY <1>6 DEF RejectSlice
  <2>2. open # NoPicture => pics[open].state # "none"
    BY DEF IInv, TypeOK
  <2> QED
    BY <1>2, <2>1, <2>2, PicsKept
<1>7. NoChangeWaits' /\ NoFault' /\ ExitJustified'
  BY <1>2, <1>3 DEF NoChangeWaits, NoFault, ExitJustified
<1> QED
  BY <1>4, <1>5, <1>6, <1>7 DEF AInv, SetsKept

-----------------------------------------------------------------------------
(* Activation.                                                             *)

\* n is the map m with the flag of one id cleared, whichever set is active.
Cleared(Ids, m, n, id) ==
  /\ n.ps = m.ps /\ n.data = m.data /\ n.made = m.made /\ n.last = m.last
  /\ \A i \in Ids : n.changed[i] = IF i = id THEN FALSE ELSE m.changed[i]

\* Clearing a flag, with and without making the set active.
LEMMA ClearedDoes ==
  ASSUME NEW Ids, NEW max \in Nat, NEW nals, NEW m \in Maps(Ids, max, nals),
         NEW id \in Ids
  PROVE  /\ Cleared(Ids, m, ClearChanged(m, id), id)
         /\ ClearChanged(m, id).active = m.active
         /\ Cleared(Ids, m, SetActive(ClearChanged(m, id), id), id)
         /\ SetActive(ClearChanged(m, id), id).active = id
<1> DEFINE c == [m.changed EXCEPT ![id] = FALSE]
           n == [m EXCEPT !.changed = c]
<1>1. \A i \in Ids : c[i] = IF i = id THEN FALSE ELSE m.changed[i]
  BY DEF Maps
<1>2. ClearChanged(m, id) = n
  BY DEF ClearChanged
<1>3. SetActive(ClearChanged(m, id), id) = [n EXCEPT !.active = id]
  BY <1>2 DEF SetActive
<1> HIDE DEF c
<1>4. /\ n.ps = m.ps /\ n.data = m.data /\ n.made = m.made /\ n.last = m.last
      /\ n.changed = c /\ n.active = m.active
  BY DEF Maps
<1>5. LET r == [n EXCEPT !.active = id]
      IN  /\ r.ps = m.ps /\ r.data = m.data /\ r.made = m.made /\ r.last = m.last
          /\ r.changed = c /\ r.active = id
  BY DEF Maps
<1> QED
  BY ZenonT(30), <1>1, <1>2, <1>3, <1>4, <1>5 DEF Cleared

\* What a waiting slice names: the sets last sent, each under its own id.
Named(slice, d, e) ==
  /\ open = NoPicture
  /\ d = GetPS(ppsMap, slice.pps) /\ e = GetPS(spsMap, d.sps)
  /\ d \in PpsNals /\ e \in SpsNals
  /\ slice.pps \in PpsIds /\ d.sps \in SpsIds
  /\ d.id = slice.pps /\ e.id = d.sps
  /\ sent.pps[d.id] = {d} /\ sent.sps[e.id] = {e}
  /\ ppsMap.ps[d.id] \in 1 .. ppsMap.made /\ spsMap.ps[e.id] \in 1 .. spsMap.made

\* The sets of a waiting slice.
LEMMA SliceNames ==
  ASSUME IInv, AInv, NEW slice \in next
  PROVE  LET d == GetPS(ppsMap, slice.pps)
         IN  Named(slice, d, GetPS(spsMap, d.sps))
<1> DEFINE i == slice.pps
           d == GetPS(ppsMap, i)
           s == d.sps
           e == GetPS(spsMap, s)
<1>1. /\ open = NoPicture /\ i \in PpsIds /\ s \in SpsIds
      /\ ppsMap.ps[i] \in 1 .. MaxMade /\ spsMap.ps[s] \in 1 .. MaxMade
  BY WaitingOK DEF Found
<1>2. /\ spsMap \in Maps(SpsIds, MaxMade, SpsNals) /\ OwnedOnce(spsMap)
      /\ ppsMap \in Maps(PpsIds, MaxMade, PpsNals) /\ OwnedOnce(ppsMap)
      /\ MaxMade \in Nat
  BY DEF IInv, TypeOK, Owned
<1>3. d \in PpsNals /\ e \in SpsNals
  BY <1>1, <1>2 DEF GetPS, Maps
<1>4. Present(ppsMap, i) /\ Present(spsMap, s)
  BY <1>1 DEF Present, Null
<1>5. d.id = i /\ e.id = s
  BY <1>1, <1>4 DEF AInv, Numbered
<1>6. sent.pps[i] = {d} /\ sent.sps[s] = {e}
  BY <1>1, <1>4 DEF IInv, Latest
<1>7. ppsMap.ps[i] \in 1 .. ppsMap.made /\ spsMap.ps[s] \in 1 .. spsMap.made
  BY <1>1, <1>2, <1>4, OwnedLive DEF Present
<1> QED
  BY <1>1, <1>3, <1>5, <1>6, <1>7 DEF Named

\* The sets of the pictures in the list, when a slice begins another: they
\* have its SPS, and neither this nor their PPSs have changed.
LEMMA ListKeeps ==
  ASSUME IInv, AInv, status = "run", NEW slice \in next,
         Activates(slice, GetPS(ppsMap, slice.pps).sps),
         NEW c \in InList
  PROVE  /\ pics[c].sps = spsMap.ps[GetPS(ppsMap, slice.pps).sps]
         /\ pics[c].pps = ppsMap.ps[ppsMap.data[pics[c].pps].id]
         /\ ~ppsMap.changed[ppsMap.data[pics[c].pps].id]
         /\ ppsMap.data[pics[c].pps].id \in PpsIds
         /\ PpsAlive(c)
<1> DEFINE d == GetPS(ppsMap, slice.pps)
           e == GetPS(spsMap, d.sps)
           k == ppsMap.data[pics[c].pps].id
<1>1. Named(slice, d, e)
  BY SliceNames
<1>2. PICK h \in sent.slice : TRUE
  BY ListMade
<1>3. slice.kind # "IDR"
  BY DEF AInv, NoChangeWaits
<1>4. /\ \A i \in PpsIds : sent.ppsUpdates[i] = 0
      /\ e = h.sps \/ (slice.kind = "TRAIL" /\ e.id # h.sps.id)
  BY <1>2, <1>3 DEF AInv, NoChangeWaits
<1>5. activeSpsId = h.sps.id
  BY DEF AInv, LastSets
<1>6. e = h.sps
  BY <1>1, <1>4, <1>5 DEF Activates, Named
<1>7. sent.spsUpdates[h.sps.id] = 0
  BY <1>1, <1>6 DEF AInv, LastSets, Named
<1>8. pics[c].sps = spsMap.ps[d.sps]
  BY <1>1, <1>6, <1>7 DEF AInv, SpsOfList, Named
<1>9. k \in PpsIds
  <2>1. /\ pics[c].pps \in 1 .. ppsMap.made /\ MaxMade \in Nat
        /\ ppsMap.made \in 0 .. MaxMade /\ ppsMap.data \in [1 .. MaxMade -> PpsNals]
    BY ListMade DEF IInv, TypeOK, Maps
  <2>2. ppsMap.data[pics[c].pps] \in PpsNals
    BY <2>1
  <2> QED
    BY <2>2
<1>10. pics[c].pps = ppsMap.ps[k] /\ ~ppsMap.changed[k]
  BY <1>4, <1>9 DEF AInv, PpsOfList
<1>11. PpsAlive(c)
  BY <1>4, Alive
<1> QED
  BY <1>8, <1>9, <1>10, <1>11

\* The picture b and the maps after TakePicture, for the sets d and e.
Taken(b, slice, d, e) ==
  /\ Named(slice, d, e)
  /\ pics'[b].sps = spsMap.ps[e.id] /\ pics'[b].pps = ppsMap.ps[d.id]
  /\ \A c \in InList' : c = b \/ (c \in InList /\ pics'[c] = pics[c])
  /\ Cleared(SpsIds, spsMap, spsMap', e.id) /\ spsMap'.active = e.id
  /\ Cleared(PpsIds, ppsMap, ppsMap', d.id) /\ ppsMap'.active = d.id
  /\ open' = b /\ next' = {} /\ status' = status /\ activeSpsId' = e.id
  /\ pcv' = WithPcv(ppsMap.ps[d.id], e.size)
  /\ \A k \in SpsIds : sent'.spsUpdates[k] = 0
  /\ \A k \in PpsIds : sent'.ppsUpdates[k] = 0
  /\ sent'.slice = {[sps |-> e, pps |-> d]}
  /\ sent'.sps = sent.sps /\ sent'.pps = sent.pps /\ sent'.old = sent.old

\* A picture is taken for the waiting slice: one that is new, or one of the
\* list, which has the same SPS.
LEMMA TakeDoes ==
  ASSUME IInv, AInv, status = "run", NEW slice \in next, NEW b \in Pictures,
         NEW p \in Pics, p.sps = Null \/ (b \in InList /\ p = pics[b]),
         Activates(slice, GetPS(ppsMap, slice.pps).sps),
         TakePicture(b, p, slice)
  PROVE  LET d == GetPS(ppsMap, slice.pps)
         IN  Taken(b, slice, d, GetPS(spsMap, d.sps))
<1> DEFINE d == GetPS(ppsMap, slice.pps)
           e == GetPS(spsMap, d.sps)
           q == FinalInit(p, spsMap.ps[d.sps], ppsMap.ps[slice.pps])
<1>1. Named(slice, d, e)
  BY SliceNames
<1>2. \A c \in InList : pics[c].sps = spsMap.ps[d.sps]
  BY ListKeeps
<1>3. q.sps = spsMap.ps[d.sps] /\ q.pps = ppsMap.ps[slice.pps] /\ q.state = "open"
  <2> DEFINE x == IF p.sps = Null THEN spsMap.ps[d.sps] ELSE p.sps
             y == ppsMap.ps[slice.pps]
  <2>1. q = [p EXCEPT !.state = "open", !.sps = x, !.pps = y]
    BY DEF FinalInit
  <2>2. x = spsMap.ps[d.sps]
    BY <1>2
  <2> HIDE DEF x, y
  <2>3. q.sps = x /\ q.pps = y /\ q.state = "open"
    BY <2>1 DEF Pics
  <2> QED
    BY <2>2, <2>3 DEF y
<1> HIDE DEF q
<1>4. /\ pics' = [pics EXCEPT ![b] = q] /\ open' = b /\ next' = {} /\ status' = status
      /\ activeSpsId' = d.sps
      /\ sent' = [sent EXCEPT
           !.spsUpdates = [k \in SpsIds |-> 0], !.ppsUpdates = [k \in PpsIds |-> 0],
           !.pictures = @ + 1,
           !.slice = {[sps |-> f, pps |-> g] : f \in sent.sps[d.sps], g \in sent.pps[slice.pps]}]
      /\ pcv' = WithPcv(ppsMap.ps[slice.pps], e.size)
      /\ spsMap' = ClearFlags(slice.pps, d.sps)[1]
      /\ ppsMap' = ClearFlags(slice.pps, d.sps)[2]
  BY DEF TakePicture, q
<1>5. /\ Cleared(SpsIds, spsMap, spsMap', e.id) /\ spsMap'.active = e.id
      /\ Cleared(PpsIds, ppsMap, ppsMap', d.id) /\ ppsMap'.active = d.id
  <2>1. /\ spsMap' = SetActive(ClearChanged(spsMap, e.id), e.id)
        /\ ppsMap' = SetActive(ClearChanged(ppsMap, d.id), d.id)
    BY <1>1, <1>4 DEF ClearFlags, Named
  <2>2. /\ spsMap \in Maps(SpsIds, MaxMade, SpsNals) /\ e.id \in SpsIds
        /\ ppsMap \in Maps(PpsIds, MaxMade, PpsNals) /\ d.id \in PpsIds /\ MaxMade \in Nat
    BY <1>1 DEF IInv, TypeOK, Named
  <2> HIDE DEF d, e
  <2>3. Cleared(SpsIds, spsMap, spsMap', e.id) /\ spsMap'.active = e.id
    BY SMTT(20), <2>1, <2>2, ClearedDoes
  <2>4. Cleared(PpsIds, ppsMap, ppsMap', d.id) /\ ppsMap'.active = d.id
    <3>1. ppsMap \in Maps(PpsIds, MaxMade, PpsNals) /\ d.id \in PpsIds /\ MaxMade \in Nat
      BY <2>2
    <3> QED
      BY <2>1, <3>1, ClearedDoes
  <2> QED
    BY <2>3, <2>4
<1> HIDE DEF d, e
<1>6. /\ \A k \in SpsIds : sent'.spsUpdates[k] = 0
      /\ \A k \in PpsIds : sent'.ppsUpdates[k] = 0
      /\ sent'.slice = {[sps |-> e, pps |-> d]}
      /\ sent'.sps = sent.sps /\ sent'.pps = sent.pps /\ sent'.old = sent.old
  <2> DEFINE n == {[sps |-> f, pps |-> g] : f \in sent.sps[d.sps], g \in sent.pps[slice.pps]}
  <2>1. n = {[sps |-> e, pps |-> d]}
    BY <1>1 DEF Named
  <2> HIDE DEF n
  <2>2. sent \in Sent
    BY DEF IInv, TypeOK
  <2>3. /\ sent'.slice = n /\ sent'.sps = sent.sps /\ sent'.pps = sent.pps
        /\ sent'.old = sent.old
        /\ sent'.spsUpdates = [k \in SpsIds |-> 0] /\ sent'.ppsUpdates = [k \in PpsIds |-> 0]
    BY <1>4, <2>2 DEF Sent, n
  <2> QED
    BY <2>1, <2>3
<1>7. /\ pics'[b] = q
      /\ \A c \in InList' : c = b \/ (c \in InList /\ pics'[c] = pics[c])
  <2>1. pics \in [Pictures -> Pics]
    BY DEF IInv, TypeOK
  <2> QED
    BY <1>4, <2>1 DEF InList
<1>8. e.id = d.sps /\ d.id = slice.pps
  BY <1>1 DEF Named
<1>9. Taken(b, slice, d, e)
  BY <1>1, <1>3, <1>4, <1>5, <1>6, <1>7, <1>8 DEF Taken
<1> QED
  BY <1>9 DEF d, e

\* Taking a picture for the waiting slice keeps the invariant.
LEMMA TakePictureAct ==
  ASSUME IInv, AInv, status = "run", NEW slice \in next, NEW b \in Pictures,
         NEW p \in Pics, p.sps = Null \/ (b \in InList /\ p = pics[b]),
         Activates(slice, GetPS(ppsMap, slice.pps).sps),
         TakePicture(b, p, slice)
  PROVE  AInv'
<1> DEFINE d == GetPS(ppsMap, slice.pps)
           e == GetPS(spsMap, d.sps)
<1>1. Taken(b, slice, d, e)
  BY TakeDoes
<1>2. \A c \in InList :
        /\ pics[c].sps = spsMap.ps[d.sps]
        /\ pics[c].pps = ppsMap.ps[ppsMap.data[pics[c].pps].id]
        /\ ~ppsMap.changed[ppsMap.data[pics[c].pps].id]
        /\ ppsMap.data[pics[c].pps].id \in PpsIds
        /\ pics[c].pps \in 1 .. ppsMap.made
  BY ListKeeps, ListMade
<1>3. /\ e.id = d.sps /\ d.id = slice.pps /\ e.id \in SpsIds /\ d.id \in PpsIds
      /\ GetPS(spsMap, e.id) = e /\ GetPS(ppsMap, d.id) = d
      /\ ppsMap.ps[d.id] \in 1 .. ppsMap.made /\ spsMap.ps[e.id] \in 1 .. spsMap.made
      /\ sent.sps[e.id] = {e} /\ sent.pps[d.id] = {d}
  BY <1>1 DEF Taken, Named
<1> HIDE DEF d, e
<1>4. /\ pics'[b].sps = spsMap.ps[e.id] /\ pics'[b].pps = ppsMap.ps[d.id]
      /\ \A c \in InList' : c = b \/ (c \in InList /\ pics'[c] = pics[c])
      /\ open' = b /\ next' = {} /\ status' = status /\ activeSpsId' = e.id
  BY <1>1 DEF Taken
<1>5. /\ Cleared(SpsIds, spsMap, spsMap', e.id) /\ spsMap'.active = e.id
      /\ Cleared(PpsIds, ppsMap, ppsMap', d.id) /\ ppsMap'.active = d.id
  BY <1>1 DEF Taken
<1>6. /\ \A k \in SpsIds : sent'.spsUpdates[k] = 0
      /\ \A k \in PpsIds : sent'.ppsUpdates[k] = 0
      /\ sent'.slice = {[sps |-> e, pps |-> d]}
      /\ sent'.sps[e.id] = {e} /\ sent'.pps[d.id] = {d}
  BY <1>1, <1>3 DEF Taken
<1>7. \A h \in sent'.slice : h.sps = e /\ h.pps = d
  BY <1>6
<1>8. Numbered'
  BY <1>5 DEF AInv, Numbered, Cleared, Present, GetPS
<1>9. LastSets'
  <2>1. \A g, h \in sent'.slice : g = h
    BY <1>6
  <2>2. sent'.slice # {}
    BY <1>6
  <2> QED
    BY <1>3, <1>4, <1>5, <1>6, <1>7, <2>1, <2>2 DEF LastSets
<1>10. SpsOfList'
  <2> SUFFICES ASSUME NEW c \in InList'
               PROVE  LET o == pics'[c].sps
                          i == e.id
                      IN  /\ o # Null
                          /\ spsMap'.data[o] = e
                          /\ sent'.spsUpdates[i] = 0 => o = spsMap'.ps[i] /\ ~spsMap'.changed[i]
                          /\ sent'.spsUpdates[i] = 0
    BY <1>7 DEF SpsOfList
  <2>1. pics'[c].sps = spsMap.ps[e.id]
    BY <1>2, <1>3, <1>4
  <2>2. pics'[c].sps # Null
    BY <1>3, <2>1 DEF Null
  <2>3. spsMap'.data[pics'[c].sps] = e
    BY <1>3, <1>5, <2>1 DEF Cleared, GetPS
  <2>4. pics'[c].sps = spsMap'.ps[e.id] /\ ~spsMap'.changed[e.id]
    BY <1>3, <1>5, <2>1 DEF Cleared
  <2> QED
    BY <1>3, <1>6, <2>2, <2>3, <2>4
<1>11. PpsOfList'
  <2> SUFFICES ASSUME NEW c \in InList'
               PROVE  LET o == pics'[c].pps
                          i == ppsMap'.data[o].id
                      IN  /\ o \in 1 .. ppsMap'.made
                          /\ o = ppsMap'.ps[i] /\ ~ppsMap'.changed[i]
    BY DEF PpsOfList
  <2> DEFINE o == pics'[c].pps
  <2>1. ppsMap'.made = ppsMap.made /\ ppsMap'.data = ppsMap.data /\ ppsMap'.ps = ppsMap.ps
    BY <1>5 DEF Cleared
  <2>2. ASSUME c = b
        PROVE  o \in 1 .. ppsMap.made /\ o = ppsMap.ps[d.id] /\ ppsMap.data[o].id = d.id
    BY <1>3, <1>4, <2>2 DEF GetPS
  <2>3. CASE c = b
    <3>1. ~ppsMap'.changed[d.id]
      BY <1>3, <1>5 DEF Cleared
    <3> QED
      BY <2>1, <2>2, <2>3, <3>1
  <2>4. CASE c \in InList /\ pics'[c] = pics[c]
    <3> DEFINE k == ppsMap.data[o].id
    <3>1. o \in 1 .. ppsMap.made /\ o = ppsMap.ps[k] /\ ~ppsMap.changed[k] /\ k \in PpsIds
      BY <1>2, <2>4
    <3>2. ~ppsMap'.changed[k]
      BY <1>5, <3>1 DEF Cleared
    <3> QED
      BY <2>1, <3>1, <3>2
  <2> QED
    BY <1>4, <2>3, <2>4
<1>12. PpsOfOpen'
  <2>1. ppsMap'.data[pics'[open'].pps] = d
    BY <1>3, <1>4, <1>5 DEF Cleared, GetPS
  <2>2. \A h \in sent'.slice : h.pps = d
    BY <1>7
  <2>3. sent'.ppsUpdates[d.id] = 0
    BY <1>3, <1>6
  <2> QED
    BY <2>1, <2>2, <2>3 DEF PpsOfOpen
<1>13. NoChangeWaits' /\ NoFault' /\ ExitJustified'
  BY <1>4 DEF NoChangeWaits, NoFault, ExitJustified
<1> QED
  BY <1>8, <1>9, <1>10, <1>11, <1>12, <1>13 DEF AInv

\* A picture that starts takes a new buffer, or an old one of the list whose
\* PPS is still there.
LEMMA StartTakes ==
  ASSUME IInv, AInv, NEW b \in Pictures, StartInNewPicture(b) \/ StartInOldPicture(b)
  PROVE  \E slice \in next, p \in Pics :
           /\ status = "run"
           /\ Activates(slice, GetPS(ppsMap, slice.pps).sps)
           /\ p.sps = Null \/ (b \in InList /\ p = pics[b])
           /\ TakePicture(b, p, slice)
<1>1. PICK slice \in next :
        /\ status = "run"
        /\ Activates(slice, GetPS(ppsMap, slice.pps).sps)
        /\ LET size == GetPS(spsMap, GetPS(ppsMap, slice.pps).sps).size
           IN  \/ TakePicture(b, NewPic(size), slice)
               \/ b \in FreePics /\ (IF PpsAlive(b) THEN TakePicture(b, pics[b], slice) ELSE Fault)
  BY DEF StartInNewPicture, StartInOldPicture
<1> DEFINE size == GetPS(spsMap, GetPS(ppsMap, slice.pps).sps).size
<1>2. size \in Nat
  BY WaitingOK DEF Found
<1>3. NewPic(size) \in Pics /\ NewPic(size).sps = Null
  <2>1. NoPic \in Pics /\ NoPic.sps = Null
    BY DEF NoPic, Pics, PicStates, NoSize, Null
  <2> QED
    BY <1>2, <2>1 DEF NewPic, Pics, PicStates
<1>4. CASE TakePicture(b, NewPic(size), slice)
  BY <1>1, <1>3, <1>4
<1>5. CASE b \in FreePics /\ (IF PpsAlive(b) THEN TakePicture(b, pics[b], slice) ELSE Fault)
  <2>1. b \in InList /\ pics[b] \in Pics
    BY <1>5 DEF FreePics, InList, IInv, TypeOK
  <2>2. PpsAlive(b)
    BY <1>1, <2>1, ListKeeps
  <2> QED
    BY <1>1, <1>5, <2>1, <2>2
<1> QED
  BY <1>1, <1>4, <1>5

\* A picture starts in a new buffer or in an old one.
LEMMA StartAct ==
  ASSUME IInv, AInv, NEW b \in Pictures, StartInNewPicture(b) \/ StartInOldPicture(b)
  PROVE  AInv'
BY StartTakes, TakePictureAct

\* The decoder stops because the sets cannot be made active.
LEMMA RejectActivationAct ==
  ASSUME IInv, AInv, RejectActivation
  PROVE  AInv'
<1>1. PICK slice \in next :
        /\ spsMap' = ClearChanged(spsMap, GetPS(ppsMap, slice.pps).sps)
        /\ ppsMap' = ClearChanged(ppsMap, slice.pps)
        /\ status' = "inactive"
        /\ UNCHANGED <<pics, open, next, sent>>
  BY DEF RejectActivation
<1> DEFINE i == slice.pps
           s == GetPS(ppsMap, slice.pps).sps
<1>2. /\ spsMap \in Maps(SpsIds, MaxMade, SpsNals) /\ s \in SpsIds
      /\ ppsMap \in Maps(PpsIds, MaxMade, PpsNals) /\ i \in PpsIds /\ MaxMade \in Nat
      /\ open = NoPicture
  BY WaitingOK DEF IInv, TypeOK, Found
<1>3. /\ Cleared(SpsIds, spsMap, spsMap', s) /\ spsMap'.active = spsMap.active
      /\ Cleared(PpsIds, ppsMap, ppsMap', i) /\ ppsMap'.active = ppsMap.active
  BY <1>1, <1>2, ClearedDoes
<1> HIDE DEF i, s
<1>4. InList' = InList
  BY <1>1 DEF InList
<1>5. Numbered'
  BY <1>3 DEF AInv, Numbered, Cleared, Present, GetPS
<1>6. LastSets'
  BY <1>1, <1>3, <1>4 DEF AInv, LastSets
<1>7. SpsOfList'
  <2> SUFFICES ASSUME NEW h \in sent.slice, NEW b \in InList
               PROVE  LET o == pics[b].sps
                          k == h.sps.id
                      IN  /\ o # Null
                          /\ spsMap'.data[o] = h.sps
                          /\ sent.spsUpdates[k] = 0 => o = spsMap'.ps[k] /\ ~spsMap'.changed[k]
                          /\ sent.spsUpdates[k] > 0 => o = spsMap'.last
    BY <1>1, <1>2, <1>4 DEF SpsOfList
  <2>1. h.sps.id \in SpsIds
    BY LastSetsType
  <2>2. /\ pics[b].sps # Null
        /\ spsMap.data[pics[b].sps] = h.sps
        /\ sent.spsUpdates[h.sps.id] = 0 =>
             pics[b].sps = spsMap.ps[h.sps.id] /\ ~spsMap.changed[h.sps.id]
        /\ sent.spsUpdates[h.sps.id] > 0 => pics[b].sps = spsMap.last
    BY DEF AInv, SpsOfList
  <2> QED
    BY <1>3, <2>1, <2>2 DEF Cleared
<1>8. PpsOfList'
  <2> SUFFICES ASSUME NEW b \in InList
               PROVE  LET o == pics[b].pps
                          k == ppsMap'.data[o].id
                      IN  /\ o \in 1 .. ppsMap'.made
                          /\ sent.ppsUpdates[k] = 0 => o = ppsMap'.ps[k] /\ ~ppsMap'.changed[k]
    BY <1>1, <1>4 DEF PpsOfList
  <2> DEFINE o == pics[b].pps
             k == ppsMap.data[o].id
  <2>1. o \in 1 .. ppsMap.made /\ (sent.ppsUpdates[k] = 0 => o = ppsMap.ps[k] /\ ~ppsMap.changed[k])
    BY DEF AInv, PpsOfList
  <2>2. ppsMap.data[o] \in PpsNals
    BY <1>2, <2>1 DEF Maps
  <2>3. k \in PpsIds
    BY <2>2
  <2> QED
    BY <1>3, <2>1, <2>3 DEF Cleared
<1>9. PpsOfOpen'
  BY <1>1, <1>2 DEF PpsOfOpen
<1>10. NoChangeWaits'
  <2>1. \A x : GetPS(spsMap', x) = GetPS(spsMap, x) /\ GetPS(ppsMap', x) = GetPS(ppsMap, x)
    BY <1>3 DEF Cleared, GetPS
  <2> QED
    BY <1>1, <1>4, <2>1 DEF AInv, NoChangeWaits
<1>11. NoFault' /\ ExitJustified'
  BY <1>1 DEF NoFault, ExitJustified
<1> QED
  BY <1>5, <1>6, <1>7, <1>8, <1>9, <1>10, <1>11 DEF AInv

\* A set of the open picture is flagged if and only if it was sent with other
\* contents.
LEMMA FlagsTell ==
  ASSUME IInv, AInv, open # NoPicture, NEW h \in sent.slice
  PROVE  /\ spsMap.changed[spsMap.data[pics[open].sps].id] <=> sent.sps[h.sps.id] # {h.sps}
         /\ ppsMap.changed[ppsMap.data[pics[open].pps].id] <=> sent.pps[h.pps.id] # {h.pps}
<1>1. open \in InList
  BY DEF IInv, TypeOK, InList
<1>2. /\ sent.spsUpdates[h.sps.id] \in Nat /\ sent.ppsUpdates[h.pps.id] \in Nat
  BY LastSetsType DEF IInv, TypeOK, Sent
<1>3. /\ sent.spsUpdates[h.sps.id] = 0 <=> sent.sps[h.sps.id] = {h.sps}
      /\ sent.ppsUpdates[h.pps.id] = 0 <=> sent.pps[h.pps.id] = {h.pps}
  BY DEF AInv, LastSets
<1>4. /\ spsMap.data[pics[open].sps] = h.sps
      /\ sent.spsUpdates[h.sps.id] = 0 => ~spsMap.changed[h.sps.id]
      /\ sent.spsUpdates[h.sps.id] > 0 => spsMap.changed[h.sps.id]
  BY <1>1 DEF AInv, SpsOfList
<1>5. /\ ppsMap.data[pics[open].pps] = h.pps
      /\ sent.ppsUpdates[h.pps.id] > 0 => ppsMap.changed[h.pps.id]
  BY DEF AInv, PpsOfOpen
<1>6. sent.ppsUpdates[h.pps.id] = 0 => ~ppsMap.changed[h.pps.id]
  BY <1>1, <1>5 DEF AInv, PpsOfList
<1>7. spsMap.changed[h.sps.id] <=> sent.sps[h.sps.id] # {h.sps}
  BY <1>2, <1>3, <1>4
<1>8. ppsMap.changed[h.pps.id] <=> sent.pps[h.pps.id] # {h.pps}
  BY <1>2, <1>3, <1>5, <1>6
<1> QED
  BY <1>4, <1>5, <1>7, <1>8

\* Another slice of the open picture names the same sets, or the decoder
\* stops with a reason.
LEMMA ContinuePictureAct ==
  ASSUME IInv, AInv, ContinuePicture
  PROVE  AInv'
<1>1. MayFinish
  BY Alive
<1>2. /\ status = "run" /\ next = {} /\ open # NoPicture
      /\ status' = IF SetsChanged(pics[open]) THEN "changed" ELSE status
      /\ sent' = IF SetsChanged(pics[open]) THEN sent ELSE
           [sent EXCEPT !.slice =
              UNION {{[sps |-> e, pps |-> d] : e \in sent.sps[d.sps]} :
                     d \in UNION {sent.pps[h.pps.id] : h \in sent.slice}}]
      /\ UNCHANGED <<maps, pics, open, next>>
  BY <1>1 DEF ContinuePicture, Reading
<1>3. open \in InList /\ pics[open].state # "none"
  BY <1>2 DEF IInv, TypeOK, InList
<1>4. PICK h \in sent.slice : TRUE
  BY <1>3, ListMade
<1>5. /\ spsMap.changed[spsMap.data[pics[open].sps].id] <=> sent.sps[h.sps.id] # {h.sps}
      /\ ppsMap.changed[ppsMap.data[pics[open].pps].id] <=> sent.pps[h.pps.id] # {h.pps}
  BY <1>2, FlagsTell
<1>6. sent' = sent
  <2>1. CASE SetsChanged(pics[open])
    BY <1>2, <2>1
  <2>2. CASE ~SetsChanged(pics[open])
    <3>1. sent.sps[h.sps.id] = {h.sps} /\ sent.pps[h.pps.id] = {h.pps}
      BY <1>5, <2>2 DEF SetsChanged
    <3>2. sent.slice = {h} /\ h.pps.sps = h.sps.id
      BY DEF AInv, LastSets
    <3> DEFINE named == UNION {sent.pps[g.pps.id] : g \in sent.slice}
               slices == UNION {{[sps |-> e, pps |-> d] : e \in sent.sps[d.sps]} : d \in named}
    <3>3. named = {h.pps}
      BY <3>1, <3>2
    <3> HIDE DEF named
    <3>4. slices = {[sps |-> e, pps |-> h.pps] : e \in {h.sps}}
      BY <3>1, <3>2, <3>3
    <3>5. h = [sps |-> h.sps, pps |-> h.pps] /\ sent \in Sent
      BY DEF IInv, TypeOK, Sent
    <3>6. slices = sent.slice
      BY <3>2, <3>4, <3>5
    <3>7. sent' = [sent EXCEPT !.slice = slices]
      BY <1>2, <2>2 DEF named
    <3> HIDE DEF slices
    <3>8. sent' = [sent EXCEPT !.slice = sent.slice]
      BY <3>6, <3>7
    <3> QED
      BY <3>5, <3>8 DEF Sent
  <2> QED
    BY <2>1, <2>2
<1>7. SetsKept'
  BY <1>2, <1>3, <1>6, PicsKept
<1>8. ExitJustified'
  <2>1. status' = "changed" => SetsChanged(pics[open])
    BY <1>2
  <2>2. SetsChanged(pics[open]) => sent.sps[h.sps.id] # {h.sps} \/ sent.pps[h.pps.id] # {h.pps}
    BY <1>5 DEF SetsChanged
  <2> QED
    BY <1>6, <2>1, <2>2 DEF ExitJustified
<1>9. NoChangeWaits' /\ NoFault'
  BY <1>2 DEF NoChangeWaits, NoFault
<1> QED
  BY <1>7, <1>8, <1>9 DEF AInv, SetsKept

-----------------------------------------------------------------------------
(* The theorems.                                                           *)

\* Nothing is stored, no picture is there and no slice was decoded.
LEMMA InitAct == Init => AInv
<1> SUFFICES ASSUME Init PROVE AInv
  OBVIOUS
<1>1. /\ \A i \in SpsIds : ~Present(spsMap, i)
      /\ \A i \in PpsIds : ~Present(ppsMap, i)
  BY DEF Init, EmptyMap, Present
<1>2. InList = {} /\ sent.slice = {} /\ open = NoPicture /\ next = {} /\ status = "run"
  BY DEF Init, InList, NoPic
<1> QED
  BY <1>1, <1>2 DEF AInv, Numbered, LastSets, SpsOfList, PpsOfList, PpsOfOpen,
     NoChangeWaits, NoFault, ExitJustified

\* Every step keeps the invariant.
LEMMA NextAct == IInv /\ AInv /\ ChangesAtIdr /\ [Next]_vars => AInv'
<1> SUFFICES ASSUME IInv, AInv, ChangesAtIdr, [Next]_vars PROVE AInv'
  OBVIOUS
<1>1. ASSUME NEW d \in SpsNals, DecodeSPS(d) PROVE AInv'
  BY <1>1, DecodeSPSAct
<1>2. ASSUME NEW d \in PpsNals, DecodePPS(d) PROVE AInv'
  BY <1>2, DecodePPSAct
<1>3. ASSUME NEW kind \in Kinds, NEW i \in PpsIds, FindNewPicture(kind, i) PROVE AInv'
  BY <1>3, FindNewPictureAct
<1>4. ASSUME NEW i \in PpsIds, RejectSlice(i) PROVE AInv'
  BY <1>4, EndsAct
<1>5. ASSUME NEW b \in Pictures,
             ReleasePicture(b) \/ StartInOldPicture(b) \/ StartInNewPicture(b)
      PROVE  AInv'
  BY <1>5, EndsAct, StartAct
<1>6. CASE RejectActivation
  BY <1>6, RejectActivationAct
<1>7. CASE ContinuePicture
  BY <1>7, ContinuePictureAct
<1>8. CASE EndSequence \/ EndOfFile
  BY <1>8, EndsAct
<1>9. CASE UNCHANGED vars
  <2>1. /\ UNCHANGED <<spsMap, ppsMap, activeSpsId, pics, open, next, status, sent>>
        /\ InList' = InList
    BY <1>9 DEF vars, InList
  <2>2. Numbered' /\ LastSets' /\ SpsOfList' /\ PpsOfList' /\ PpsOfOpen'
    <3>1. Numbered' /\ LastSets'
      BY <2>1 DEF AInv, Numbered, LastSets, Present, GetPS
    <3>2. SpsOfList'
      BY <2>1 DEF AInv, SpsOfList
    <3>3. PpsOfList' /\ PpsOfOpen'
      BY <2>1 DEF AInv, PpsOfList, PpsOfOpen
    <3> QED
      BY <3>1, <3>2, <3>3
  <2>3. NoChangeWaits' /\ NoFault' /\ ExitJustified'
    BY <2>1 DEF AInv, NoChangeWaits, NoFault, ExitJustified, GetPS
  <2> QED
    BY <2>2, <2>3 DEF AInv
<1> QED
  BY <1>1, <1>2, <1>3, <1>4, <1>5, <1>6, <1>7, <1>8, <1>9 DEF Next, Done

\* The invariant holds for the bitstreams whose sets change at IDR pictures.
THEOREM Activated == ASSUME ChangesAtIdr PROVE Spec => []AInv
<1>1. IInv /\ AInv /\ [Next]_vars => IInv' /\ AInv'
  BY NextOK, NextAct
<1>2. Init => IInv /\ AInv
  BY InitOK, InitAct
<1> QED
  BY <1>1, <1>2, PTL DEF Spec

\* No parameter set is read by way of a picture after the manager has deleted
\* it (NoFault), for every bitstream whose sets change once between two
\* pictures at most, and before IDR pictures only.
THEOREM NoneReadAfterDelete == ASSUME ChangesAtIdr PROVE Spec => []NoFault
<1>1. AInv => NoFault
  BY DEF AInv
<1> QED
  BY <1>1, Activated, PTL

\* For these bitstreams the slices of the open picture are decoded with the
\* sets that their headers name (SlicesRight).
THEOREM SlicesDecodedRight == ASSUME ChangesAtIdr PROVE Spec => []SlicesRight
<1>1. IInv /\ AInv => SlicesRight
  <2> SUFFICES ASSUME IInv, AInv, open # NoPicture, NEW h \in sent.slice
               PROVE  /\ spsMap.data[pics[open].sps] = h.sps
                      /\ ppsMap.data[pics[open].pps] = h.pps
    BY DEF SlicesRight
  <2>1. open \in InList
    BY DEF IInv, TypeOK, InList
  <2> QED
    BY <2>1 DEF AInv, SpsOfList, PpsOfOpen
<1> QED
  BY <1>1, Activated, Invariant, PTL

\* For these bitstreams the decoder gives up within a picture only if a set
\* of the picture really was sent with other contents (ExitJustified).
THEOREM ExitsJustified == ASSUME ChangesAtIdr PROVE Spec => []ExitJustified
<1>1. AInv => ExitJustified
  BY DEF AInv
<1> QED
  BY <1>1, Activated, PTL

-----------------------------------------------------------------------------
(* The precalculated values.                                               *)

\* No object has any before it is made.
Unmade == \A o \in 1 .. MaxMade : o > ppsMap.made => pcv[o] = NoSize

\* A stored PPS has none or those of the SPS it names, unless that SPS has
\* changed since the PPS was sent.
PcvFits ==
  \A i \in PpsIds \ sent.old : Present(ppsMap, i) =>
    LET s == GetPS(ppsMap, i).sps
        v == pcv[ppsMap.ps[i]]
    IN  v = NoSize \/ (Present(spsMap, s) /\ v = GetPS(spsMap, s).size)

\* The slice that waits does not name a PPS older than its SPS.
WaitsNew == \A slice \in next : slice.pps \notin sent.old

PInv == Unmade /\ PcvFits /\ WaitsNew /\ PcvRight

\* The objects of the maps and their contents, as far as they are made.
LEMMA MapFacts ==
  ASSUME IInv
  PROVE  /\ MaxMade \in Nat
         /\ spsMap.made \in Nat /\ ppsMap.made \in 0 .. MaxMade
         /\ \A i \in SpsIds : Present(spsMap, i) => spsMap.ps[i] \in 1 .. spsMap.made
         /\ \A i \in PpsIds : Present(ppsMap, i) =>
              /\ ppsMap.ps[i] \in 1 .. ppsMap.made
              /\ GetPS(ppsMap, i) \in PpsNals /\ GetPS(ppsMap, i).sps \in SpsIds
              /\ \A j \in PpsIds \ {i} : ppsMap.ps[j] # ppsMap.ps[i]
<1>1. /\ spsMap \in Maps(SpsIds, MaxMade, SpsNals) /\ OwnedOnce(spsMap)
      /\ ppsMap \in Maps(PpsIds, MaxMade, PpsNals) /\ OwnedOnce(ppsMap)
      /\ MaxMade \in Nat
  BY DEF IInv, TypeOK, Owned
<1>2. spsMap.made \in Nat /\ ppsMap.made \in 0 .. MaxMade
  BY <1>1 DEF Maps
<1>3. \A i \in SpsIds : Present(spsMap, i) => spsMap.ps[i] \in 1 .. spsMap.made
  BY <1>1, OwnedLive DEF Present
<1>4. ASSUME NEW i \in PpsIds, Present(ppsMap, i)
      PROVE  /\ ppsMap.ps[i] \in 1 .. ppsMap.made
             /\ GetPS(ppsMap, i) \in PpsNals /\ GetPS(ppsMap, i).sps \in SpsIds
             /\ \A j \in PpsIds \ {i} : ppsMap.ps[j] # ppsMap.ps[i]
  <2>1. ppsMap.ps[i] \in 1 .. ppsMap.made
    BY <1>1, <1>4, OwnedLive DEF Present
  <2>2. GetPS(ppsMap, i) \in PpsNals
    BY <1>1, <2>1 DEF Maps, GetPS
  <2>3. \A j \in PpsIds \ {i} : ppsMap.ps[j] # ppsMap.ps[i]
    BY <1>1, <1>4 DEF OwnedOnce, Present, Maps
  <2> QED
    BY <2>1, <2>2, <2>3
<1> QED
  BY <1>1, <1>2, <1>3, <1>4

\* Storing an SPS.
LEMMA DecodeSPSPcv ==
  ASSUME IInv, AInv, PInv, ChangesAtIdr, NEW d \in SpsNals, DecodeSPS(d)
  PROVE  PInv'
<1>1. /\ StoreEffect(SpsIds, spsMap, spsMap', d.id, d)
      /\ Stored(SpsIds, MaxMade, SpsNals, spsMap, spsMap', d.id, d)
      /\ sent'.pps = sent.pps
      /\ next = {}
      /\ UNCHANGED <<ppsMap, activeSpsId, pcv, pics, open, next, status>>
  BY SpsSent
<1> DEFINE changes == sent.sps[d.id] \notin {{}, {d}}
<1>2. sent'.old = IF changes
                  THEN sent.old \cup {i \in PpsIds : \E q \in sent.pps[i] : q.sps = d.id}
                  ELSE sent.old
  <2>1. sent \in Sent
    BY DEF IInv, TypeOK
  <2> QED
    BY <2>1 DEF DecodeSPS, Sent
<1> HIDE DEF changes
<1>3. Unmade'
  BY <1>1 DEF PInv, Unmade
<1>4. PcvFits'
  <2> SUFFICES ASSUME NEW i \in PpsIds \ sent'.old, Present(ppsMap, i)
               PROVE  LET s == GetPS(ppsMap, i).sps
                          v == pcv[ppsMap.ps[i]]
                      IN  v = NoSize \/ (Present(spsMap', s) /\ v = GetPS(spsMap', s).size)
    BY <1>1 DEF PcvFits, Present, GetPS
  <2> DEFINE q == GetPS(ppsMap, i)
             v == pcv[ppsMap.ps[i]]
  <2>1. q.sps \in SpsIds /\ sent.pps[i] = {q}
    BY MapFacts DEF IInv, Latest
  <2>2. i \notin sent.old
    BY <1>2
  <2>3. v = NoSize \/ (Present(spsMap, q.sps) /\ v = GetPS(spsMap, q.sps).size)
    BY <2>2 DEF PInv, PcvFits
  <2>4. CASE q.sps # d.id
    BY <1>1, <2>1, <2>3, <2>4 DEF Stored
  <2>5. CASE q.sps = d.id
    <3>1. ~changes
      BY <1>2, <2>1, <2>5
    <3>2. sent.sps[d.id] = IF Present(spsMap, d.id) THEN {GetPS(spsMap, d.id)} ELSE {}
      BY <2>1, <2>5 DEF IInv, Latest
    <3>3. Present(spsMap, d.id) => GetPS(spsMap, d.id) = d
      BY <3>1, <3>2 DEF changes
    <3> QED
      BY <1>1, <2>3, <2>5, <3>3 DEF Stored
  <2> QED
    BY <2>4, <2>5
<1>5. WaitsNew'
  BY <1>1 DEF WaitsNew
<1>6. PcvRight'
  <2> SUFFICES ASSUME open # NoPicture
               PROVE  pcv[pics[open].pps] = spsMap'.data[pics[open].sps].size
    BY <1>1 DEF PcvRight
  <2>1. open \in InList
    BY DEF IInv, TypeOK, InList
  <2>2. pics[open].sps \in 1 .. spsMap.made
    BY <2>1, ListMade
  <2>3. spsMap'.data[pics[open].sps] = spsMap.data[pics[open].sps]
    BY <1>1, <2>2 DEF StoreEffect
  <2> QED
    BY <2>3 DEF PInv, PcvRight
<1> QED
  BY <1>3, <1>4, <1>5, <1>6 DEF PInv

\* Storing a PPS.
LEMMA DecodePPSPcv ==
  ASSUME IInv, AInv, PInv, ChangesAtIdr, NEW d \in PpsNals, DecodePPS(d)
  PROVE  PInv'
<1>1. /\ StoreEffect(PpsIds, ppsMap, ppsMap', d.id, d)
      /\ Stored(PpsIds, MaxMade, PpsNals, ppsMap, ppsMap', d.id, d)
      /\ next = {}
      /\ UNCHANGED <<spsMap, activeSpsId, pcv, pics, open, next, status>>
      /\ d.id \in PpsIds
  BY PpsSent
<1> DEFINE changes == sent.pps[d.id] \notin {{}, {d}}
<1>2. sent'.old = IF changes THEN sent.old \ {d.id} ELSE sent.old
  <2>1. sent \in Sent
    BY DEF IInv, TypeOK
  <2> QED
    BY <2>1 DEF DecodePPS, Sent
<1> HIDE DEF changes
<1>3. /\ ppsMap.made + 1 \in 1 .. MaxMade /\ pcv[ppsMap.made + 1] = NoSize
  <2>1. ppsMap.made + 1 \in 1 .. MaxMade
    BY MapFacts DEF DecodePPS
  <2> QED
    BY <2>1, MapFacts DEF PInv, Unmade
<1>4. Unmade'
  BY <1>1, MapFacts DEF PInv, Unmade, StoreEffect
<1>5. PcvFits'
  <2> SUFFICES ASSUME NEW i \in PpsIds \ sent'.old, Present(ppsMap', i)
               PROVE  LET s == GetPS(ppsMap', i).sps
                          v == pcv[ppsMap'.ps[i]]
                      IN  v = NoSize \/ (Present(spsMap, s) /\ v = GetPS(spsMap, s).size)
    BY <1>1 DEF PcvFits, Present, GetPS
  <2>1. CASE i # d.id
    <3>1. /\ Present(ppsMap, i) /\ GetPS(ppsMap', i) = GetPS(ppsMap, i)
          /\ ppsMap'.ps[i] = ppsMap.ps[i] /\ i \notin sent.old
      BY <1>1, <1>2, <2>1 DEF Stored, StoreEffect
    <3> QED
      BY <3>1 DEF PInv, PcvFits
  <2>2. CASE i = d.id /\ ppsMap'.ps[i] = ppsMap.made + 1
    BY <1>3, <2>2
  <2>3. CASE i = d.id /\ ppsMap'.ps[i] # ppsMap.made + 1
    <3>1. Present(ppsMap, i) /\ ~Differs(ppsMap, i, d)
      BY <1>1, <2>3 DEF StoreEffect
    <3>2. ppsMap'.ps[i] = ppsMap.ps[i] /\ GetPS(ppsMap, i) = d /\ GetPS(ppsMap', i) = d
      BY <1>1, <2>3, <3>1 DEF StoreEffect, Stored, Differs
    <3>3. sent.pps[i] = {d}
      BY <3>1, <3>2 DEF IInv, Latest
    <3>4. i \notin sent.old
      BY <1>2, <2>3, <3>3 DEF changes
    <3> QED
      BY <3>1, <3>2, <3>4 DEF PInv, PcvFits
  <2> QED
    BY <2>1, <2>2, <2>3
<1>6. WaitsNew' /\ PcvRight'
  BY <1>1 DEF PInv, WaitsNew, PcvRight
<1> QED
  BY <1>4, <1>5, <1>6 DEF PInv

\* A step that leaves the maps and the sets of the open picture alone.
LEMMA PcvKept ==
  ASSUME PInv, UNCHANGED maps, sent'.old = sent.old,
         open' # NoPicture => /\ open' = open
                              /\ pics'[open].sps = pics[open].sps
                              /\ pics'[open].pps = pics[open].pps,
         \A slice \in next' : slice \in next \/ slice.pps \notin sent.old
  PROVE  PInv'
<1>1. UNCHANGED <<spsMap, ppsMap, pcv>>
  BY DEF maps
<1>2. Unmade' /\ PcvFits'
  BY <1>1 DEF PInv, Unmade, PcvFits, Present, GetPS
<1>3. WaitsNew'
  BY DEF PInv, WaitsNew
<1>4. PcvRight'
  BY <1>1 DEF PInv, PcvRight
<1> QED
  BY <1>2, <1>3, <1>4 DEF PInv

\* The end of a picture, with a new one or not, and its output.
LEMMA EndsPcv ==
  ASSUME IInv, AInv, PInv, PpsFollowsSps,
         \/ \E kind \in Kinds, i \in PpsIds : FindNewPicture(kind, i)
         \/ EndSequence
         \/ EndOfFile
         \/ \E b \in Pictures : ReleasePicture(b)
         \/ \E i \in PpsIds : RejectSlice(i)
  PROVE  PInv'
<1>1. MayFinish /\ MayFlush /\ \A b \in InList : SpsAlive(b)
  BY Alive
<1>2. ASSUME NEW kind \in Kinds, NEW i \in PpsIds, FindNewPicture(kind, i)
      PROVE  PInv'
  <2>1. PICK d \in sent.pps[i] : \E e \in sent.sps[d.sps] : StreamAllows(kind, d, e)
    BY <1>2 DEF FindNewPicture
  <2>2. d.id \notin sent.old
    BY <2>1 DEF StreamAllows
  <2>3. d.id = i
    <3>1. sent.pps[i] = IF Present(ppsMap, i) THEN {GetPS(ppsMap, i)} ELSE {}
      BY DEF IInv, Latest
    <3> QED
      BY <2>1, <3>1 DEF AInv, Numbered
  <2> DEFINE w == [kind |-> kind, pps |-> i]
  <2>4. next' = {w} /\ open' = NoPicture /\ UNCHANGED <<maps, status, sent>>
    BY <1>1, <1>2 DEF FindNewPicture
  <2>5. w.pps \notin sent.old
    BY <2>2, <2>3
  <2> HIDE DEF w
  <2> QED
    BY <2>4, <2>5, PcvKept
<1>3. CASE EndSequence \/ EndOfFile
  <2>1. open' = NoPicture /\ UNCHANGED <<maps, next, sent>>
    BY <1>1, <1>3 DEF EndSequence, EndOfFile
  <2> QED
    BY <2>1, PcvKept
<1>4. ASSUME NEW b \in Pictures, ReleasePicture(b)
      PROVE  PInv'
  <2> DEFINE q == [pics[b] EXCEPT !.state = "free"]
  <2>1. pics' = [pics EXCEPT ![b] = q] /\ UNCHANGED <<maps, open, next, sent>>
    BY <1>1, <1>4 DEF ReleasePicture, InList
  <2>2. pics \in [Pictures -> Pics]
    BY DEF IInv, TypeOK
  <2>3. q.sps = pics[b].sps /\ q.pps = pics[b].pps
    BY <2>2 DEF Pics
  <2>4. open # NoPicture => open \in Pictures
    BY DEF IInv, TypeOK
  <2> HIDE DEF q
  <2>5. open # NoPicture => pics'[open].sps = pics[open].sps /\ pics'[open].pps = pics[open].pps
    BY <2>1, <2>2, <2>3, <2>4
  <2> QED
    BY <2>1, <2>5, PcvKept
<1>5. ASSUME NEW i \in PpsIds, RejectSlice(i)
      PROVE  PInv'
  <2>1. UNCHANGED <<maps, pics, open, next, sent>>
    BY <1>5 DEF RejectSlice
  <2> QED
    BY <2>1, PcvKept
<1> QED
  BY <1>2, <1>3, <1>4, <1>5

\* The values computed for a waiting slice fit the SPS it names.
LEMMA PcvMade ==
  ASSUME IInv, AInv, PInv, NEW slice \in next, NEW d, NEW e,
         Named(slice, d, e), pcv' = WithPcv(ppsMap.ps[d.id], e.size),
         spsMap'.ps = spsMap.ps, spsMap'.data = spsMap.data,
         ppsMap'.ps = ppsMap.ps, ppsMap'.data = ppsMap.data,
         ppsMap'.made = ppsMap.made, sent'.old = sent.old
  PROVE  Unmade' /\ PcvFits' /\ pcv'[ppsMap.ps[d.id]] = e.size
<1>1. /\ d.id \in PpsIds /\ d.id = slice.pps /\ d = GetPS(ppsMap, d.id)
      /\ e = GetPS(spsMap, d.sps) /\ e.id = d.sps
      /\ ppsMap.ps[d.id] \in 1 .. ppsMap.made
      /\ spsMap.ps[e.id] \in 1 .. spsMap.made
  BY DEF Named
<1>2. Present(ppsMap, d.id) /\ Present(spsMap, d.sps)
  BY <1>1 DEF Present, Null
<1>3. ppsMap.made \in 0 .. MaxMade /\ MaxMade \in Nat
  BY MapFacts
<1>4. /\ ppsMap.ps[d.id] \in 1 .. MaxMade
      /\ \A o \in 1 .. MaxMade : o # ppsMap.ps[d.id] => pcv'[o] = pcv[o]
      /\ pcv'[ppsMap.ps[d.id]] = IF pcv[ppsMap.ps[d.id]] = NoSize
                                 THEN e.size ELSE pcv[ppsMap.ps[d.id]]
  <2>1. ppsMap.ps[d.id] \in 1 .. MaxMade
    BY <1>1, <1>3
  <2>2. pcv \in [1 .. MaxMade -> Nat]
    BY DEF IInv, TypeOK
  <2> QED
    BY <2>1, <2>2 DEF WithPcv
<1>5. pcv'[ppsMap.ps[d.id]] = e.size
  <2>1. d.id \notin sent.old
    BY <1>1 DEF PInv, WaitsNew
  <2>2. pcv[ppsMap.ps[d.id]] = NoSize \/ pcv[ppsMap.ps[d.id]] = e.size
    BY <1>1, <1>2, <2>1 DEF PInv, PcvFits
  <2> QED
    BY <1>4, <2>2
<1>6. Unmade'
  BY <1>1, <1>3, <1>4 DEF PInv, Unmade
<1>7. PcvFits'
  <2> SUFFICES ASSUME NEW i \in PpsIds \ sent.old, Present(ppsMap, i)
               PROVE  LET s == GetPS(ppsMap, i).sps
                          v == pcv'[ppsMap.ps[i]]
                      IN  v = NoSize \/ (Present(spsMap, s) /\ v = GetPS(spsMap, s).size)
    BY DEF PcvFits, Present, GetPS
  <2>1. CASE i = d.id
    BY <1>1, <1>2, <1>5, <2>1
  <2>2. CASE i # d.id
    <3>1. ppsMap.ps[i] \in 1 .. ppsMap.made /\ ppsMap.ps[i] # ppsMap.ps[d.id]
      BY <1>1, <2>2, MapFacts
    <3>2. pcv'[ppsMap.ps[i]] = pcv[ppsMap.ps[i]]
      BY <1>3, <1>4, <3>1
    <3> QED
      BY <3>2 DEF PInv, PcvFits
  <2> QED
    BY <2>1, <2>2
<1> QED
  BY <1>5, <1>6, <1>7

\* A picture is taken for the waiting slice.
LEMMA TakePicturePcv ==
  ASSUME IInv, AInv, PInv, status = "run", NEW slice \in next, NEW b \in Pictures,
         NEW p \in Pics, p.sps = Null \/ (b \in InList /\ p = pics[b]),
         Activates(slice, GetPS(ppsMap, slice.pps).sps),
         TakePicture(b, p, slice)
  PROVE  PInv'
<1> DEFINE d == GetPS(ppsMap, slice.pps)
           e == GetPS(spsMap, d.sps)
<1>1. Taken(b, slice, d, e)
  BY TakeDoes
<1>2. e = spsMap.data[spsMap.ps[e.id]]
  BY <1>1 DEF Taken, Named, GetPS
<1> HIDE DEF d, e
<1>3. /\ Named(slice, d, e) /\ pcv' = WithPcv(ppsMap.ps[d.id], e.size)
      /\ pics'[b].sps = spsMap.ps[e.id] /\ pics'[b].pps = ppsMap.ps[d.id]
      /\ spsMap'.ps = spsMap.ps /\ spsMap'.data = spsMap.data
      /\ ppsMap'.ps = ppsMap.ps /\ ppsMap'.data = ppsMap.data
      /\ ppsMap'.made = ppsMap.made /\ sent'.old = sent.old
      /\ open' = b /\ next' = {}
  BY <1>1 DEF Taken, Cleared
<1>4. Unmade' /\ PcvFits' /\ pcv'[ppsMap.ps[d.id]] = e.size
  BY <1>3, PcvMade
<1>5. PcvRight' /\ WaitsNew'
  BY <1>2, <1>3, <1>4 DEF PcvRight, WaitsNew
<1> QED
  BY <1>4, <1>5 DEF PInv

\* A picture starts, or the sets cannot be made active.
LEMMA StartPcv ==
  ASSUME IInv, AInv, PInv,
         RejectActivation \/ \E b \in Pictures : StartInNewPicture(b) \/ StartInOldPicture(b)
  PROVE  PInv'
<1>1. CASE RejectActivation
  <2>1. PICK slice \in next :
          /\ spsMap' = ClearChanged(spsMap, GetPS(ppsMap, slice.pps).sps)
          /\ ppsMap' = ClearChanged(ppsMap, slice.pps)
          /\ pcv' = WithPcv(ppsMap.ps[slice.pps], GetPS(spsMap, GetPS(ppsMap, slice.pps).sps).size)
          /\ UNCHANGED <<pics, open, next, sent>>
    BY <1>1 DEF RejectActivation
  <2> DEFINE d == GetPS(ppsMap, slice.pps)
             e == GetPS(spsMap, d.sps)
  <2>2. Named(slice, d, e)
    BY SliceNames
  <2>3. /\ spsMap \in Maps(SpsIds, MaxMade, SpsNals) /\ d.sps \in SpsIds
        /\ spsMap' = ClearChanged(spsMap, d.sps)
        /\ MaxMade \in Nat /\ open = NoPicture
    BY <2>1, <2>2 DEF IInv, TypeOK, Named
  <2>4. /\ ppsMap \in Maps(PpsIds, MaxMade, PpsNals) /\ slice.pps \in PpsIds
        /\ MaxMade \in Nat
    BY <2>2 DEF IInv, TypeOK, Named
  <2> HIDE DEF d, e
  <2>5. Cleared(SpsIds, spsMap, spsMap', d.sps)
    BY <2>3, ClearedDoes
  <2>6. Cleared(PpsIds, ppsMap, ppsMap', slice.pps)
    BY <2>1, <2>4, ClearedDoes
  <2>7. pcv' = WithPcv(ppsMap.ps[d.id], e.size)
    BY <2>1, <2>2 DEF d, e, Named
  <2>8. Unmade' /\ PcvFits'
    BY <2>1, <2>2, <2>5, <2>6, <2>7, PcvMade DEF Cleared
  <2>9. PcvRight' /\ WaitsNew'
    BY <2>1, <2>3 DEF PInv, PcvRight, WaitsNew
  <2> QED
    BY <2>8, <2>9 DEF PInv
<1>2. ASSUME NEW b \in Pictures, StartInNewPicture(b) \/ StartInOldPicture(b)
      PROVE  PInv'
  <2>1. PICK slice \in next, p \in Pics :
          /\ status = "run"
          /\ Activates(slice, GetPS(ppsMap, slice.pps).sps)
          /\ p.sps = Null \/ (b \in InList /\ p = pics[b])
          /\ TakePicture(b, p, slice)
    BY <1>2, StartTakes
  <2> QED
    BY <2>1, TakePicturePcv
<1> QED
  BY <1>1, <1>2

\* Nothing is stored and no slice waits.
LEMMA InitPcv == Init => PInv
<1> SUFFICES ASSUME Init PROVE PInv
  OBVIOUS
<1>1. \A i \in PpsIds : ~Present(ppsMap, i)
  BY DEF Init, EmptyMap, Present
<1>2. Unmade /\ WaitsNew /\ PcvRight
  BY DEF Init, Unmade, WaitsNew, PcvRight
<1> QED
  BY <1>1, <1>2 DEF PInv, PcvFits

\* Every step keeps the precalculated values fitting.
LEMMA NextPcv ==
  IInv /\ AInv /\ PInv /\ ChangesAtIdr /\ PpsFollowsSps /\ [Next]_vars => PInv'
<1> SUFFICES ASSUME IInv, AInv, PInv, ChangesAtIdr, PpsFollowsSps, [Next]_vars
             PROVE  PInv'
  OBVIOUS
<1>1. ASSUME NEW d \in SpsNals, DecodeSPS(d) PROVE PInv'
  BY <1>1, DecodeSPSPcv
<1>2. ASSUME NEW d \in PpsNals, DecodePPS(d) PROVE PInv'
  BY <1>2, DecodePPSPcv
<1>3. CASE \/ \E kind \in Kinds, i \in PpsIds : FindNewPicture(kind, i)
           \/ \E i \in PpsIds : RejectSlice(i)
           \/ \E b \in Pictures : ReleasePicture(b)
           \/ EndSequence
           \/ EndOfFile
  BY <1>3, EndsPcv
<1>4. CASE RejectActivation \/ \E b \in Pictures : StartInNewPicture(b) \/ StartInOldPicture(b)
  BY <1>4, StartPcv
<1>5. CASE ContinuePicture
  <2>1. MayFinish
    BY Alive
  <2>2. UNCHANGED <<maps, pics, open, next>>
    BY <1>5, <2>1 DEF ContinuePicture
  <2>3. sent'.old = sent.old
    BY <1>5, <2>1 DEF ContinuePicture, IInv, TypeOK, Sent
  <2> QED
    BY <2>2, <2>3, PcvKept
<1>6. CASE UNCHANGED vars
  <2>1. UNCHANGED <<maps, pics, open, next, sent>>
    BY <1>6 DEF vars, maps
  <2> QED
    BY <2>1, PcvKept
<1> QED
  BY <1>1, <1>2, <1>3, <1>4, <1>5, <1>6 DEF Next, Done

\* For the bitstreams that also send a PPS in use again when its SPS has
\* changed, the precalculated values of the open picture are those of its SPS
\* (PcvRight).
THEOREM PcvOfSps == ASSUME ChangesAtIdr, PpsFollowsSps PROVE Spec => []PcvRight
<1>1. IInv /\ AInv /\ PInv /\ [Next]_vars => IInv' /\ AInv' /\ PInv'
  BY NextOK, NextAct, NextPcv
<1>2. Init => IInv /\ AInv /\ PInv
  BY InitOK, InitAct, InitPcv
<1>3. PInv => PcvRight
  BY DEF PInv
<1> QED
  BY <1>1, <1>2, <1>3, PTL DEF Spec
=============================================================================
