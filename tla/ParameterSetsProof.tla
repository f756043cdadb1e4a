------------------------- MODULE ParameterSetsProof -------------------------
(***************************************************************************)
(* For every bitstream, the manager of the parameter sets owns each of     *)
(* them once and holds, for every id, the contents last sent.              *)
(***************************************************************************)
EXTENDS ParameterSets, TLAPS

-----------------------------------------------------------------------------
(* Lemmas about one map.                                                   *)

\* The empty map.
LEMMA EmptyMapOK ==
  ASSUME NEW Ids, Ids \subseteq Nat, NEW max \in Nat, NEW nals, NEW any \in nals
  PROVE  /\ EmptyMap(Ids, max, any) \in Maps(Ids, max, nals)
         /\ OwnedOnce(EmptyMap(Ids, max, any))
         /\ \A i \in Ids : ~Present(EmptyMap(Ids, max, any), i)
BY SMT DEF EmptyMap, Maps, OwnedOnce, Owners, Present, Null, NoId

\* n is the map m with one more object, which nobody owns.
Allocated(Ids, max, nals, m, n, nal) ==
  /\ n \in Maps(Ids, max, nals)
  /\ m.made + 1 \in 1 .. max
  /\ n.ps = m.ps /\ n.changed = m.changed
  /\ n.active = m.active /\ n.last = m.last
  /\ n.made = m.made + 1
  /\ n.live = m.live \cup {m.made + 1}
  /\ n.data[m.made + 1] = nal
  /\ m.made + 1 \notin Owners(m)
  /\ \A i \in Ids : m.ps[i] \in m.live \/ m.ps[i] = Null
  /\ \A i \in Ids : Present(m, i) => n.data[m.ps[i]] = m.data[m.ps[i]]

\* An object just allocated is owned by nobody.
LEMMA AllocateOK ==
  ASSUME NEW Ids, NEW max \in Nat, NEW nals, NEW m \in Maps(Ids, max, nals),
         NEW nal \in nals, m.made < max, OwnedOnce(m)
  PROVE  Allocated(Ids, max, nals, m, Allocate(m, nal), nal)
<1> DEFINE n == Allocate(m, nal)
<1>1. m.live \subseteq 1 .. m.made /\ m.made \in Nat
  BY DEF OwnedOnce, Maps
<1>2. \A i \in Ids : m.ps[i] \in Owners(m)
  BY DEF Owners, Maps
<1>3. m.last \in Owners(m)
  BY DEF Owners
<1>4. \A x \in Owners(m) : x \in m.live \/ x = Null
  BY DEF OwnedOnce
<1>5. m.made + 1 \notin Owners(m)
  BY <1>1, <1>4, SMT DEF Null
<1>6. /\ n.ps = m.ps /\ n.changed = m.changed
      /\ n.active = m.active /\ n.last = m.last
      /\ n.made = m.made + 1
      /\ n.live = m.live \cup {m.made + 1}
      /\ n.data = [m.data EXCEPT ![m.made + 1] = nal]
  BY DEF Allocate, Maps
<1>7. m.made + 1 \in 1 .. max
  BY <1>1
<1>8. n.data \in [1 .. max -> nals] /\ n.data[m.made + 1] = nal
  BY <1>6, <1>7 DEF Maps
<1>9. n \in Maps(Ids, max, nals)
  <2>1. m.made + 1 \in 0 .. max /\ m.live \cup {m.made + 1} \in SUBSET (1 .. max)
    BY <1>7 DEF Maps
  <2>2. [m.data EXCEPT ![m.made + 1] = nal] \in [1 .. max -> nals]
    BY <1>7 DEF Maps
  <2>3. [m EXCEPT !.made = m.made + 1, !.live = m.live \cup {m.made + 1},
                  !.data = [m.data EXCEPT ![m.made + 1] = nal]] \in Maps(Ids, max, nals)
    BY <2>1, <2>2 DEF Maps
  <2> QED
    BY <2>3 DEF Allocate
<1>10. ASSUME NEW i \in Ids
       PROVE  /\ m.ps[i] \in m.live \/ m.ps[i] = Null
              /\ Present(m, i) => n.data[m.ps[i]] = m.data[m.ps[i]]
  <2>1. m.ps[i] \in m.live \/ m.ps[i] = Null
    BY <1>2, <1>4
  <2>2. Present(m, i) => m.ps[i] \in 1 .. max /\ m.ps[i] # m.made + 1
    BY <2>1, <1>1, <1>7 DEF Present, Maps
  <2> QED
    BY <2>1, <2>2, <1>6 DEF Maps
<1> QED
  BY <1>5, <1>6, <1>7, <1>8, <1>9, <1>10 DEF Allocated

\* r is owned once, and is n with the object o for the id.
Replaced(Ids, max, nals, n, r, id, o) ==
  /\ r \in Maps(Ids, max, nals)
  /\ OwnedOnce(r)
  /\ r.ps = [n.ps EXCEPT ![id] = o]
  /\ r.data = n.data

\* The object just allocated takes the place of the one of an id, which is
\* deleted or kept for the one kept so far.
LEMMA ReplaceOK ==
  ASSUME NEW Ids, NEW max \in Nat, NEW nals, NEW m \in Maps(Ids, max, nals),
         NEW n, NEW nal, NEW id \in Ids, OwnedOnce(m), Present(m, id),
         Allocated(Ids, max, nals, m, n, nal)
  PROVE  Replaced(Ids, max, nals, n, Replace(n, id, m.made + 1), id, m.made + 1)
<1> DEFINE o == m.made + 1
<1>0. /\ n \in Maps(Ids, max, nals) /\ o \in 1 .. max
      /\ n.ps = m.ps /\ n.active = m.active /\ n.last = m.last
      /\ n.made = o /\ n.live = m.live \cup {o} /\ o \notin Owners(m)
  BY DEF Allocated
<1> HIDE DEF o
<1> DEFINE r == Replace(n, id, o)
           p == [m.ps EXCEPT ![id] = o]
           c == [n.changed EXCEPT ![id] = TRUE]
<1>1. p \in [Ids -> 0 .. max] /\ c \in [Ids -> BOOLEAN]
  BY <1>0 DEF Maps
<1>2. m.ps[id] \in 0 .. max /\ m.last \in 0 .. max /\ o # Null
  BY <1>0 DEF Maps, Null
<1>3. CASE m.active = id
  <2>1. r = [n EXCEPT !.live = n.live \ {m.last}, !.last = m.ps[id], !.ps = p, !.changed = c]
    BY <1>0, <1>3 DEF Replace, Delete, Maps
  <2>2. n.live \ {m.last} \in SUBSET (1 .. max)
    BY <1>0 DEF Maps
  <2>3. r \in Maps(Ids, max, nals)
    BY <1>0, <2>1, <2>2, <1>1, <1>2 DEF Maps
  <2>4. /\ r.ps = p /\ r.last = m.ps[id] /\ r.made = o /\ r.data = n.data
        /\ r.live = (m.live \cup {o}) \ {m.last}
    BY <1>0, <2>1 DEF Maps
  <2>5. OwnedOnce(r)
    <3> HIDE DEF r
    <3>1. DOMAIN m.ps = Ids /\ DOMAIN r.ps = Ids
      BY <1>0, <2>4 DEF Maps
    <3>2. \A i \in Ids : p[i] = IF i = id THEN o ELSE m.ps[i]
      BY <1>0 DEF Maps
    <3>3. r.live = Owners(r) \ {Null}
      BY <1>0, <3>1, <3>2, <2>4, <1>2 DEF OwnedOnce, Owners, Present
    <3>4. r.live \subseteq 1 .. r.made
      BY <1>0, <2>4 DEF OwnedOnce, Maps, o
    <3>5. \A i, j \in Ids : i # j /\ p[i] = p[j] => p[i] = Null
      BY <1>0, <3>1, <3>2 DEF OwnedOnce, Owners
    <3>6. \A i \in Ids : p[i] = m.ps[id] => m.ps[id] = Null
      BY <1>0, <3>1, <3>2 DEF OwnedOnce, Owners
    <3> QED
      BY <1>0, <3>1, <3>3, <3>4, <3>5, <3>6, <2>4 DEF OwnedOnce
  <2> QED
    BY <1>0, <2>3, <2>4, <2>5 DEF Replaced, o
<1>4. CASE m.active # id
  <2>1. r = [n EXCEPT !.live = n.live \ {m.ps[id]}, !.ps = p, !.changed = c]
    BY <1>0, <1>4 DEF Replace, Delete, Maps
  <2>2. n.live \ {m.ps[id]} \in SUBSET (1 .. max)
    BY <1>0 DEF Maps
  <2>3. r \in Maps(Ids, max, nals)
    BY <1>0, <2>1, <2>2, <1>1, <1>2 DEF Maps
  <2>4. /\ r.ps = p /\ r.last = m.last /\ r.made = o /\ r.data = n.data
        /\ r.live = (m.live \cup {o}) \ {m.ps[id]}
    BY <1>0, <2>1 DEF Maps
  <2>5. OwnedOnce(r)
    <3> HIDE DEF r
    <3>1. DOMAIN m.ps = Ids /\ DOMAIN r.ps = Ids
      BY <1>0, <2>4 DEF Maps
    <3>2. \A i \in Ids : p[i] = IF i = id THEN o ELSE m.ps[i]
      BY <1>0 DEF Maps
    <3>3. r.live = Owners(r) \ {Null}
      BY <1>0, <3>1, <3>2, <2>4, <1>2 DEF OwnedOnce, Owners, Present
    <3>4. r.live \subseteq 1 .. r.made
      BY <1>0, <2>4 DEF OwnedOnce, Maps, o
    <3>5. \A i, j \in Ids : i # j /\ p[i] = p[j] => p[i] = Null
      BY <1>0, <3>1, <3>2 DEF OwnedOnce, Owners
    <3>6. \A i \in Ids : p[i] = m.last => m.last = Null
      BY <1>0, <3>1, <3>2 DEF OwnedOnce, Owners
    <3> QED
      BY <1>0, <3>1, <3>3, <3>4, <3>5, <3>6, <2>4 DEF OwnedOnce
  <2> QED
    BY <1>0, <2>3, <2>4, <2>5 DEF Replaced, o
<1> QED
  BY <1>0, <1>3, <1>4 DEF o, Replaced

\* r is owned once, and is m with the contents nal for the id.
Stored(Ids, max, nals, m, r, id, nal) ==
  /\ r \in Maps(Ids, max, nals)
  /\ OwnedOnce(r)
  /\ Present(r, id) /\ GetPS(r, id) = nal
  /\ \A i \in Ids \ {id} :
       /\ Present(r, i) <=> Present(m, i)
       /\ Present(m, i) => GetPS(r, i) = GetPS(m, i)

\* storePS keeps the ownership, stores the contents for the id and leaves the
\* other ids alone.
LEMMA StoreOK ==
  ASSUME NEW Ids, NEW max \in Nat, NEW nals, NEW m \in Maps(Ids, max, nals),
         NEW id \in Ids, NEW nal \in nals, m.made < max, OwnedOnce(m)
  PROVE  Stored(Ids, max, nals, m, StorePS(m, id, nal), id, nal)
<1> DEFINE r == StorePS(m, id, nal)
           o == m.made + 1
           p == [m.ps EXCEPT ![id] = o]
           n == Allocate(m, nal)
<1>0. Allocated(Ids, max, nals, m, n, nal)
  BY AllocateOK
<1>1. /\ n \in Maps(Ids, max, nals)
      /\ o \in 1 .. max
      /\ n.ps = m.ps /\ n.changed = m.changed
      /\ n.active = m.active /\ n.last = m.last
      /\ n.made = o
      /\ n.live = m.live \cup {o}
      /\ n.data[o] = nal
      /\ o \notin Owners(m)
      /\ \A i \in Ids : m.ps[i] \in m.live \/ m.ps[i] = Null
      /\ \A i \in Ids : Present(m, i) => n.data[m.ps[i]] = m.data[m.ps[i]]
  BY <1>0 DEF Allocated
<1> HIDE DEF n
<1>2. /\ p \in [Ids -> 0 .. max]
      /\ \A i \in Ids : p[i] = IF i = id THEN o ELSE m.ps[i]
      /\ DOMAIN m.ps = Ids
      /\ o # Null
  BY <1>1 DEF Maps, Null
<1>3. CASE ~Present(m, id)
  <2>1. r = [n EXCEPT !.ps = p, !.changed = [n.changed EXCEPT ![id] = FALSE]]
    BY <1>1, <1>3 DEF StorePS, n, Maps
  <2>2. [n.changed EXCEPT ![id] = FALSE] \in [Ids -> BOOLEAN]
    BY <1>1 DEF Maps
  <2>3. r \in Maps(Ids, max, nals)
    BY <2>1, <2>2, <1>1, <1>2 DEF Maps
  <2>4. /\ r.ps = p /\ r.last = m.last /\ r.made = o /\ r.data = n.data
        /\ r.live = m.live \cup {o}
    BY <2>1, <1>1 DEF Maps
  <2> HIDE DEF r, p
  <2>5. OwnedOnce(r)
    <3>1. DOMAIN r.ps = Ids
      BY <2>4, <1>2
    <3>2. r.live = Owners(r) \ {Null}
      BY <3>1, <2>4, <1>2, <1>3 DEF OwnedOnce, Owners, Present
    <3>3. r.live \subseteq 1 .. r.made
      BY <2>4, <1>1 DEF OwnedOnce, Maps
    <3>4. \A i, j \in Ids : i # j /\ p[i] = p[j] => p[i] = Null
      BY <1>1, <1>2 DEF OwnedOnce, Owners
    <3>5. \A i \in Ids : p[i] = m.last => m.last = Null
      BY <1>1, <1>2 DEF OwnedOnce, Owners
    <3> QED
      BY <3>1, <3>2, <3>3, <3>4, <3>5, <2>4 DEF OwnedOnce
  <2>6. /\ Present(r, id) /\ GetPS(r, id) = nal
        /\ \A i \in Ids \ {id} :
             /\ Present(r, i) <=> Present(m, i)
             /\ Present(m, i) => GetPS(r, i) = GetPS(m, i)
    BY <2>4, <1>1, <1>2 DEF Present, GetPS
  <2> QED
    BY <2>3, <2>5, <2>6 DEF r, Stored
<1>4. CASE Present(m, id) /\ Differs(m, id, nal)
  <2>1. r = Replace(n, id, o)
    BY <1>4 DEF StorePS, n
  <2>0. Replaced(Ids, max, nals, n, Replace(n, id, o), id, o)
    BY <1>0, <1>4, ReplaceOK
  <2>2. /\ r \in Maps(Ids, max, nals)
        /\ OwnedOnce(r)
        /\ r.ps = p
        /\ r.data = n.data
    BY <2>0, <2>1, <1>1 DEF Replaced
  <2> HIDE DEF r, p
  <2>3. /\ Present(r, id) /\ GetPS(r, id) = nal
        /\ \A i \in Ids \ {id} :
             /\ Present(r, i) <=> Present(m, i)
             /\ Present(m, i) => GetPS(r, i) = GetPS(m, i)
    BY <2>2, <1>1, <1>2 DEF Present, GetPS
  <2> QED
    BY <2>2, <2>3 DEF r, Stored
<1>5. CASE Present(m, id) /\ ~Differs(m, id, nal)
  <2>1. r = [n EXCEPT !.live = n.live \ {o}]
    BY <1>5 DEF StorePS, n, Delete
  <2>2. n.live \ {o} \in SUBSET (1 .. max)
    BY <1>1 DEF Maps
  <2>3. r \in Maps(Ids, max, nals)
    BY <2>1, <2>2, <1>1 DEF Maps
  <2>4. /\ r.ps = m.ps /\ r.last = m.last /\ r.made = o /\ r.data = n.data
        /\ r.live = (m.live \cup {o}) \ {o}
    BY <2>1, <1>1 DEF Maps
  <2> HIDE DEF r, p
  <2>5. o \notin m.live /\ m.live \subseteq 1 .. o
    BY <1>1 DEF OwnedOnce, Maps
  <2>6. OwnedOnce(r)
    BY <2>4, <2>5, <1>1 DEF OwnedOnce, Owners
  <2>7. GetPS(m, id) = nal
    BY <1>5 DEF Differs
  <2>8. /\ Present(r, id) /\ GetPS(r, id) = nal
        /\ \A i \in Ids \ {id} :
             /\ Present(r, i) <=> Present(m, i)
             /\ Present(m, i) => GetPS(r, i) = GetPS(m, i)
    BY <2>4, <2>7, <1>1, <1>5 DEF Present, GetPS
  <2> QED
    BY <2>3, <2>6, <2>8 DEF r, Stored
<1> QED
  BY <1>3, <1>4, <1>5 DEF Stored

\* r holds and owns what m does.
SameSets(Ids, max, nals, m, r) ==
  /\ r \in Maps(Ids, max, nals)
  /\ OwnedOnce(m) => OwnedOnce(r)
  /\ r.ps = m.ps /\ r.data = m.data

\* Neither the changed flag nor the active id has to do with the ownership.
LEMMA ClearChangedOK ==
  ASSUME NEW Ids, NEW max \in Nat, NEW nals, NEW m \in Maps(Ids, max, nals),
         NEW id \in Ids
  PROVE  SameSets(Ids, max, nals, m, ClearChanged(m, id))
<1> DEFINE r == ClearChanged(m, id)
<1>1. [m.changed EXCEPT ![id] = FALSE] \in [Ids -> BOOLEAN]
  BY DEF Maps
<1>2. r = [m EXCEPT !.changed = [m.changed EXCEPT ![id] = FALSE]]
  BY DEF ClearChanged
<1>3. r \in Maps(Ids, max, nals)
  BY <1>1, <1>2 DEF Maps
<1>4. r.ps = m.ps /\ r.data = m.data /\ r.live = m.live /\ r.last = m.last /\ r.made = m.made
  BY <1>2 DEF Maps
<1> QED
  BY <1>3, <1>4 DEF SameSets, OwnedOnce, Owners

\* Making an id active leaves the ownership and the contents alone.
LEMMA SetActiveOK ==
  ASSUME NEW Ids, NEW max \in Nat, NEW nals, NEW m \in Maps(Ids, max, nals),
         NEW id \in Ids
  PROVE  SameSets(Ids, max, nals, m, SetActive(m, id))
<1> DEFINE r == SetActive(m, id)
<1>1. r = [m EXCEPT !.active = id]
  BY DEF SetActive
<1>2. r \in Maps(Ids, max, nals)
  BY <1>1 DEF Maps
<1>3. r.ps = m.ps /\ r.data = m.data /\ r.live = m.live /\ r.last = m.last /\ r.made = m.made
  BY <1>1 DEF Maps
<1> QED
  BY <1>2, <1>3 DEF SameSets, OwnedOnce, Owners

-----------------------------------------------------------------------------
(* The state of the decoder.                                               *)

\* The inductive invariant.  Latest ties the maps to the bitstream, so that
\* the sets a slice names are found; Waits carries this to its activation.
IInv == TypeOK /\ Owned /\ Latest /\ Waits

USE ParameterSetsAssumption

\* The empty maps, and the decoder before its first NAL unit.
LEMMA InitOK == Init => IInv
<1> SUFFICES ASSUME Init PROVE IInv
  OBVIOUS
<1>1. (CHOOSE d \in SpsNals : TRUE) \in SpsNals /\ (CHOOSE d \in PpsNals : TRUE) \in PpsNals
  BY DEF Init
<1>2. /\ spsMap \in Maps(SpsIds, MaxMade, SpsNals)
      /\ OwnedOnce(spsMap)
      /\ \A i \in SpsIds : ~Present(spsMap, i)
  BY <1>1, EmptyMapOK DEF Init
<1>3. /\ ppsMap \in Maps(PpsIds, MaxMade, PpsNals)
      /\ OwnedOnce(ppsMap)
      /\ \A i \in PpsIds : ~Present(ppsMap, i)
  BY <1>1, EmptyMapOK DEF Init
<1>4. pics \in [Pictures -> Pics] /\ \A b \in Pictures : pics[b].state = "none"
  BY DEF Init, Pics, PicStates, NoPic, NoSize, Null
<1>5. sent \in Sent
  BY DEF Init, Sent
<1>6. TypeOK
  BY <1>2, <1>3, <1>4, <1>5 DEF Init, TypeOK, NoId, NoSize, NoPicture
<1>7. Latest
  BY <1>2, <1>3 DEF Latest, Init
<1> QED
  BY <1>2, <1>3, <1>6, <1>7 DEF IInv, Owned, Waits, Init

\* Storing an SPS.
LEMMA DecodeSPSOK ==
  ASSUME IInv, NEW d \in SpsNals, DecodeSPS(d)
  PROVE  IInv'
<1>1. /\ spsMap \in Maps(SpsIds, MaxMade, SpsNals) /\ spsMap.made < MaxMade
      /\ OwnedOnce(spsMap) /\ d.id \in SpsIds /\ MaxMade \in Nat
  BY DEF IInv, TypeOK, Owned, DecodeSPS
<1>2. Stored(SpsIds, MaxMade, SpsNals, spsMap, spsMap', d.id, d)
  BY <1>1, StoreOK DEF DecodeSPS
<1>3. /\ next = {} /\ UNCHANGED <<ppsMap, activeSpsId, pcv, pics, open, next, status>>
  BY DEF DecodeSPS, Reading
<1>4. /\ sent' \in Sent
      /\ sent'.sps = [sent.sps EXCEPT ![d.id] = {d}]
      /\ sent'.pps = sent.pps
  <2> DEFINE changes == sent.sps[d.id] \notin {{}, {d}}
             counts == changes \/ sent.spsUpdates[d.id] > 0
             v == IF counts THEN sent.spsUpdates[d.id] + 1 ELSE sent.spsUpdates[d.id]
             u == [sent.spsUpdates EXCEPT ![d.id] = v]
             g == IF changes
                  THEN sent.old \cup {i \in PpsIds : \E q \in sent.pps[i] : q.sps = d.id}
                  ELSE sent.old
             z == [sent.sps EXCEPT ![d.id] = {d}]
  <2>1. sent \in Sent
    BY DEF IInv, TypeOK
  <2>2. sent' = [sent EXCEPT !.sps = z, !.spsUpdates = u, !.old = g]
    BY DEF DecodeSPS
  <2>3. /\ z \in [SpsIds -> SUBSET SpsNals]
        /\ u \in [SpsIds -> Nat]
        /\ g \in SUBSET PpsIds
    <3>1. z \in [SpsIds -> SUBSET SpsNals]
      BY <2>1, <1>1 DEF Sent
    <3>2. u \in [SpsIds -> Nat]
      <4>1. sent.spsUpdates \in [SpsIds -> Nat]
        BY <2>1 DEF Sent
      <4>2. d.id \in SpsIds
        BY <1>1
      <4>3. sent.spsUpdates[d.id] \in Nat
        BY <4>1, <4>2
      <4>4. sent.spsUpdates[d.id] + 1 \in Nat
        BY <4>3
      <4>5. v \in Nat
        BY <4>3, <4>4, Zenon
      <4> HIDE DEF v
      <4> QED
        BY <4>1, <4>5
    <3> HIDE DEF changes
    <3>3. g \in SUBSET PpsIds
      BY <2>1 DEF Sent
    <3> QED
      BY <3>1, <3>2, <3>3
  <2> HIDE DEF z, u, g
  <2>4. sent' \in Sent /\ sent'.sps = z /\ sent'.pps = sent.pps
    BY <2>1, <2>2, <2>3 DEF Sent
  <2> QED
    BY <2>4 DEF z
<1>5. TypeOK'
  BY <1>2, <1>3, <1>4 DEF IInv, TypeOK, Stored
<1>6. Owned'
  BY <1>2, <1>3 DEF IInv, Owned, Stored
<1>7. Latest'
  <2>1. ASSUME NEW i \in SpsIds
        PROVE  sent'.sps[i] = IF Present(spsMap', i) THEN {GetPS(spsMap', i)} ELSE {}
    <3>1. CASE i = d.id
      BY <3>1, <1>1, <1>2, <1>4 DEF IInv, TypeOK, Sent, Stored
    <3>2. CASE i # d.id
      <4>1. sent'.sps[i] = sent.sps[i]
        BY <3>2, <1>4 DEF IInv, TypeOK, Sent
      <4>2. /\ Present(spsMap', i) <=> Present(spsMap, i)
            /\ Present(spsMap, i) => GetPS(spsMap', i) = GetPS(spsMap, i)
        BY <3>2, <1>2 DEF Stored
      <4> QED
        BY <4>1, <4>2 DEF IInv, Latest
    <3> QED
      BY <3>1, <3>2
  <2> QED
    BY <2>1, <1>3, <1>4 DEF IInv, Latest, Present, GetPS
<1>8. Waits'
  BY <1>3 DEF Waits
<1> QED
  BY <1>5, <1>6, <1>7, <1>8 DEF IInv

\* Storing a PPS.
LEMMA DecodePPSOK ==
  ASSUME IInv, NEW d \in PpsNals, DecodePPS(d)
  PROVE  IInv'
<1>1. /\ ppsMap \in Maps(PpsIds, MaxMade, PpsNals) /\ ppsMap.made < MaxMade
      /\ OwnedOnce(ppsMap) /\ d.id \in PpsIds /\ MaxMade \in Nat
  BY DEF IInv, TypeOK, Owned, DecodePPS
<1>2. Stored(PpsIds, MaxMade, PpsNals, ppsMap, ppsMap', d.id, d)
  BY <1>1, StoreOK DEF DecodePPS
<1>3. /\ next = {} /\ UNCHANGED <<spsMap, activeSpsId, pcv, pics, open, next, status>>
  BY DEF DecodePPS, Reading
<1>4. /\ sent' \in Sent
      /\ sent'.pps = [sent.pps EXCEPT ![d.id] = {d}]
      /\ sent'.sps = sent.sps
  <2> DEFINE changes == sent.pps[d.id] \notin {{}, {d}}
             counts == changes \/ sent.ppsUpdates[d.id] > 0
             v == IF counts THEN sent.ppsUpdates[d.id] + 1 ELSE sent.ppsUpdates[d.id]
             u == [sent.ppsUpdates EXCEPT ![d.id] = v]
             g == IF changes THEN sent.old \ {d.id} ELSE sent.old
             z == [sent.pps EXCEPT ![d.id] = {d}]
  <2>1. sent \in Sent
    BY DEF IInv, TypeOK
  <2>2. sent' = [sent EXCEPT !.pps = z, !.ppsUpdates = u, !.old = g]
    BY DEF DecodePPS
  <2>3. /\ z \in [PpsIds -> SUBSET PpsNals]
        /\ u \in [PpsIds -> Nat]
        /\ g \in SUBSET PpsIds
    <3>1. z \in [PpsIds -> SUBSET PpsNals]
      BY <2>1, <1>1 DEF Sent
    <3>2. u \in [PpsIds -> Nat]
      <4>1. sent.ppsUpdates \in [PpsIds -> Nat]
        BY <2>1 DEF Sent
      <4>2. d.id \in PpsIds
        BY <1>1
      <4>3. sent.ppsUpdates[d.id] \in Nat
        BY <4>1, <4>2
      <4>4. sent.ppsUpdates[d.id] + 1 \in Nat
        BY <4>3
      <4>5. v \in Nat
        BY <4>3, <4>4, Zenon
      <4> HIDE DEF v
      <4> QED
        BY <4>1, <4>5
    <3> HIDE DEF changes
    <3>3. g \in SUBSET PpsIds
      BY <2>1 DEF Sent
    <3> QED
      BY <3>1, <3>2, <3>3
  <2> HIDE DEF z, u, g
  <2>4. sent' \in Sent /\ sent'.pps = z /\ sent'.sps = sent.sps
    BY <2>1, <2>2, <2>3 DEF Sent
  <2> QED
    BY <2>4 DEF z
<1>5. TypeOK'
  BY <1>2, <1>3, <1>4 DEF IInv, TypeOK, Stored
<1>6. Owned'
  BY <1>2, <1>3 DEF IInv, Owned, Stored
<1>7. Latest'
  <2>1. ASSUME NEW i \in PpsIds
        PROVE  sent'.pps[i] = IF Present(ppsMap', i) THEN {GetPS(ppsMap', i)} ELSE {}
    <3>1. CASE i = d.id
      BY <3>1, <1>1, <1>2, <1>4 DEF IInv, TypeOK, Sent, Stored
    <3>2. CASE i # d.id
      <4>1. sent'.pps[i] = sent.pps[i]
        BY <3>2, <1>4 DEF IInv, TypeOK, Sent
      <4>2. /\ Present(ppsMap', i) <=> Present(ppsMap, i)
            /\ Present(ppsMap, i) => GetPS(ppsMap', i) = GetPS(ppsMap, i)
        BY <3>2, <1>2 DEF Stored
      <4> QED
        BY <4>1, <4>2 DEF IInv, Latest
    <3> QED
      BY <3>1, <3>2
  <2> QED
    BY <2>1, <1>3, <1>4 DEF IInv, Latest, Present, GetPS
<1>8. Waits'
  BY <1>3 DEF Waits
<1> QED
  BY <1>5, <1>6, <1>7, <1>8 DEF IInv

\* A step that leaves the maps, the history and the waiting slice alone.
LEMMA PicturesOK ==
  ASSUME IInv, UNCHANGED <<maps, sent>>,
         pics' \in [Pictures -> Pics], open' \in Pictures \cup {NoPicture},
         {b \in Pictures : pics'[b].state = "open"} = {open'} \ {NoPicture},
         next' \in SUBSET [kind : Kinds, pps : PpsIds],
         status' \in {"run", "done", "missing", "inactive", "changed", "fault"},
         Waits'
  PROVE  IInv'
<1>1. TypeOK'
  BY DEF IInv, TypeOK, maps
<1>2. spsMap' = spsMap /\ ppsMap' = ppsMap /\ sent' = sent
  BY DEF maps
<1>3. Owned'
  BY <1>2 DEF IInv, Owned
<1>4. Latest'
  BY <1>2 DEF IInv, Latest
<1> QED
  BY <1>1, <1>3, <1>4 DEF IInv

\* The decoder stops at a set that is gone: nothing but the status changes.
LEMMA FaultOK == IInv /\ Fault => IInv'
<1> SUFFICES ASSUME IInv, Fault PROVE IInv'
  OBVIOUS
<1>1. UNCHANGED <<maps, pics, open, next, sent>> /\ status' = "fault"
  BY DEF Fault
<1>2. Waits'
  BY <1>1 DEF IInv, Waits, maps, Present, GetPS
<1> QED
  BY <1>1, <1>2, PicturesOK DEF IInv, TypeOK

\* No picture is open once the open picture is finished or all are flushed.
LEMMA FinishedOK ==
  ASSUME IInv
  PROVE  /\ FinishedPics \in [Pictures -> Pics]
         /\ FlushedPics \in [Pictures -> Pics]
         /\ \A b \in Pictures : FinishedPics[b].state # "open" /\ FlushedPics[b].state # "open"
<1>1. /\ pics \in [Pictures -> Pics] /\ open \in Pictures \cup {NoPicture}
      /\ {b \in Pictures : pics[b].state = "open"} = {open} \ {NoPicture}
  BY DEF IInv, TypeOK
<1>2. NoPic \in Pics /\ NoPic.state # "open"
  BY DEF NoPic, Pics, PicStates, NoSize, Null
<1>3. FlushedPics \in [Pictures -> Pics] /\ \A b \in Pictures : FlushedPics[b].state # "open"
  BY <1>2 DEF FlushedPics
<1>4. CASE open = NoPicture
  BY <1>1, <1>3, <1>4 DEF FinishedPics
<1>5. CASE open # NoPicture
  <2> DEFINE q == [pics[open] EXCEPT !.state = "held"]
  <2>1. q \in Pics /\ q.state = "held"
    BY <1>1, <1>5 DEF Pics, PicStates
  <2>2. FinishedPics = [pics EXCEPT ![open] = q]
    BY <1>5 DEF FinishedPics
  <2> HIDE DEF q
  <2> QED
    BY <1>1, <1>3, <1>5, <2>1, <2>2
<1> QED
  BY <1>4, <1>5

\* The sets that a slice names are there.
LEMMA FindNewPictureOK ==
  ASSUME IInv, NEW kind \in Kinds, NEW i \in PpsIds, FindNewPicture(kind, i)
  PROVE  IInv'
<1>1. CASE MayFinish /\ (kind = "IDR" => MayFlush)
  <2>1. /\ next' = {[kind |-> kind, pps |-> i]}
        /\ pics' \in {FlushedPics, FinishedPics}
        /\ open' = NoPicture
        /\ UNCHANGED <<maps, status, sent>>
    BY <1>1 DEF FindNewPicture
  <2>2. /\ Present(ppsMap, i)
        /\ Present(spsMap, GetPS(ppsMap, i).sps)
    <3>1. PICK d \in sent.pps[i] : \E e \in sent.sps[d.sps] : TRUE
      BY DEF FindNewPicture
    <3>2. Present(ppsMap, i) /\ d = GetPS(ppsMap, i)
      <4>1. sent.pps[i] = IF Present(ppsMap, i) THEN {GetPS(ppsMap, i)} ELSE {}
        BY DEF IInv, Latest
      <4> QED
        BY <3>1, <4>1
    <3>3. d \in PpsNals /\ d.sps \in SpsIds
      BY <3>1 DEF IInv, TypeOK, Sent, ParameterSetsAssumption
    <3>4. Present(spsMap, d.sps)
      <4>1. sent.sps[d.sps] = IF Present(spsMap, d.sps) THEN {GetPS(spsMap, d.sps)} ELSE {}
        BY <3>3 DEF IInv, Latest
      <4> QED
        BY <3>1, <4>1
    <3> QED
      BY <3>2, <3>4
  <2>3. Waits'
    BY <2>1, <2>2 DEF Waits, maps, Present, GetPS
  <2>4. pics' \in [Pictures -> Pics] /\ \A b \in Pictures : pics'[b].state # "open"
    BY <2>1, FinishedOK
  <2>5. next' \in SUBSET [kind : Kinds, pps : PpsIds]
    BY <2>1
  <2> QED
    BY <2>1, <2>3, <2>4, <2>5, PicturesOK DEF IInv, TypeOK
<1>2. CASE ~(MayFinish /\ (kind = "IDR" => MayFlush))
  <2>1. Fault
    BY <1>2 DEF FindNewPicture
  <2> QED
    BY <2>1, FaultOK
<1> QED
  BY <1>1, <1>2

\* The end of the sequence and of the file, the output of a picture and the
\* slices that are rejected.
LEMMA EndsOK ==
  ASSUME IInv,
         \/ EndSequence
         \/ EndOfFile
         \/ \E b \in Pictures : ReleasePicture(b)
         \/ \E i \in PpsIds : RejectSlice(i)
  PROVE  IInv'
<1>1. next = {} /\ status = "run"
  BY DEF EndSequence, EndOfFile, ReleasePicture, RejectSlice, Reading
<1>2. CASE Fault
  BY <1>2, FaultOK
<1>3. CASE /\ pics' \in {FinishedPics, FlushedPics}
           /\ open' = NoPicture
           /\ status' \in {"run", "done"}
           /\ UNCHANGED <<maps, next, sent>>
  <2>1. pics' \in [Pictures -> Pics] /\ \A b \in Pictures : pics'[b].state # "open"
    BY <1>3, FinishedOK
  <2>2. Waits'
    BY <1>1, <1>3 DEF Waits
  <2> QED
    BY <1>1, <1>3, <2>1, <2>2, PicturesOK
<1>4. ASSUME NEW b \in Pictures, ReleasePicture(b), ~Fault
      PROVE  IInv'
  <2> DEFINE q == [pics[b] EXCEPT !.state = "free"]
  <2>1. /\ pics[b].state = "held"
        /\ pics' = [pics EXCEPT ![b] = q]
        /\ UNCHANGED <<maps, open, next, status, sent>>
    BY <1>4 DEF ReleasePicture
  <2>2. pics \in [Pictures -> Pics]
    BY DEF IInv, TypeOK
  <2>3. q \in Pics /\ q.state = "free"
    BY <2>2 DEF Pics, PicStates
  <2> HIDE DEF q
  <2>4. pics' \in [Pictures -> Pics]
    BY <2>1, <2>2, <2>3
  <2>5. {c \in Pictures : pics'[c].state = "open"} = {c \in Pictures : pics[c].state = "open"}
    BY <2>1, <2>2, <2>3
  <2>6. Waits'
    BY <1>1, <2>1 DEF Waits
  <2> QED
    BY <1>1, <2>1, <2>4, <2>5, <2>6, PicturesOK DEF IInv, TypeOK
<1>5. ASSUME NEW i \in PpsIds, RejectSlice(i)
      PROVE  IInv'
  <2>1. status' = "missing" /\ UNCHANGED <<maps, pics, open, next, sent>>
    BY <1>5 DEF RejectSlice
  <2>2. Waits'
    BY <1>1, <2>1 DEF Waits
  <2> QED
    BY <2>1, <2>2, PicturesOK DEF IInv, TypeOK
<1>6. EndSequence => Fault \/ (/\ pics' \in {FinishedPics, FlushedPics}
                              /\ open' = NoPicture
                              /\ status' \in {"run", "done"}
                              /\ UNCHANGED <<maps, next, sent>>)
  BY <1>1 DEF EndSequence
<1>7. EndOfFile => Fault \/ (/\ pics' \in {FinishedPics, FlushedPics}
                             /\ open' = NoPicture
                             /\ status' \in {"run", "done"}
                             /\ UNCHANGED <<maps, next, sent>>)
  BY DEF EndOfFile
<1> QED
  BY <1>2, <1>3, <1>4, <1>5, <1>6, <1>7

\* The slice has its sets, and no picture is open.
Found(slice) ==
  LET i == slice.pps
      s == GetPS(ppsMap, i).sps
  IN  /\ open = NoPicture
      /\ i \in PpsIds /\ s \in SpsIds
      /\ ppsMap.ps[i] \in 1 .. MaxMade /\ spsMap.ps[s] \in 1 .. MaxMade
      /\ GetPS(spsMap, s).size \in Nat

\* The sets of a slice that waits are found.
LEMMA WaitingOK ==
  ASSUME IInv, NEW slice \in next
  PROVE  Found(slice)
<1> DEFINE i == slice.pps
           d == GetPS(ppsMap, i)
<1>1. open = NoPicture /\ Present(ppsMap, i) /\ Present(spsMap, d.sps)
  BY DEF IInv, Waits
<1>2. /\ i \in PpsIds
      /\ ppsMap.ps \in [PpsIds -> 0 .. MaxMade]
      /\ ppsMap.data \in [1 .. MaxMade -> PpsNals]
      /\ spsMap.ps \in [SpsIds -> 0 .. MaxMade]
      /\ spsMap.data \in [1 .. MaxMade -> SpsNals]
  BY DEF IInv, TypeOK, Maps
<1> MaxMade \in Nat
  BY DEF ParameterSetsAssumption
<1>3. ppsMap.ps[i] \in 1 .. MaxMade
  <2>1. ppsMap.ps[i] # 0
    BY <1>1 DEF Present, Null
  <2>2. ppsMap.ps[i] \in 0 .. MaxMade
    BY <1>2
  <2> QED
    BY <2>1, <2>2
<1>4. d \in PpsNals
  BY <1>2, <1>3 DEF GetPS
<1>5. d.sps \in SpsIds
  BY <1>4 DEF ParameterSetsAssumption
<1>6. spsMap.ps[d.sps] \in 1 .. MaxMade
  <2>1. spsMap.ps[d.sps] # 0
    BY <1>1 DEF Present, Null
  <2>2. spsMap.ps[d.sps] \in 0 .. MaxMade
    BY <1>2, <1>5
  <2> QED
    BY <2>1, <2>2
<1>7. GetPS(spsMap, d.sps) \in SpsNals
  BY <1>2, <1>6 DEF GetPS
<1>8. GetPS(spsMap, d.sps).size \in Nat
  BY <1>7 DEF ParameterSetsAssumption
<1> QED
  BY <1>1, <1>2, <1>3, <1>5, <1>6, <1>8 DEF Found

\* Clearing flags and making sets active leaves what the maps hold.
LEMMA ClearFlagsOK ==
  ASSUME IInv, NEW i \in PpsIds, NEW s \in SpsIds
  PROVE  /\ SameSets(SpsIds, MaxMade, SpsNals, spsMap, ClearFlags(i, s)[1])
         /\ SameSets(PpsIds, MaxMade, PpsNals, ppsMap, ClearFlags(i, s)[2])
<1>1. /\ MaxMade \in Nat
      /\ spsMap \in Maps(SpsIds, MaxMade, SpsNals)
      /\ ppsMap \in Maps(PpsIds, MaxMade, PpsNals)
  BY DEF IInv, TypeOK, ParameterSetsAssumption
<1>2. /\ SameSets(SpsIds, MaxMade, SpsNals, spsMap, ClearChanged(spsMap, s))
      /\ SameSets(PpsIds, MaxMade, PpsNals, ppsMap, ClearChanged(ppsMap, i))
  BY <1>1, ClearChangedOK
<1> DEFINE c == ClearChanged(spsMap, s)
           d == ClearChanged(ppsMap, i)
<1>3. c \in Maps(SpsIds, MaxMade, SpsNals) /\ d \in Maps(PpsIds, MaxMade, PpsNals)
  BY <1>2 DEF SameSets
<1>4. /\ SameSets(SpsIds, MaxMade, SpsNals, c, SetActive(c, s))
      /\ SameSets(PpsIds, MaxMade, PpsNals, d, SetActive(d, i))
  BY <1>1, <1>3, SetActiveOK
<1>5. ClearFlags(i, s)[1] = SetActive(c, s) /\ ClearFlags(i, s)[2] = SetActive(d, i)
  BY DEF ClearFlags
<1> HIDE DEF c, d
<1> QED
  BY <1>2, <1>4, <1>5 DEF SameSets, c, d

\* A step that leaves what the maps hold and what was sent alone.
LEMMA SameSetsOK ==
  ASSUME IInv,
         SameSets(SpsIds, MaxMade, SpsNals, spsMap, spsMap'),
         SameSets(PpsIds, MaxMade, PpsNals, ppsMap, ppsMap'),
         sent'.sps = sent.sps, sent'.pps = sent.pps
  PROVE  Owned' /\ Latest'
<1>1. Owned'
  BY DEF IInv, Owned, SameSets
<1>2. /\ \A i \in SpsIds : /\ Present(spsMap', i) <=> Present(spsMap, i)
                           /\ GetPS(spsMap', i) = GetPS(spsMap, i)
      /\ \A i \in PpsIds : /\ Present(ppsMap', i) <=> Present(ppsMap, i)
                           /\ GetPS(ppsMap', i) = GetPS(ppsMap, i)
  BY DEF SameSets, Present, GetPS
<1>3. Latest'
  BY <1>2 DEF IInv, Latest
<1> QED
  BY <1>1, <1>3

\* A picture is taken for the waiting slice.
LEMMA TakePictureOK ==
  ASSUME IInv, NEW slice \in next, NEW b \in Pictures, NEW p \in Pics,
         TakePicture(b, p, slice)
  PROVE  IInv'
<1> DEFINE i == slice.pps
           s == GetPS(ppsMap, i).sps
           m == ClearFlags(i, s)
           w == WithPcv(ppsMap.ps[i], GetPS(spsMap, s).size)
           q == FinalInit(p, spsMap.ps[s], ppsMap.ps[i])
           n == {[sps |-> e, pps |-> d] : e \in sent.sps[s], d \in sent.pps[i]}
<1>1. /\ open = NoPicture /\ i \in PpsIds /\ s \in SpsIds
      /\ ppsMap.ps[i] \in 1 .. MaxMade /\ spsMap.ps[s] \in 1 .. MaxMade
      /\ GetPS(spsMap, s).size \in Nat
  BY WaitingOK DEF Found
<1>2. /\ spsMap' = m[1] /\ ppsMap' = m[2] /\ activeSpsId' = s /\ pcv' = w
      /\ pics' = [pics EXCEPT ![b] = q]
      /\ open' = b /\ next' = {} /\ status' = status
      /\ sent' = [sent EXCEPT !.spsUpdates = [k \in SpsIds |-> 0],
                              !.ppsUpdates = [k \in PpsIds |-> 0],
                              !.pictures = @ + 1, !.slice = n]
  BY DEF TakePicture
<1>3. /\ SameSets(SpsIds, MaxMade, SpsNals, spsMap, spsMap')
      /\ SameSets(PpsIds, MaxMade, PpsNals, ppsMap, ppsMap')
  BY <1>1, <1>2, ClearFlagsOK
<1>4. w \in [1 .. MaxMade -> Nat]
  BY <1>1 DEF WithPcv, IInv, TypeOK
<1>5. q \in Pics /\ q.state = "open"
  <2> DEFINE x == IF p.sps = Null THEN spsMap.ps[s] ELSE p.sps
             y == ppsMap.ps[i]
  <2>1. p.sps \in 0 .. MaxMade
    BY DEF Pics
  <2>2. spsMap.ps[s] \in 0 .. MaxMade /\ y \in 0 .. MaxMade
    BY <1>1
  <2>3. x \in 0 .. MaxMade
    BY <2>1, <2>2
  <2>4. q = [p EXCEPT !.state = "open", !.sps = x, !.pps = y]
    BY DEF FinalInit
  <2> HIDE DEF x, y
  <2> QED
    BY <2>2, <2>3, <2>4 DEF Pics, PicStates
<1>6. /\ pics \in [Pictures -> Pics] /\ sent \in Sent /\ b # NoPicture
      /\ \A c \in Pictures : pics[c].state # "open"
  <2>1. pics \in [Pictures -> Pics] /\ sent \in Sent
    BY DEF IInv, TypeOK
  <2>2. b # NoPicture
    BY DEF Pictures, NoPicture, ParameterSetsAssumption
  <2>3. {c \in Pictures : pics[c].state = "open"} = {open} \ {NoPicture}
    BY DEF IInv, TypeOK
  <2> QED
    BY <1>1, <2>1, <2>2, <2>3
<1> HIDE DEF q, w, m
<1>7. /\ pics' \in [Pictures -> Pics]
      /\ {c \in Pictures : pics'[c].state = "open"} = {b}
  BY <1>2, <1>5, <1>6
<1>8. sent' \in Sent /\ sent'.sps = sent.sps /\ sent'.pps = sent.pps
  <2>1. n \in SUBSET [sps : SpsNals, pps : PpsNals]
    <3>1. sent.sps[s] \in SUBSET SpsNals /\ sent.pps[i] \in SUBSET PpsNals
      BY <1>1, <1>6 DEF Sent
    <3> QED
      BY <3>1
  <2>2. sent.pictures + 1 \in Nat
    BY <1>6 DEF Sent
  <2> HIDE DEF n
  <2> QED
    BY <1>2, <1>6, <2>1, <2>2 DEF Sent
<1>9. TypeOK'
  BY <1>1, <1>2, <1>3, <1>4, <1>6, <1>7, <1>8 DEF IInv, TypeOK, SameSets
<1>10. Owned' /\ Latest'
  BY <1>3, <1>8, SameSetsOK
<1>11. Waits'
  BY <1>2 DEF Waits
<1> QED
  BY <1>9, <1>10, <1>11 DEF IInv

\* A picture starts in a new buffer, in an old one, or not at all.
LEMMA StartOK ==
  ASSUME IInv, NEW b \in Pictures, StartInNewPicture(b) \/ StartInOldPicture(b)
  PROVE  IInv'
<1>1. ASSUME NEW size \in Nat
      PROVE  NewPic(size) \in Pics
  <2>1. NoPic \in Pics
    BY DEF NoPic, Pics, PicStates, NoSize, Null, ParameterSetsAssumption
  <2> QED
    BY <2>1 DEF NewPic, Pics, PicStates
<1>2. ASSUME NEW slice \in next,
             \E p \in {pics[b], NewPic(GetPS(spsMap, GetPS(ppsMap, slice.pps).sps).size)} :
               TakePicture(b, p, slice)
      PROVE  IInv'
  <2>1. GetPS(spsMap, GetPS(ppsMap, slice.pps).sps).size \in Nat
    BY WaitingOK DEF Found
  <2>2. pics[b] \in Pics
    BY DEF IInv, TypeOK
  <2> QED
    BY <1>1, <1>2, <2>1, <2>2, TakePictureOK
<1>3. CASE StartInNewPicture(b)
  BY <1>2, <1>3 DEF StartInNewPicture
<1>4. CASE StartInOldPicture(b)
  <2>1. \/ Fault
        \/ \E slice \in next :
             \E p \in {pics[b], NewPic(GetPS(spsMap, GetPS(ppsMap, slice.pps).sps).size)} :
               TakePicture(b, p, slice)
    BY <1>4 DEF StartInOldPicture
  <2> QED
    BY <1>2, <2>1, FaultOK
<1> QED
  BY <1>3, <1>4

\* The decoder stops because the sets cannot be made active.
LEMMA RejectActivationOK ==
  ASSUME IInv, RejectActivation
  PROVE  IInv'
<1>1. PICK slice \in next :
        LET i == slice.pps
            s == GetPS(ppsMap, i).sps
        IN  /\ spsMap' = ClearChanged(spsMap, s)
            /\ ppsMap' = ClearChanged(ppsMap, i)
            /\ pcv' = WithPcv(ppsMap.ps[i], GetPS(spsMap, s).size)
            /\ activeSpsId' = NoId
            /\ status' = "inactive"
            /\ UNCHANGED <<pics, open, next, sent>>
  BY DEF RejectActivation
<1> DEFINE i == slice.pps
           s == GetPS(ppsMap, i).sps
<1>2. /\ open = NoPicture /\ i \in PpsIds /\ s \in SpsIds
      /\ ppsMap.ps[i] \in 1 .. MaxMade
      /\ GetPS(spsMap, s).size \in Nat
  BY WaitingOK DEF Found
<1>3. /\ MaxMade \in Nat
      /\ spsMap \in Maps(SpsIds, MaxMade, SpsNals)
      /\ ppsMap \in Maps(PpsIds, MaxMade, PpsNals)
  BY DEF IInv, TypeOK, ParameterSetsAssumption
<1>4. /\ SameSets(SpsIds, MaxMade, SpsNals, spsMap, spsMap')
      /\ SameSets(PpsIds, MaxMade, PpsNals, ppsMap, ppsMap')
  BY <1>1, <1>2, <1>3, ClearChangedOK
<1>5. pcv' \in [1 .. MaxMade -> Nat]
  BY <1>1, <1>2 DEF WithPcv, IInv, TypeOK
<1>6. TypeOK'
  BY <1>1, <1>4, <1>5 DEF IInv, TypeOK, SameSets
<1>7. Owned' /\ Latest'
  BY <1>1, <1>4, SameSetsOK
<1>8. Waits'
  BY <1>1, <1>4 DEF IInv, Waits, SameSets, Present, GetPS
<1> QED
  BY <1>6, <1>7, <1>8 DEF IInv

\* Another slice of the open picture.
LEMMA ContinuePictureOK ==
  ASSUME IInv, ContinuePicture
  PROVE  IInv'
<1>1. CASE ~MayFinish
  BY <1>1, FaultOK DEF ContinuePicture
<1>2. CASE MayFinish
  <2> DEFINE n == UNION {{[sps |-> e, pps |-> d] : e \in sent.sps[d.sps]} :
                         d \in UNION {sent.pps[h.pps.id] : h \in sent.slice}}
  <2>1. /\ status' \in {"changed", status}
        /\ sent' \in {sent, [sent EXCEPT !.slice = n]}
        /\ next = {} /\ UNCHANGED <<maps, pics, open, next>>
    BY <1>2 DEF ContinuePicture, Reading
  <2>2. sent \in Sent
    BY DEF IInv, TypeOK
  <2>3. n \in SUBSET [sps : SpsNals, pps : PpsNals]
    <3>1. ASSUME NEW h \in sent.slice, NEW d \in sent.pps[h.pps.id], NEW e \in sent.sps[d.sps]
          PROVE  [sps |-> e, pps |-> d] \in [sps : SpsNals, pps : PpsNals]
      <4>1. h.pps \in PpsNals
        BY <2>2 DEF Sent
      <4>2. h.pps.id \in PpsIds
        BY <4>1 DEF ParameterSetsAssumption
      <4>3. d \in PpsNals
        BY <2>2, <4>2 DEF Sent
      <4>4. d.sps \in SpsIds
        BY <4>3 DEF ParameterSetsAssumption
      <4>5. e \in SpsNals
        BY <2>2, <4>4 DEF Sent
      <4> QED
        BY <4>3, <4>5
    <3> QED
      BY <3>1
  <2> HIDE DEF n
  <2>4. sent' \in Sent /\ sent'.sps = sent.sps /\ sent'.pps = sent.pps
    BY <2>1, <2>2, <2>3 DEF Sent
  <2>5. TypeOK'
    BY <2>1, <2>4 DEF IInv, TypeOK, maps
  <2>6. spsMap' = spsMap /\ ppsMap' = ppsMap
    BY <2>1 DEF maps
  <2>7. Owned' /\ Latest'
    BY <2>4, <2>6 DEF IInv, Owned, Latest
  <2>8. Waits'
    BY <2>1 DEF Waits
  <2> QED
    BY <2>5, <2>7, <2>8 DEF IInv
<1> QED
  BY <1>1, <1>2

\* Every step keeps the invariant.
LEMMA NextOK == IInv /\ [Next]_vars => IInv'
<1> SUFFICES ASSUME IInv, [Next]_vars PROVE IInv'
  OBVIOUS
<1>1. CASE UNCHANGED vars \/ Done
  <2>1. UNCHANGED vars
    BY <1>1 DEF Done
  <2>2. UNCHANGED <<maps, pics, open, next, sent, status>>
    BY <2>1 DEF vars, maps
  <2>3. Waits'
    BY <2>2 DEF IInv, Waits, maps, Present, GetPS
  <2> QED
    BY <2>2, <2>3, PicturesOK DEF IInv, TypeOK
<1>2. ASSUME NEW d \in SpsNals, DecodeSPS(d) PROVE IInv'
  BY <1>2, DecodeSPSOK
<1>3. ASSUME NEW d \in PpsNals, DecodePPS(d) PROVE IInv'
  BY <1>3, DecodePPSOK
<1>4. ASSUME NEW kind \in Kinds, NEW i \in PpsIds, FindNewPicture(kind, i) PROVE IInv'
  BY <1>4, FindNewPictureOK
<1>5. ASSUME NEW b \in Pictures, StartInNewPicture(b) \/ StartInOldPicture(b) PROVE IInv'
  BY <1>5, StartOK
<1>6. CASE \/ EndSequence \/ EndOfFile
           \/ \E b \in Pictures : ReleasePicture(b)
           \/ \E i \in PpsIds : RejectSlice(i)
  BY <1>6, EndsOK
<1>7. CASE RejectActivation
  BY <1>7, RejectActivationOK
<1>8. CASE ContinuePicture
  BY <1>8, ContinuePictureOK
<1> QED
  BY <1>1, <1>2, <1>3, <1>4, <1>5, <1>6, <1>7, <1>8 DEF Next

\* The inductive invariant holds of every reachable state.
THEOREM Invariant == Spec => []IInv
<1> QED
  BY InitOK, NextOK, PTL DEF Spec

-----------------------------------------------------------------------------
(* The results.                                                            *)

\* Every variable has its type, and one picture is decoded at a time.
THEOREM TypeCorrect == Spec => []TypeOK
<1>1. IInv => TypeOK
  BY DEF IInv
<1> QED
  BY <1>1, Invariant, PTL

\* Whatever the bitstream sends, storePS leaks no parameter set and deletes
\* none that it still holds, and no two ids share one.
THEOREM Ownership == Spec => []Owned
<1>1. IInv => Owned
  BY DEF IInv
<1> QED
  BY <1>1, Invariant, PTL

\* Whatever the bitstream sends and however often, the set found for an id is
\* the one last sent, although a set sent again may be thrown away.
THEOREM LatestHeld == Spec => []Latest
<1>1. IInv => Latest
  BY DEF IInv
<1> QED
  BY <1>1, Invariant, PTL
=============================================================================
