--------------------------- MODULE ParameterSetMap ---------------------------
(***************************************************************************)
(* ParameterSetMap<T> of CommonLib/Slice.h: the parameter sets of one kind *)
(* that the decoder owns, one for each id, together with the heap they are *)
(* allocated in.  An object is numbered when it is made; Null is no        *)
(* object.  A map is a record                                              *)
(*   ps       the object stored for each id                                *)
(*   changed  MapData::bChanged of each id                                 *)
(*   active   m_activePsId                                                 *)
(*   last     m_lastActiveParameterSet                                     *)
(*   made     the number of objects made so far                            *)
(*   live     the objects made and not yet deleted                         *)
(*   data     the NAL unit each object was parsed from                     *)
(***************************************************************************)
EXTENDS Integers

Null == 0
NoId == -1

\* A map before anything is stored; data is arbitrary where nothing is made.
EmptyMap(Ids, max, any) ==
  [ps |-> [i \in Ids |-> Null], changed |-> [i \in Ids |-> FALSE],
   active |-> NoId, last |-> Null,
   made |-> 0, live |-> {}, data |-> [o \in 1 .. max |-> any]]

Present(m, id) == m.ps[id] # Null

GetPS(m, id) == m.data[m.ps[id]]

\* Mutant of Differs: other contents do not set the flag.
DiffersNever(m, id, nal) == m.changed[id]

\* calculateParameterSetChangedFlag: once set, the flag stays.
Differs(m, id, nal) == m.changed[id] \/ GetPS(m, id) # nal

\* The new object is allocated by the caller, which then gives it away.
Allocate(m, nal) ==
  [m EXCEPT !.made = @ + 1,
            !.live = @ \cup {m.made + 1},
            !.data[m.made + 1] = nal]

Delete(m, o) == [m EXCEPT !.live = @ \ {o}]

\* Mutant of Replace: the active set is deleted like any other.
ReplaceNoSwap(m, id, o) == [Delete(m, m.ps[id]) EXCEPT !.ps[id] = o, !.changed[id] = TRUE]

\* Mutant of Replace: the set that was kept is forgotten, not deleted.
ReplaceLeak(m, id, o) ==
  IF m.active = id
  THEN [m EXCEPT !.last = m.ps[id], !.ps[id] = o, !.changed[id] = TRUE]
  ELSE [Delete(m, m.ps[id]) EXCEPT !.ps[id] = o, !.changed[id] = TRUE]

\* The entry of id is deleted, unless it is active: then it is kept as the
\* last active set and the one kept so far is deleted.
Replace(m, id, o) ==
  IF m.active = id
  THEN [Delete(m, m.last) EXCEPT !.last = m.ps[id], !.ps[id] = o, !.changed[id] = TRUE]
  ELSE [Delete(m, m.ps[id]) EXCEPT !.ps[id] = o, !.changed[id] = TRUE]

\* storePS for a set with the given NAL unit.
StorePS(m, id, nal) ==
  LET o == m.made + 1
      n == Allocate(m, nal)
  IN  IF ~Present(m, id) THEN [n EXCEPT !.ps[id] = o, !.changed[id] = FALSE]
      ELSE IF Differs(m, id, nal) THEN Replace(n, id, o)
      ELSE Delete(n, o)

ClearChanged(m, id) == [m EXCEPT !.changed[id] = FALSE]

SetActive(m, id) == [m EXCEPT !.active = id]

-----------------------------------------------------------------------------
(* What a map promises.                                                    *)

\* The maps for the given ids, at most max objects and the given NAL units.
Maps(Ids, max, nals) ==
  [ps : [Ids -> 0 .. max], changed : [Ids -> BOOLEAN],
   active : Ids \cup {NoId}, last : 0 .. max,
   made : 0 .. max, live : SUBSET (1 .. max), data : [1 .. max -> nals]]

\* What the map owns: the entries and the last active set.
Owners(m) == {m.ps[i] : i \in DOMAIN m.ps} \cup {m.last}

\* Every object made and not deleted has exactly one owner in the map, and the map owns
\* nothing else: storePS neither leaks a set nor leaves the map with one
\* that is deleted, and the destructor deletes each of them once.
OwnedOnce(m) ==
  /\ m.live = Owners(m) \ {Null}
  /\ m.live \subseteq 1 .. m.made
  /\ \A i, j \in DOMAIN m.ps : i # j /\ m.ps[i] = m.ps[j] => m.ps[i] = Null
  /\ \A i \in DOMAIN m.ps : m.ps[i] = m.last => m.last = Null
=============================================================================
