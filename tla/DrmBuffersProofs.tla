--------------------------- MODULE DrmBuffersProofs ---------------------------
(***************************************************************************)
(* DrmBuffers for any number of terminals and of objects: through          *)
(* restarts, hotplugs and failing calls every object has the references    *)
(* its holders own, so none is freed while in use, and the kernel holds    *)
(* exactly the buffers the terminals use and the one that waits.  The      *)
(* first argument compares, for each call, what it adds to the count with  *)
(* what it adds to the holders; the second follows the framebuffers of the *)
(* terminals and of one more place, for the one a call has in hand.        *)
(***************************************************************************)
EXTENDS DrmBuffers, FiniteSetTheorems, TLAPS

\* A drm_t, as far as its count is concerned.
Record(d) ==
  /\ d = [refcount |-> d.refcount, delayed |-> d.delayed, fbs |-> d.fbs,
          handles |-> d.handles, atomic |-> d.atomic]
  /\ d.refcount \in Nat

DisplayOK(k) ==
  /\ k = [obj |-> k.obj, scan |-> k.scan]
  /\ k.obj = [o \in Objects |-> k.obj[o]]
  /\ \A o \in Objects : Record(k.obj[o])

Count(k, o) == k.obj[o].refcount

\* A call that leaves the counts alone.
Same(k, l) == DisplayOK(l) /\ \A o \in Objects : Count(l, o) = Count(k, o)

\* The reference of a holder of d, if it is one to o.
Ref(o, d) == IF d = o THEN 1 ELSE 0

LEMMA SameTwice == ASSUME NEW k, NEW l, NEW m, Same(k, l), Same(l, m) PROVE Same(k, m)
BY DEF Same

LEMMA SameSelf == ASSUME NEW k, DisplayOK(k) PROVE Same(k, k)
BY DEF Same

\* A display with another record for object o.
With(k, o, d, scanned) == [obj |-> [k.obj EXCEPT ![o] = d], scan |-> scanned]

LEMMA WithOK ==
  ASSUME NEW k, DisplayOK(k), NEW o, NEW d, NEW scanned, o \in Objects => Record(d)
  PROVE  /\ DisplayOK(With(k, o, d, scanned))
         /\ \A p \in Objects : With(k, o, d, scanned).obj[p] = IF p = o THEN d ELSE k.obj[p]
<1> DEFINE l == With(k, o, d, scanned)
<1>1. k.obj = [p \in Objects |-> k.obj[p]] /\ \A p \in Objects : Record(k.obj[p])
  BY DEF DisplayOK
<1>2. l.obj = [k.obj EXCEPT ![o] = d] /\ l.scan = scanned /\ l = [obj |-> l.obj, scan |-> l.scan]
  BY DEF With
<1>3. \A p \in Objects : l.obj[p] = IF p = o THEN d ELSE k.obj[p]
  BY <1>1, <1>2
<1>4. l.obj = [p \in Objects |-> l.obj[p]]
  BY <1>1, <1>2
<1> HIDE DEF l
<1>5. \A p \in Objects : Record(l.obj[p])
  BY <1>1, <1>3
<1>6. DisplayOK(l)
  BY <1>2, <1>4, <1>5 DEF DisplayOK
<1> QED
  BY <1>3, <1>6 DEF l

LEMMA WithSame ==
  ASSUME NEW k, DisplayOK(k), NEW o, NEW d, NEW scanned,
         o \in Objects => Record(d) /\ d.refcount = k.obj[o].refcount
  PROVE  Same(k, With(k, o, d, scanned))
BY WithOK DEF Same, Count

\* A record in which one field is set.
LEMMA RecordExcept ==
  ASSUME NEW d, Record(d), NEW x
  PROVE  /\ Record([d EXCEPT !.delayed = x]) /\ [d EXCEPT !.delayed = x].refcount = d.refcount
         /\ Record([d EXCEPT !.handles = x]) /\ [d EXCEPT !.handles = x].refcount = d.refcount
         /\ Record([d EXCEPT !.fbs = x]) /\ [d EXCEPT !.fbs = x].refcount = d.refcount
         /\ x \in Nat => Record([d EXCEPT !.refcount = x]) /\ [d EXCEPT !.refcount = x].refcount = x
<1> DEFINE r == d.refcount
           e == d.delayed
           f == d.fbs
           h == d.handles
           a == d.atomic
<1>1. d = [refcount |-> r, delayed |-> e, fbs |-> f, handles |-> h, atomic |-> a] /\ r \in Nat
  BY DEF Record
<1> HIDE DEF r, e, f, h, a
<1>2. [d EXCEPT !.delayed = x]
        = [refcount |-> r, delayed |-> x, fbs |-> f, handles |-> h, atomic |-> a]
  BY <1>1
<1>3. [d EXCEPT !.handles = x]
        = [refcount |-> r, delayed |-> e, fbs |-> f, handles |-> x, atomic |-> a]
  BY <1>1
<1>4. [d EXCEPT !.fbs = x]
        = [refcount |-> r, delayed |-> e, fbs |-> x, handles |-> h, atomic |-> a]
  BY <1>1
<1>5. [d EXCEPT !.refcount = x]
        = [refcount |-> x, delayed |-> e, fbs |-> f, handles |-> h, atomic |-> a]
  BY <1>1
<1>6. d.refcount = r
  BY <1>1
<1> QED
  BY <1>1, <1>2, <1>3, <1>4, <1>5, <1>6 DEF Record

\* A display in which an object's count is set.
LEMMA CountSet ==
  ASSUME NEW k, DisplayOK(k), NEW d \in Objects, NEW n \in Nat
  PROVE  LET l == With(k, d, [k.obj[d] EXCEPT !.refcount = n], k.scan)
         IN  /\ DisplayOK(l)
             /\ \A o \in Objects : Count(l, o) = IF o = d THEN n ELSE Count(k, o)
<1> DEFINE e == [k.obj[d] EXCEPT !.refcount = n]
<1>1. Record(k.obj[d])
  BY DEF DisplayOK
<1>2. Record(e) /\ e.refcount = n
  BY <1>1, RecordExcept
<1> HIDE DEF e
<1>3. /\ DisplayOK(With(k, d, e, k.scan))
      /\ \A p \in Objects : With(k, d, e, k.scan).obj[p] = IF p = d THEN e ELSE k.obj[p]
  BY <1>2, WithOK
<1> QED
  BY <1>2, <1>3 DEF Count, e

\* The calls that only change what the kernel holds for an object.
LEMMA SetFields ==
  ASSUME NEW k, DisplayOK(k), NEW o, NEW id
  PROVE  /\ Same(k, SetDelayed(k, o, id))
         /\ Same(k, AddHandle(k, o, id))
         /\ Same(k, AddFb(k, o, id))
         /\ Same(k, FreeHandle(k, o, id))
         /\ Same(k, RmFB(k, o, id))
<1> DEFINE d == k.obj[o]
<1>0. /\ k = [obj |-> k.obj, scan |-> k.scan]
      /\ o \in Objects => Record(d)
  BY DEF DisplayOK
<1>1. SetDelayed(k, o, id) = With(k, o, [d EXCEPT !.delayed = id], k.scan)
  BY <1>0 DEF With, SetDelayed
<1>2. AddHandle(k, o, id) = With(k, o, [d EXCEPT !.handles = d.handles \cup {id}], k.scan)
  BY <1>0 DEF With, AddHandle
<1>3. AddFb(k, o, id) = With(k, o, [d EXCEPT !.fbs = d.fbs \cup {id}], k.scan)
  BY <1>0 DEF With, AddFb
<1>4. FreeHandle(k, o, id) = With(k, o, [d EXCEPT !.handles = d.handles \ {id}], k.scan)
  BY <1>0 DEF With, FreeHandle
<1>5. \/ RmFB(k, o, id) = k
      \/ RmFB(k, o, id) = With(k, o, [d EXCEPT !.fbs = d.fbs \ {id}],
                               IF k.scan = <<o, id>> THEN <<>> ELSE k.scan)
  BY <1>0 DEF With, RmFB
<1>6. \A x, s : /\ Same(k, With(k, o, [d EXCEPT !.delayed = x], s))
                /\ Same(k, With(k, o, [d EXCEPT !.handles = x], s))
                /\ Same(k, With(k, o, [d EXCEPT !.fbs = x], s))
  <2> TAKE x, s
  <2>1. o \in Objects =>
          /\ Record([d EXCEPT !.delayed = x]) /\ [d EXCEPT !.delayed = x].refcount = d.refcount
          /\ Record([d EXCEPT !.handles = x]) /\ [d EXCEPT !.handles = x].refcount = d.refcount
          /\ Record([d EXCEPT !.fbs = x]) /\ [d EXCEPT !.fbs = x].refcount = d.refcount
    BY <1>0, RecordExcept
  <2> QED
    BY <2>1, WithSame
<1> HIDE DEF d
<1>7. Same(k, SetDelayed(k, o, id))
  BY ONLY <1>1, <1>6
<1>8. Same(k, AddHandle(k, o, id)) /\ Same(k, FreeHandle(k, o, id))
  BY ONLY <1>2, <1>4, <1>6
<1>9. Same(k, AddFb(k, o, id))
  BY ONLY <1>3, <1>6
<1>10. Same(k, RmFB(k, o, id))
  <2>1. Same(k, k)
    BY SameSelf
  <2> QED
    BY ONLY <1>5, <1>6, <2>1
<1> QED
  BY ONLY <1>7, <1>8, <1>9, <1>10

LEMMA ClearSame == ASSUME NEW k, DisplayOK(k), NEW o PROVE Same(k, ClearRmFB(k, o))
<1> DEFINE r == RmFB(k, o, k.obj[o].delayed)
<1>1. Same(k, r)
  BY SetFields
<1> HIDE DEF r
<1>2. Same(r, SetDelayed(r, o, 0))
  <2>1. DisplayOK(r)
    BY <1>1 DEF Same
  <2> QED
    BY <2>1, SetFields
<1>3. ClearRmFB(k, o) = SetDelayed(r, o, 0)
  BY DEF ClearRmFB, r
<1> QED
  BY <1>1, <1>2, <1>3, SameTwice

LEMMA DelaySame ==
  ASSUME NEW k, DisplayOK(k), NEW o, NEW id
  PROVE  Same(k, DelayRmFB(k, o, id))
<1> DEFINE r == ClearRmFB(k, o)
<1>1. Same(k, r)
  BY ClearSame
<1>2. DelayRmFB(k, o, id) = SetDelayed(r, o, id)
  BY DEF DelayRmFB
<1> HIDE DEF r
<1>3. Same(r, SetDelayed(r, o, id))
  <2>1. DisplayOK(r)
    BY <1>1 DEF Same
  <2> QED
    BY <2>1, SetFields
<1> QED
  BY <1>1, <1>2, <1>3, SameTwice

\* A reference given back is one less (drm_delref).
LEMMA DelRefCounts ==
  ASSUME NEW k, DisplayOK(k), NEW d \in Objects \cup {None}, d \in Objects => Count(k, d) >= 1
  PROVE  /\ DisplayOK(DelRef(k, d))
         /\ \A o \in Objects : Count(DelRef(k, d), o) = Count(k, o) - Ref(o, d)
<1>0. \A o \in Objects : Count(k, o) \in Nat
  BY DEF DisplayOK, Count, Record
<1>1. CASE d = None
  BY <1>0, <1>1, NoneAssumption DEF DelRef, Ref
<1>2. CASE d # None /\ k.obj[d].refcount > 1
  <2>1. DelRef(k, d) = [k EXCEPT !.obj[d].refcount = @ - 1] /\ d \in Objects
    BY <1>2 DEF DelRef
  <2>2. [k EXCEPT !.obj[d].refcount = @ - 1]
          = With(k, d, [k.obj[d] EXCEPT !.refcount = k.obj[d].refcount - 1], k.scan)
    BY DEF With, DisplayOK
  <2> DEFINE n == k.obj[d].refcount - 1
  <2>3. n \in Nat /\ n = Count(k, d) - 1
    BY <1>0, <1>2, <2>1 DEF Count
  <2> HIDE DEF n
  <2>4. /\ DisplayOK(DelRef(k, d))
        /\ \A o \in Objects : Count(DelRef(k, d), o) = IF o = d THEN n ELSE Count(k, o)
    BY <2>1, <2>2, <2>3, CountSet DEF n
  <2> QED
    BY <1>0, <2>1, <2>3, <2>4 DEF Ref
<1>3. CASE d # None /\ ~(k.obj[d].refcount > 1)
  <2>1. DelRef(k, d) = Fini(k, d) /\ d \in Objects
    BY <1>3 DEF DelRef
  <2>2. k.obj[d].refcount = 1
    BY <1>0, <1>3, <2>1 DEF Count
  <2>3. Fini(k, d) = With(k, d, Freed, IF k.scan # <<>> /\ k.scan[1] = d THEN <<>> ELSE k.scan)
    BY DEF Fini, With
  <2>4. Record(Freed) /\ Freed.refcount = 0
    BY DEF Record, Freed
  <2> QED
    BY <1>0, <2>1, <2>2, <2>3, <2>4, WithOK DEF Count, Ref
<1> QED
  BY <1>1, <1>2, <1>3

\* So is a framebuffer (fb_buffer_destroy).
LEMMA DestroyCounts ==
  ASSUME NEW k, DisplayOK(k), NEW f, f.drm \in Objects \cup {None},
         f.drm \in Objects => Count(k, f.drm) >= 1
  PROVE  /\ DisplayOK(BufferDestroy(k, f))
         /\ \A o \in Objects : Count(BufferDestroy(k, f), o) = Count(k, o) - Ref(o, f.drm)
<1> DEFINE l == IF f.handle = 0 THEN k
                ELSE FreeHandle(DelayRmFB(k, f.drm, f.id), f.drm, f.handle)
<1>1. Same(k, l)
  <2> DEFINE r == DelayRmFB(k, f.drm, f.id)
  <2>1. Same(k, r)
    BY DelaySame
  <2> HIDE DEF r
  <2>2. Same(k, FreeHandle(r, f.drm, f.handle))
    <3>1. DisplayOK(r)
      BY <2>1 DEF Same
    <3>2. Same(r, FreeHandle(r, f.drm, f.handle))
      BY <3>1, SetFields
    <3> QED
      BY <2>1, <3>2, SameTwice
  <2>3. Same(k, k)
    BY SameSelf
  <2> QED
    BY <2>2, <2>3 DEF r
<1>2. BufferDestroy(k, f) = DelRef(l, f.drm)
  BY DEF BufferDestroy
<1> HIDE DEF l
<1>3. DisplayOK(l) /\ \A o \in Objects : Count(l, o) = Count(k, o)
  BY <1>1 DEF Same
<1>4. /\ DisplayOK(DelRef(l, f.drm))
      /\ \A o \in Objects : Count(DelRef(l, f.drm), o) = Count(l, o) - Ref(o, f.drm)
  BY <1>3, DelRefCounts
<1> QED
  BY <1>2, <1>3, <1>4

\* A framebuffer takes a reference, also one that is only half made
\* (fb_buffer_init).
LEMMA InitCounts ==
  ASSUME NEW k, DisplayOK(k), NEW d \in Objects \cup {None}, NEW how
  PROVE  /\ DisplayOK(BufferInit(k, d, how).k)
         /\ \A o \in Objects : Count(BufferInit(k, d, how).k, o) = Count(k, o) + Ref(o, d)
         /\ BufferInit(k, d, how).fb.drm = d
         /\ BufferInit(k, d, how).fb.open = TRUE
<1>0. \A o \in Objects : Count(k, o) \in Nat
  BY DEF DisplayOK, Count, Record
<1>1. CASE d = None
  BY <1>0, <1>1, NoneAssumption DEF BufferInit, NoBuffer, Ref
<1>2. CASE d # None
  <2> DEFINE ref == AddRef(k, d)
             used == k.obj[d].fbs \cup k.obj[d].handles
             id == NewId(used)
  <2>1. d \in Objects
    BY <1>2
  <2>2. DisplayOK(ref) /\ \A o \in Objects : Count(ref, o) = Count(k, o) + Ref(o, d)
    <3>1. ref = With(k, d, [k.obj[d] EXCEPT !.refcount = k.obj[d].refcount + 1], k.scan)
      BY DEF With, DisplayOK, AddRef
    <3> HIDE DEF ref
    <3> DEFINE n == k.obj[d].refcount + 1
    <3>2. n \in Nat /\ n = Count(k, d) + 1
      BY <1>0, <2>1 DEF Count
    <3> HIDE DEF n
    <3>3. DisplayOK(ref) /\ \A o \in Objects : Count(ref, o) = IF o = d THEN n ELSE Count(k, o)
      BY <2>1, <3>1, <3>2, CountSet DEF n
    <3> HIDE DEF ref
    <3> QED
      BY <1>0, <2>1, <3>2, <3>3 DEF Ref
  <2> HIDE DEF ref, id
  <2>3. CASE ~(how = "dumb" \/ Exhausted(used)) /\ how # "addfb"
    <3>1. /\ BufferInit(k, d, how).k = AddFb(AddHandle(ref, d, id), d, id)
          /\ BufferInit(k, d, how).fb.drm = d /\ BufferInit(k, d, how).fb.open = TRUE
      BY <1>2, <2>3 DEF BufferInit, ref, id
    <3>2. Same(ref, AddHandle(ref, d, id))
      BY <2>2, SetFields
    <3>3. Same(ref, AddFb(AddHandle(ref, d, id), d, id))
      <4> DEFINE r == AddHandle(ref, d, id)
      <4>1. DisplayOK(r) /\ Same(ref, r)
        BY <3>2 DEF Same
      <4> HIDE DEF r
      <4>2. Same(r, AddFb(r, d, id))
        BY <4>1, SetFields
      <4> QED
        BY <4>1, <4>2, SameTwice DEF r
    <3> QED
      BY <2>2, <3>1, <3>3 DEF Same
  <2>4. CASE ~(~(how = "dumb" \/ Exhausted(used)) /\ how # "addfb")
    <3>1. /\ BufferInit(k, d, how).k = ref
          /\ BufferInit(k, d, how).fb.drm = d /\ BufferInit(k, d, how).fb.open = TRUE
      BY <1>2, <2>4 DEF BufferInit, ref
    <3> QED
      BY <2>2, <3>1
  <2> QED
    BY <2>3, <2>4
<1> QED
  BY <1>1, <1>2

\* Setting a mode takes none (fb_setmode, drm_setmode).
LEMMA SetModeSame ==
  ASSUME NEW k, DisplayOK(k), NEW f, NEW atomic, NEW legacy
  PROVE  Same(k, SetMode(k, f, atomic, legacy))
<1> DEFINE shown(s) == [s EXCEPT !.scan = <<f.drm, f.id>>]
           tried == k.obj[f.drm].atomic /\ atomic # "not tried"
           committed == tried /\ atomic = "commit" /\ f.id # 0
           fallback == IF tried THEN ClearRmFB(k, f.drm) ELSE k
<1>1. ASSUME NEW s, DisplayOK(s) PROVE Same(s, shown(s))
  BY <1>1 DEF DisplayOK, Same, Count, Record
<1>2. Same(k, k) /\ Same(k, fallback)
  BY ClearSame, SameSelf
<1>3. Same(k, DrmSetMode(k, f, atomic, legacy))
  <2>1. DrmSetMode(k, f, atomic, legacy) =
          IF committed THEN shown(k)
          ELSE IF legacy /\ f.id # 0 THEN ClearRmFB(shown(fallback), f.drm) ELSE fallback
    BY DEF DrmSetMode
  <2> HIDE DEF fallback, committed
  <2>2. Same(k, shown(k)) /\ Same(fallback, shown(fallback))
    BY <1>1, <1>2 DEF Same
  <2> HIDE DEF shown
  <2>3. Same(k, shown(fallback))
    BY <1>2, <2>2, SameTwice
  <2>4. Same(k, ClearRmFB(shown(fallback), f.drm))
    BY <2>3, ClearSame, SameTwice DEF Same
  <2> QED
    BY <1>2, <2>1, <2>2, <2>4
<1> QED
  BY <1>2, <1>3 DEF SetMode
-----------------------------------------------------------------------------
(* The invariant.                                                          *)

Types ==
  /\ DisplayOK(Display)
  /\ g_drm \in Objects \cup {None}
  /\ term = [v \in Vts |-> term[v]]
  /\ \A v \in Vts : term[v].drm \in Objects \cup {None}
  /\ todo \subseteq Vts
  /\ pc \in {"start", "idle", "destroy", "create", "stopped"}

\* What a terminal that does not exist holds, and one that a hotplug is about to
\* give a framebuffer.
Unheld ==
  /\ \A v \in Vts : ~term[v].open => term[v].drm = None
  /\ pc = "start" => /\ g_drm = None
                     /\ \A v \in Vts : ~term[v].open /\ term[v].drm = None
                     /\ \A o \in Objects : obj[o].refcount = 0
  /\ pc = "destroy" => \A v \in Vts \ todo : term[v].drm = None
  /\ pc = "create" => \A v \in todo : term[v].drm = None

\* Who holds object o.
Holders(o) == Cardinality(Users(o)) + Ref(o, g_drm)

Counted ==
  \A o \in Objects : IF leaked THEN obj[o].refcount >= Holders(o)
                               ELSE obj[o].refcount = Holders(o)

\* What is done of a hotplug's second loop.
Moved ==
  /\ pc = "idle" => \A v \in Open : term[v].drm = g_drm
  /\ pc = "create" => \A v \in Open \ todo : term[v].drm = g_drm

IInv == Types /\ Unheld /\ Counted /\ Moved

\* The terminals that use an object are finitely many.
LEMMA UsersFinite ==
  ASSUME NEW o \in Objects
  PROVE  IsFiniteSet(Users(o)) /\ Cardinality(Users(o)) \in Nat
<1>1. Users(o) \subseteq Vts
  BY DEF Users
<1> QED
  BY <1>1, VtsAssumption, FS_Subset, FS_CardinalityType

LEMMA HoldersType == ASSUME NEW o \in Objects PROVE Holders(o) \in Nat
BY UsersFinite DEF Holders, Ref

\* Whoever holds an object is counted.
LEMMA HeldIsCounted ==
  ASSUME Types, Counted, NEW o \in Objects
  PROVE  /\ obj[o].refcount \in Nat /\ obj[o].refcount >= Holders(o)
         /\ g_drm = o => obj[o].refcount >= 1
         /\ \A v \in Vts : term[v].drm = o => obj[o].refcount >= 1
<1>1. obj[o].refcount \in Nat
  BY DEF Types, DisplayOK, Display, Record
<1>2. obj[o].refcount >= Holders(o)
  BY <1>1, HoldersType DEF Counted
<1>3. g_drm = o => Holders(o) >= 1
  BY UsersFinite DEF Holders, Ref
<1>4. ASSUME NEW v \in Vts, term[v].drm = o PROVE Holders(o) >= 1
  <2>1. v \in Users(o)
    BY <1>4 DEF Users
  <2>2. Cardinality(Users(o)) >= 1
    BY <2>1, UsersFinite, FS_EmptySet
  <2> QED
    BY <2>2, UsersFinite DEF Holders, Ref
<1> QED
  BY <1>1, <1>2, <1>3, <1>4, HoldersType

\* One terminal changes hands.
LEMMA UsersMove ==
  ASSUME Types, NEW v \in Vts, NEW f, f.drm \in Objects \cup {None},
         term' = [term EXCEPT ![v] = f], UNCHANGED g_drm
  PROVE  /\ \A w \in Vts : term'[w] = IF w = v THEN f ELSE term[w]
         /\ \A o \in Objects : Holders(o)' = Holders(o) + Ref(o, f.drm) - Ref(o, term[v].drm)
<1>1. \A w \in Vts : term'[w] = IF w = v THEN f ELSE term[w]
  BY DEF Types
<1>2. ASSUME NEW o \in Objects
      PROVE  Holders(o)' = Holders(o) + Ref(o, f.drm) - Ref(o, term[v].drm)
  <2>0. IsFiniteSet(Users(o)) /\ Cardinality(Users(o)) \in Nat
    BY UsersFinite
  <2>1. Users(o)' = IF f.drm = o THEN Users(o) \cup {v} ELSE Users(o) \ {v}
    BY <1>1 DEF Users
  <2>2. v \in Users(o) <=> term[v].drm = o
    BY DEF Users
  <2>3. Cardinality(Users(o) \cup {v}) = IF v \in Users(o) THEN Cardinality(Users(o))
                                         ELSE Cardinality(Users(o)) + 1
    BY <2>0, FS_AddElement
  <2>4. Cardinality(Users(o) \ {v}) = IF v \in Users(o) THEN Cardinality(Users(o)) - 1
                                      ELSE Cardinality(Users(o))
    BY <2>0, FS_RemoveElement
  <2>5. Cardinality(Users(o))' = Cardinality(Users(o)) + Ref(o, f.drm) - Ref(o, term[v].drm)
    BY <2>0, <2>1, <2>2, <2>3, <2>4 DEF Ref
  <2>6. Ref(o, g_drm)' = Ref(o, g_drm) /\ Ref(o, g_drm) \in Nat
    BY DEF Ref
  <2> QED
    BY <2>0, <2>5, <2>6 DEF Holders, Ref
<1> QED
  BY <1>1, <1>2

\* The new display of a step.
LEMMA DisplayStep ==
  ASSUME NEW k, DisplayOK(k), SetDisplay(k)
  PROVE  DisplayOK(Display)' /\ \A o \in Objects : obj'[o].refcount = Count(k, o)
BY DEF SetDisplay, Display, DisplayOK, Count

\* A step of a terminal that adds to the counts what it adds to the holders.
LEMMA Balanced ==
  ASSUME Types, Counted, NEW v \in Vts, NEW f, f.drm \in Objects \cup {None},
         term' = [term EXCEPT ![v] = f], UNCHANGED <<g_drm, leaked>>,
         NEW k, DisplayOK(k), SetDisplay(k),
         \A o \in Objects : Count(k, o) = Count(Display, o) + Ref(o, f.drm) - Ref(o, term[v].drm)
  PROVE  /\ Counted' /\ DisplayOK(Display)'
         /\ term' = [w \in Vts |-> term'[w]]
         /\ \A w \in Vts : term'[w] = IF w = v THEN f ELSE term[w]
         /\ \A w \in Vts : term'[w].drm \in Objects \cup {None}
<1>1. DisplayOK(Display)' /\ \A o \in Objects : obj'[o].refcount = Count(k, o)
  BY DisplayStep
<1>2. /\ \A w \in Vts : term'[w] = IF w = v THEN f ELSE term[w]
      /\ \A o \in Objects : Holders(o)' = Holders(o) + Ref(o, f.drm) - Ref(o, term[v].drm)
  BY UsersMove
<1>3. \A o \in Objects : /\ obj'[o].refcount = obj[o].refcount + Ref(o, f.drm) - Ref(o, term[v].drm)
                         /\ obj[o].refcount \in Nat /\ Holders(o) \in Nat
                         /\ Ref(o, f.drm) \in Nat /\ Ref(o, term[v].drm) \in Nat
  BY <1>1, HeldIsCounted, HoldersType DEF Count, Display, Ref
<1>4. Counted'
  <2> SUFFICES ASSUME NEW o \in Objects
               PROVE  IF leaked THEN obj'[o].refcount >= Holders(o)'
                                ELSE obj'[o].refcount = Holders(o)'
    BY DEF Counted
  <2>1. IF leaked THEN obj[o].refcount >= Holders(o) ELSE obj[o].refcount = Holders(o)
    BY DEF Counted
  <2> QED
    BY <1>2, <1>3, <2>1
<1>5. term' = [w \in Vts |-> term'[w]]
  BY DEF Types
<1>6. \A w \in Vts : term'[w].drm \in Objects \cup {None}
  BY <1>2 DEF Types
<1> QED
  BY <1>1, <1>2, <1>4, <1>5, <1>6

LEMMA InitOK == Init => IInv
<1> SUFFICES ASSUME Init PROVE IInv
  OBVIOUS
<1>1. /\ obj = [o \in Objects |-> Freed] /\ g_drm = None /\ leaked = FALSE
      /\ term = [v \in Vts |-> NoTerm] /\ pc = "start" /\ todo = {}
  BY DEF Init
<1>2. /\ \A o \in Objects : obj[o] = Freed
      /\ \A v \in Vts : term[v] = NoTerm /\ term[v].drm = None /\ term[v].open = FALSE
  BY <1>1 DEF NoTerm
<1>3. Record(Freed) /\ Freed.refcount = 0
  BY DEF Record, Freed
<1>4. DisplayOK(Display)
  BY <1>1, <1>2, <1>3 DEF DisplayOK, Display
<1>5. ASSUME NEW o \in Objects PROVE Holders(o) = 0
  <2>1. Users(o) = {}
    BY <1>2, NoneAssumption DEF Users
  <2> QED
    BY <1>1, <2>1, NoneAssumption, FS_EmptySet DEF Holders, Ref
<1>6. Types
  BY <1>1, <1>2, <1>4 DEF Types
<1>7. Unheld /\ Moved
  BY <1>1, <1>2, <1>3 DEF Unheld, Moved
<1>8. Counted
  BY <1>2, <1>3, <1>5 DEF Counted
<1> QED
  BY <1>6, <1>7, <1>8 DEF IInv

\* A display with other counts whose holders stay.
LEMMA Kept ==
  ASSUME Types, Counted, UNCHANGED <<g_drm, term, leaked>>,
         NEW k, Same(Display, k), SetDisplay(k)
  PROVE  Counted' /\ DisplayOK(Display)'
<1>1. DisplayOK(Display)' /\ \A o \in Objects : obj'[o].refcount = Count(k, o)
  BY DisplayStep DEF Same
<1>2. \A o \in Objects : obj'[o].refcount = obj[o].refcount /\ Holders(o)' = Holders(o)
  BY <1>1 DEF Same, Count, Display, Holders, Users, Ref
<1> QED
  BY <1>1, <1>2 DEF Counted

\* A framebuffer on the current drm object.
LEMMA MadeNow ==
  ASSUME Types, NEW how
  PROVE  LET b == BufferInit(Display, g_drm, how) IN
           /\ DisplayOK(b.k) /\ b.fb.drm = g_drm /\ b.fb.open = TRUE
           /\ \A o \in Objects : Count(b.k, o) = Count(Display, o) + Ref(o, g_drm)
<1>1. DisplayOK(Display) /\ g_drm \in Objects \cup {None}
  BY DEF Types
<1> DEFINE k == Display
<1>2. DisplayOK(k)
  BY <1>1
<1> HIDE DEF k
<1>3. /\ DisplayOK(BufferInit(k, g_drm, how).k)
      /\ \A o \in Objects : Count(BufferInit(k, g_drm, how).k, o) = Count(k, o) + Ref(o, g_drm)
      /\ BufferInit(k, g_drm, how).fb.drm = g_drm
      /\ BufferInit(k, g_drm, how).fb.open = TRUE
  BY <1>1, <1>2, InitCounts, Zenon
<1> QED
  BY <1>3, Zenon DEF k

\* Setting the mode of a framebuffer that was just made, or not.
LEMMA MadeAndShown ==
  ASSUME Types, NEW how,
         LET b == BufferInit(Display, g_drm, how) IN
           \/ SetDisplay(b.k)
           \/ \E atomic \in AtomicOutcomes(g_drm), legacy \in BOOLEAN :
                SetDisplay(SetMode(b.k, b.fb, atomic, legacy))
  PROVE  \E k : /\ DisplayOK(k) /\ SetDisplay(k)
                /\ \A o \in Objects : Count(k, o) = Count(Display, o) + Ref(o, g_drm)
<1> DEFINE b == BufferInit(Display, g_drm, how)
<1>1. /\ DisplayOK(b.k)
      /\ \A o \in Objects : Count(b.k, o) = Count(Display, o) + Ref(o, g_drm)
  BY MadeNow
<1> HIDE DEF b
<1>2. ASSUME NEW atomic \in AtomicOutcomes(g_drm), NEW legacy \in BOOLEAN,
             SetDisplay(SetMode(b.k, b.fb, atomic, legacy))
      PROVE  \E k : /\ DisplayOK(k) /\ SetDisplay(k)
                    /\ \A o \in Objects : Count(k, o) = Count(Display, o) + Ref(o, g_drm)
  <2>1. Same(b.k, SetMode(b.k, b.fb, atomic, legacy))
    BY <1>1, SetModeSame
  <2> QED
    BY <1>1, <1>2, <2>1 DEF Same
<1> QED
  BY <1>1, <1>2 DEF b

LEMMA OpenTermStep == ASSUME IInv, NEW v \in Vts, NEW how, OpenTerm(v, how) PROVE IInv'
<1> DEFINE f == BufferInit(Display, g_drm, how).fb
<1>0. Types /\ Unheld /\ Counted /\ Moved
  BY DEF IInv
<1>1. /\ pc = "idle" /\ v \notin Open /\ UNCHANGED <<g_drm, leaked, pc, todo>>
      /\ term' = [term EXCEPT ![v] = f]
  BY DEF OpenTerm
<1>2. f.drm = g_drm /\ f.open = TRUE /\ g_drm \in Objects \cup {None}
  <2>1. f.drm = g_drm /\ f.open = TRUE
    BY <1>0, MadeNow
  <2> QED
    BY <1>0, <2>1 DEF Types
<1>3. PICK k : /\ DisplayOK(k) /\ SetDisplay(k)
               /\ \A o \in Objects : Count(k, o) = Count(Display, o) + Ref(o, g_drm)
  BY <1>0, MadeAndShown DEF OpenTerm
<1> HIDE DEF f
<1>4. term[v].drm = None
  BY <1>0, <1>1 DEF Unheld, Open
<1>5. \A o \in Objects : Ref(o, None) = 0 /\ Ref(o, g_drm) \in Nat /\ Count(Display, o) \in Nat
  BY <1>0, NoneAssumption, HeldIsCounted DEF Ref, Count, Display
<1>6. \A o \in Objects : Count(k, o) = Count(Display, o) + Ref(o, f.drm) - Ref(o, term[v].drm)
  BY <1>2, <1>3, <1>4, <1>5
<1>7. /\ Counted' /\ DisplayOK(Display)'
      /\ term' = [w \in Vts |-> term'[w]]
      /\ \A w \in Vts : term'[w] = IF w = v THEN f ELSE term[w]
      /\ \A w \in Vts : term'[w].drm \in Objects \cup {None}
  BY <1>0, <1>1, <1>2, <1>3, <1>6, Balanced
<1>8. Types'
  BY <1>0, <1>1, <1>7 DEF Types
<1>9. Unheld'
  BY <1>0, <1>1, <1>2, <1>7 DEF Unheld
<1>10. Moved'
  BY <1>0, <1>1, <1>2, <1>7 DEF Moved, Open
<1> QED
  BY <1>7, <1>8, <1>9, <1>10 DEF IInv

\* What was made and given back in one step.
LEMMA MadeAndDestroyed ==
  ASSUME Types, NEW how
  PROVE  LET b == BufferInit(Display, g_drm, how)
         IN  Same(Display, BufferDestroy(b.k, b.fb))
<1> DEFINE b == BufferInit(Display, g_drm, how)
<1>1. /\ DisplayOK(b.k) /\ b.fb.drm = g_drm /\ g_drm \in Objects \cup {None}
      /\ \A o \in Objects : Count(b.k, o) = Count(Display, o) + Ref(o, g_drm)
  <2>1. g_drm \in Objects \cup {None}
    BY DEF Types
  <2> QED
    BY <2>1, MadeNow
<1>2. \A o \in Objects : Count(Display, o) \in Nat /\ Ref(o, g_drm) \in Nat
  BY DEF Types, DisplayOK, Count, Record, Ref
<1> HIDE DEF b
<1>3. g_drm \in Objects => Count(b.k, g_drm) >= 1
  BY <1>1, <1>2 DEF Ref
<1>4. /\ DisplayOK(BufferDestroy(b.k, b.fb))
      /\ \A o \in Objects : Count(BufferDestroy(b.k, b.fb), o) = Count(b.k, o) - Ref(o, g_drm)
  BY <1>1, <1>3, DestroyCounts
<1>5. \A o \in Objects : Count(BufferDestroy(b.k, b.fb), o) = Count(Display, o)
  BY <1>1, <1>2, <1>4
<1> QED
  BY <1>4, <1>5 DEF Same, b

LEMMA OpenFailsStep == ASSUME IInv, NEW v \in Vts, NEW how, OpenFails(v, how) PROVE IInv'
<1>0. Types /\ Unheld /\ Counted /\ Moved
  BY DEF IInv
<1>1. UNCHANGED <<g_drm, term, leaked, pc, todo>> /\ pc = "idle"
  BY DEF OpenFails
<1>2. Counted' /\ DisplayOK(Display)'
  BY <1>0, <1>1, MadeAndDestroyed, Kept DEF OpenFails
<1>3. Types' /\ Unheld' /\ Moved'
  BY <1>0, <1>1, <1>2 DEF Types, Unheld, Moved, Open
<1> QED
  BY <1>2, <1>3 DEF IInv

LEMMA ActivateStep ==
  ASSUME IInv, NEW v \in Vts, NEW atomic, NEW legacy, Activate(v, atomic, legacy)
  PROVE  IInv'
<1>0. Types /\ Unheld /\ Counted /\ Moved
  BY DEF IInv
<1>1. UNCHANGED <<g_drm, term, leaked, pc, todo>> /\ pc = "idle"
  BY DEF Activate
<1>2. Same(Display, SetMode(Display, term[v], atomic, legacy))
  BY <1>0, SetModeSame DEF Types
<1>3. Counted' /\ DisplayOK(Display)'
  BY <1>0, <1>1, <1>2, Kept DEF Activate
<1>4. Types' /\ Unheld' /\ Moved'
  BY <1>0, <1>1, <1>3 DEF Types, Unheld, Moved, Open
<1> QED
  BY <1>3, <1>4 DEF IInv

\* The new terminal has its reference before the old one gives its own back.
LEMMA RestartStep ==
  ASSUME IInv, NEW v \in Vts, NEW how, NEW atomic, NEW legacy, Restart(v, how, atomic, legacy)
  PROVE  IInv'
<1> DEFINE b == BufferInit(Display, g_drm, how)
           shown == SetMode(b.k, b.fb, atomic, legacy)
           k == BufferDestroy(shown, term[v])
           f == b.fb
<1>0. Types /\ Unheld /\ Counted /\ Moved
  BY DEF IInv
<1>1. /\ pc = "idle" /\ v \in Open /\ UNCHANGED <<g_drm, leaked, pc, todo>>
      /\ term' = [term EXCEPT ![v] = f] /\ SetDisplay(k)
  BY DEF Restart
<1>2. /\ DisplayOK(b.k) /\ f.drm = g_drm /\ f.open = TRUE /\ g_drm \in Objects \cup {None}
      /\ \A o \in Objects : Count(b.k, o) = Count(Display, o) + Ref(o, g_drm)
  <2>1. g_drm \in Objects \cup {None}
    BY <1>0 DEF Types
  <2> QED
    BY <1>0, <2>1, MadeNow
<1> HIDE DEF b
<1>3. DisplayOK(shown) /\ \A o \in Objects : Count(shown, o) = Count(Display, o) + Ref(o, g_drm)
  <2>1. Same(b.k, shown)
    BY <1>2, SetModeSame
  <2> QED
    BY <1>2, <2>1 DEF Same
<1> HIDE DEF shown, f
<1>4. term[v].drm \in Objects \cup {None}
  BY <1>0 DEF Types
<1>5. term[v].drm \in Objects => Count(shown, term[v].drm) >= 1
  BY <1>0, <1>3, HeldIsCounted DEF Count, Display, Ref
<1>6. DisplayOK(k) /\ \A o \in Objects : Count(k, o) = Count(shown, o) - Ref(o, term[v].drm)
  BY <1>3, <1>4, <1>5, DestroyCounts
<1> HIDE DEF k
<1>7. \A o \in Objects : Count(k, o) = Count(Display, o) + Ref(o, f.drm) - Ref(o, term[v].drm)
  <2>1. \A o \in Objects : /\ Count(k, o) = Count(shown, o) - Ref(o, term[v].drm)
                            /\ Count(shown, o) = Count(Display, o) + Ref(o, f.drm)
    BY <1>2, <1>3, <1>6
  <2>2. \A o \in Objects : /\ Count(Display, o) \in Nat
                            /\ Ref(o, f.drm) \in Nat /\ Ref(o, term[v].drm) \in Nat
    BY <1>0, HeldIsCounted DEF Ref, Count, Display
  <2> QED
    BY <2>1, <2>2
<1>8. /\ Counted' /\ DisplayOK(Display)'
      /\ term' = [w \in Vts |-> term'[w]]
      /\ \A w \in Vts : term'[w] = IF w = v THEN f ELSE term[w]
      /\ \A w \in Vts : term'[w].drm \in Objects \cup {None}
  BY <1>0, <1>1, <1>2, <1>6, <1>7, Balanced
<1>9. Types'
  BY <1>0, <1>1, <1>8 DEF Types
<1>10. Unheld' /\ Moved'
  BY <1>0, <1>1, <1>2, <1>8 DEF Unheld, Moved, Open
<1> QED
  BY <1>8, <1>9, <1>10 DEF IInv

\* The table forgets a terminal that nobody closes: its reference stays.
LEMMA RestartFailsStep ==
  ASSUME IInv, NEW v \in Vts, NEW how, RestartFails(v, how)
  PROVE  IInv'
<1>0. Types /\ Unheld /\ Counted /\ Moved
  BY DEF IInv
<1>1. /\ pc = "idle" /\ v \in Open /\ UNCHANGED <<g_drm, pc, todo>>
      /\ term' = [term EXCEPT ![v] = NoTerm] /\ leaked' = TRUE
  BY DEF RestartFails
<1>2. /\ DisplayOK(Display)'
      /\ \A o \in Objects : obj'[o].refcount = obj[o].refcount
  BY <1>0, MadeAndDestroyed, DisplayStep DEF RestartFails, Same, Count, Display
<1>3. NoTerm.drm = None /\ NoTerm.open = FALSE
  BY DEF NoTerm
<1>4. /\ \A w \in Vts : term'[w] = IF w = v THEN NoTerm ELSE term[w]
      /\ \A o \in Objects : Holders(o)' = Holders(o) + Ref(o, None) - Ref(o, term[v].drm)
  BY <1>0, <1>1, <1>3, UsersMove
<1>5. Counted'
  <2>1. \A o \in Objects : /\ Ref(o, None) = 0 /\ Ref(o, term[v].drm) \in Nat
                           /\ Holders(o) \in Nat /\ obj[o].refcount \in Nat
                           /\ obj[o].refcount >= Holders(o)
    BY <1>0, NoneAssumption, HeldIsCounted, HoldersType DEF Ref
  <2>2. \A o \in Objects : obj'[o].refcount >= Holders(o)'
    BY <1>2, <1>4, <2>1
  <2> QED
    BY <1>1, <2>2 DEF Counted
<1>6. Types'
  BY <1>0, <1>1, <1>2, <1>3, <1>4 DEF Types
<1>7. Unheld' /\ Moved'
  BY <1>0, <1>1, <1>3, <1>4 DEF Unheld, Moved, Open
<1> QED
  BY <1>5, <1>6, <1>7 DEF IInv

\* A terminal gives its framebuffer back and has none.
LEMMA GivenBack ==
  ASSUME Types, Counted, NEW v \in Vts, NEW f, f.drm = None, UNCHANGED <<g_drm, leaked>>,
         term' = [term EXCEPT ![v] = f], SetDisplay(BufferDestroy(Display, term[v]))
  PROVE  /\ Counted' /\ DisplayOK(Display)'
         /\ term' = [w \in Vts |-> term'[w]]
         /\ \A w \in Vts : term'[w] = IF w = v THEN f ELSE term[w]
         /\ \A w \in Vts : term'[w].drm \in Objects \cup {None}
<1> DEFINE k == BufferDestroy(Display, term[v])
<1>1. term[v].drm \in Objects => Count(Display, term[v].drm) >= 1
  BY HeldIsCounted DEF Count, Display
<1>2. DisplayOK(k) /\ \A o \in Objects : Count(k, o) = Count(Display, o) - Ref(o, term[v].drm)
  BY <1>1, DestroyCounts DEF Types
<1>3. \A o \in Objects : Ref(o, f.drm) = 0 /\ Ref(o, term[v].drm) \in Nat /\ Count(Display, o) \in Nat
  BY NoneAssumption, HeldIsCounted DEF Ref, Count, Display
<1> HIDE DEF k
<1>4. \A o \in Objects : Count(k, o) = Count(Display, o) + Ref(o, f.drm) - Ref(o, term[v].drm)
  BY <1>2, <1>3
<1> QED
  BY <1>2, <1>4, Balanced DEF k

LEMMA DestroySplashStep == ASSUME IInv, DestroySplash PROVE IInv'
<1>0. Types /\ Unheld /\ Counted /\ Moved /\ 0 \in Vts
  BY VtsAssumption DEF IInv
<1>1. /\ pc = "idle" /\ UNCHANGED <<g_drm, leaked, pc, todo>>
      /\ term' = [term EXCEPT ![0] = NoTerm] /\ SetDisplay(BufferDestroy(Display, term[0]))
  BY DEF DestroySplash
<1>2. NoTerm.drm = None /\ NoTerm.open = FALSE
  BY DEF NoTerm
<1>3. /\ Counted' /\ DisplayOK(Display)'
      /\ term' = [w \in Vts |-> term'[w]]
      /\ \A w \in Vts : term'[w] = IF w = 0 THEN NoTerm ELSE term[w]
      /\ \A w \in Vts : term'[w].drm \in Objects \cup {None}
  BY <1>0, <1>1, <1>2, GivenBack
<1>4. Types'
  BY <1>0, <1>1, <1>3 DEF Types
<1>5. Unheld' /\ Moved'
  BY <1>0, <1>1, <1>2, <1>3 DEF Unheld, Moved, Open
<1> QED
  BY <1>3, <1>4, <1>5 DEF IInv

\* The steps in which no reference moves.
LEMMA QuietStep ==
  ASSUME IInv, UNCHANGED <<obj, g_drm, term, leaked>>
  PROVE  /\ DisplayOK(Display)' /\ Counted'
         /\ term' = [v \in Vts |-> term'[v]]
<1>1. /\ DisplayOK(Display) /\ Counted
      /\ term = [v \in Vts |-> term[v]]
  BY DEF IInv, Types
<1>2. DisplayOK(Display)'
  BY <1>1 DEF DisplayOK, Display
<1>3. Counted'
  BY <1>1 DEF Counted, Holders, Users, Ref
<1> QED
  BY <1>1, <1>2, <1>3

LEMMA ChromeShowsStep == ASSUME IInv, ChromeShows PROVE IInv'
<1>1. UNCHANGED <<obj, g_drm, term, leaked, pc, todo>>
  BY DEF ChromeShows
<1>2. DisplayOK(Display)' /\ Counted' /\ term' = [v \in Vts |-> term'[v]]
  BY <1>1, QuietStep
<1>3. Types' /\ Unheld' /\ Moved'
  BY <1>1, <1>2 DEF IInv, Types, Unheld, Moved, Open
<1> QED
  BY <1>2, <1>3 DEF IInv

LEMMA HotplugTurnStep == ASSUME IInv, HotplugTurn PROVE IInv'
<1>1. /\ UNCHANGED <<obj, g_drm, term, leaked>>
      /\ pc = "destroy" /\ todo = {} /\ pc' = "create" /\ todo' = Open
  BY DEF HotplugTurn
<1>2. DisplayOK(Display)' /\ Counted' /\ term' = [v \in Vts |-> term'[v]]
  BY <1>1, QuietStep
<1>3. Types' /\ Unheld' /\ Moved'
  BY <1>1, <1>2 DEF IInv, Types, Unheld, Moved, Open
<1> QED
  BY <1>2, <1>3 DEF IInv

LEMMA HotplugDoneStep == ASSUME IInv, HotplugDone PROVE IInv'
<1>1. /\ UNCHANGED <<obj, g_drm, term, leaked, todo>>
      /\ pc = "create" /\ todo = {} /\ pc' = "idle"
  BY DEF HotplugDone
<1>2. DisplayOK(Display)' /\ Counted' /\ term' = [v \in Vts |-> term'[v]]
  BY <1>1, QuietStep
<1>3. Types' /\ Unheld' /\ Moved'
  BY <1>1, <1>2 DEF IInv, Types, Unheld, Moved, Open
<1> QED
  BY <1>2, <1>3 DEF IInv

\* g_drm changes, and with it one reference of each of two objects.
LEMMA CurrentMoves ==
  ASSUME Types, Counted, UNCHANGED <<term, leaked>>,
         g_drm' \in Objects \cup {None}, DisplayOK(Display)',
         \A o \in Objects : obj'[o].refcount = obj[o].refcount - Ref(o, g_drm) + Ref(o, g_drm')
  PROVE  Counted'
<1> SUFFICES ASSUME NEW o \in Objects
             PROVE  IF leaked THEN obj'[o].refcount >= Holders(o)'
                              ELSE obj'[o].refcount = Holders(o)'
  BY DEF Counted
<1>1. IF leaked THEN obj[o].refcount >= Holders(o) ELSE obj[o].refcount = Holders(o)
  BY DEF Counted
<1>2. Holders(o)' = Cardinality(Users(o)) + Ref(o, g_drm')
  BY DEF Holders, Users, Ref
<1>3. /\ Cardinality(Users(o)) \in Nat /\ obj[o].refcount \in Nat
      /\ Ref(o, g_drm) \in Nat /\ Ref(o, g_drm') \in Nat
  BY UsersFinite, HeldIsCounted DEF Ref
<1> QED
  BY <1>1, <1>2, <1>3 DEF Holders

\* A drm object is made at an address that is free.
LEMMA NewObject ==
  ASSUME NEW k, DisplayOK(k), NEW o \in Objects, NEW atomic, Count(k, o) = 0
  PROVE  LET l == [k EXCEPT !.obj[o] = Fresh(atomic)]
         IN  /\ DisplayOK(l)
             /\ \A p \in Objects : Count(l, p) = Count(k, p) + Ref(p, o)
<1> DEFINE d == Fresh(atomic)
           l == [k EXCEPT !.obj[o] = d]
<1>1. Record(d) /\ d.refcount = 1
  BY DEF Record, Fresh
<1> HIDE DEF d
<1>2. l = With(k, o, d, k.scan)
  BY DEF With, DisplayOK
<1> HIDE DEF l
<1>3. DisplayOK(l) /\ \A p \in Objects : l.obj[p] = IF p = o THEN d ELSE k.obj[p]
  BY <1>1, <1>2, WithOK
<1>4. \A p \in Objects : Count(k, p) \in Nat
  BY DEF DisplayOK, Count, Record
<1>5. \A p \in Objects : Count(l, p) = Count(k, p) + Ref(p, o)
  BY <1>1, <1>3, <1>4 DEF Count, Ref
<1> QED
  BY <1>3, <1>5 DEF d, l

LEMMA StartStep == ASSUME IInv, Start PROVE IInv'
<1>0. Types /\ Unheld /\ Counted /\ Moved
  BY DEF IInv
<1>1. /\ pc = "start" /\ pc' = "idle" /\ UNCHANGED <<term, scan, leaked, todo>>
  BY DEF Start
<1>2. /\ g_drm = None /\ \A v \in Vts : ~term[v].open /\ term[v].drm = None
      /\ \A o \in Objects : obj[o].refcount = 0
  BY <1>0, <1>1 DEF Unheld
<1>3. CASE UNCHANGED <<g_drm, obj>>
  <2>1. DisplayOK(Display)' /\ Counted' /\ term' = [v \in Vts |-> term'[v]]
    BY <1>1, <1>3, QuietStep
  <2>2. Types' /\ Unheld' /\ Moved'
    BY <1>0, <1>1, <1>2, <1>3, <2>1 DEF Types, Unheld, Moved, Open
  <2> QED
    BY <2>1, <2>2 DEF IInv
<1>4. ASSUME NEW o \in Objects, NEW atomic \in BOOLEAN, g_drm' = o,
             obj' = [obj EXCEPT ![o] = Fresh(atomic)]
      PROVE  IInv'
  <2> DEFINE l == [Display EXCEPT !.obj[o] = Fresh(atomic)]
  <2>1. SetDisplay(l)
    BY <1>1, <1>4 DEF SetDisplay, Display
  <2>2. DisplayOK(l) /\ \A p \in Objects : Count(l, p) = Count(Display, p) + Ref(p, o)
    <3>1. DisplayOK(Display) /\ Count(Display, o) = 0
      BY <1>0, <1>2 DEF Types, Count, Display
    <3> QED
      BY <3>1, NewObject
  <2> HIDE DEF l
  <2>3. DisplayOK(Display)' /\ \A p \in Objects : obj'[p].refcount = obj[p].refcount + Ref(p, o)
    BY <2>1, <2>2, DisplayStep DEF Count, Display
  <2>4. \A p \in Objects : Ref(p, g_drm) = 0 /\ Ref(p, o) \in Nat /\ obj[p].refcount \in Nat
    BY <1>2, NoneAssumption DEF Ref
  <2>5. \A p \in Objects : obj'[p].refcount = obj[p].refcount - Ref(p, g_drm) + Ref(p, g_drm')
    BY <1>4, <2>3, <2>4
  <2>6. Counted'
    BY <1>0, <1>1, <1>4, <2>3, <2>5, CurrentMoves
  <2>7. Types' /\ Unheld' /\ Moved'
    BY <1>0, <1>1, <1>2, <1>4, <2>3 DEF Types, Unheld, Moved, Open
  <2> QED
    BY <2>6, <2>7 DEF IInv
<1> QED
  BY <1>3, <1>4 DEF Start

\* drm_rescan has found another monitor or none: the old drm object loses the
\* reference of g_drm, the new one was nobody's.
LEMMA HotplugStep ==
  ASSUME IInv, NEW new \in Objects \cup {None}, NEW atomic \in BOOLEAN, Hotplug(new, atomic)
  PROVE  IInv'
<1> DEFINE k == DelRef(Display, g_drm)
           l == IF new = None THEN k ELSE [k EXCEPT !.obj[new] = Fresh(atomic)]
<1>0. Types /\ Unheld /\ Counted /\ Moved
  BY DEF IInv
<1>1. /\ pc = "idle" /\ pc' = "destroy" /\ todo' = Open /\ UNCHANGED <<term, leaked>>
      /\ new # None => obj[new] = Freed
      /\ g_drm' = new /\ SetDisplay(l)
  BY DEF Hotplug, Rescan
<1>2. DisplayOK(k) /\ \A o \in Objects : Count(k, o) = Count(Display, o) - Ref(o, g_drm)
  <2>1. g_drm \in Objects => Count(Display, g_drm) >= 1
    BY <1>0, HeldIsCounted DEF Count, Display
  <2> QED
    BY <1>0, <2>1, DelRefCounts DEF Types
<1>3. \A o \in Objects : Count(Display, o) \in Nat /\ Ref(o, g_drm) \in Nat /\ Ref(o, new) \in Nat
  BY <1>0, HeldIsCounted DEF Ref, Count, Display
<1> HIDE DEF k
<1>4. DisplayOK(l) /\ \A o \in Objects : Count(l, o) = Count(k, o) + Ref(o, new)
  <2>1. CASE new = None
    <3>1. \A o \in Objects : Ref(o, new) = 0
      BY <2>1, NoneAssumption DEF Ref
    <3> QED
      BY <1>2, <1>3, <2>1, <3>1
  <2>2. CASE new # None
    <3>1. new \in Objects /\ Count(Display, new) = 0
      BY <1>1, <2>2 DEF Count, Display, Freed
    <3>2. new # g_drm
      BY <1>0, <3>1, HeldIsCounted DEF Count, Display
    <3>3. Count(k, new) = 0
      BY <1>2, <3>1, <3>2 DEF Ref
    <3> QED
      BY <1>2, <2>2, <3>1, <3>3, NewObject
  <2> QED
    BY <2>1, <2>2
<1> HIDE DEF l
<1>5. DisplayOK(Display)' /\ \A o \in Objects : obj'[o].refcount = Count(l, o)
  BY <1>1, <1>4, DisplayStep
<1>6. \A o \in Objects : obj'[o].refcount = obj[o].refcount - Ref(o, g_drm) + Ref(o, g_drm')
  <2>1. \A o \in Objects : Count(l, o) = Count(Display, o) - Ref(o, g_drm) + Ref(o, new)
    BY <1>2, <1>3, <1>4
  <2> QED
    BY <1>1, <1>5, <2>1 DEF Count, Display
<1>7. Counted'
  BY <1>0, <1>1, <1>5, <1>6, CurrentMoves
<1>8. Types' /\ Unheld' /\ Moved'
  BY <1>0, <1>1, <1>5 DEF Types, Unheld, Moved, Open
<1> QED
  BY <1>7, <1>8 DEF IInv

\* main_done gives up the current drm object and no other.
LEMMA StopStep == ASSUME IInv, Stop PROVE IInv'
<1> DEFINE k == DelRef(Display, g_drm)
<1>0. Types /\ Unheld /\ Counted /\ Moved
  BY DEF IInv
<1>1. /\ pc = "idle" /\ pc' = "stopped" /\ UNCHANGED <<term, leaked, todo>>
      /\ g_drm' = None /\ SetDisplay(k)
  BY DEF Stop
<1>2. DisplayOK(k) /\ \A o \in Objects : Count(k, o) = Count(Display, o) - Ref(o, g_drm)
  <2>1. g_drm \in Objects => Count(Display, g_drm) >= 1
    BY <1>0, HeldIsCounted DEF Count, Display
  <2> QED
    BY <1>0, <2>1, DelRefCounts DEF Types
<1> HIDE DEF k
<1>3. DisplayOK(Display)' /\ \A o \in Objects : obj'[o].refcount = Count(k, o)
  BY <1>1, <1>2, DisplayStep
<1>4. \A o \in Objects : /\ Count(Display, o) = obj[o].refcount /\ obj[o].refcount \in Nat
                         /\ Ref(o, g_drm) \in Nat /\ Ref(o, None) = 0
  BY <1>0, NoneAssumption, HeldIsCounted DEF Ref, Count, Display
<1>5. \A o \in Objects : obj'[o].refcount = obj[o].refcount - Ref(o, g_drm) + Ref(o, g_drm')
  BY <1>1, <1>2, <1>3, <1>4
<1>6. Counted'
  BY <1>0, <1>1, <1>3, <1>5, CurrentMoves
<1>7. Types' /\ Unheld' /\ Moved'
  BY <1>0, <1>1, <1>3 DEF Types, Unheld, Moved
<1> QED
  BY <1>6, <1>7 DEF IInv

\* The first loop of a hotplug, one terminal.
LEMMA HotplugDestroyStep ==
  ASSUME IInv, NEW v \in Vts, HotplugDestroy(v)
  PROVE  IInv'
<1>0. Types /\ Unheld /\ Counted /\ Moved
  BY DEF IInv
<1>1. /\ pc = "destroy" /\ v \in todo /\ todo' = todo \ {v} /\ UNCHANGED <<g_drm, leaked, pc>>
      /\ term' = [term EXCEPT ![v] = NoBuffer] /\ SetDisplay(BufferDestroy(Display, term[v]))
  BY DEF HotplugDestroy
<1>2. NoBuffer.drm = None /\ NoBuffer.open = TRUE
  BY DEF NoBuffer
<1>3. /\ Counted' /\ DisplayOK(Display)'
      /\ term' = [w \in Vts |-> term'[w]]
      /\ \A w \in Vts : term'[w] = IF w = v THEN NoBuffer ELSE term[w]
      /\ \A w \in Vts : term'[w].drm \in Objects \cup {None}
  BY <1>0, <1>1, <1>2, GivenBack
<1>4. Types'
  BY <1>0, <1>1, <1>3 DEF Types
<1>5. Unheld' /\ Moved'
  BY <1>0, <1>1, <1>2, <1>3 DEF Unheld, Moved, Open
<1> QED
  BY <1>3, <1>4, <1>5 DEF IInv

\* The second loop, one terminal.
LEMMA HotplugCreateStep ==
  ASSUME IInv, NEW v \in Vts, NEW how, HotplugCreate(v, how)
  PROVE  IInv'
<1> DEFINE f == BufferInit(Display, g_drm, how).fb
<1>0. Types /\ Unheld /\ Counted /\ Moved
  BY DEF IInv
<1>1. /\ pc = "create" /\ v \in todo /\ todo' = todo \ {v} /\ UNCHANGED <<g_drm, leaked, pc>>
      /\ term' = [term EXCEPT ![v] = f]
  BY DEF HotplugCreate
<1>2. f.drm = g_drm /\ f.open = TRUE /\ g_drm \in Objects \cup {None}
  <2>1. f.drm = g_drm /\ f.open = TRUE
    BY <1>0, MadeNow
  <2> QED
    BY <1>0, <2>1 DEF Types
<1>3. PICK k : /\ DisplayOK(k) /\ SetDisplay(k)
               /\ \A o \in Objects : Count(k, o) = Count(Display, o) + Ref(o, g_drm)
  BY <1>0, MadeAndShown DEF HotplugCreate
<1> HIDE DEF f
<1>4. term[v].drm = None
  BY <1>0, <1>1 DEF Unheld
<1>5. \A o \in Objects : Ref(o, None) = 0 /\ Ref(o, g_drm) \in Nat /\ Count(Display, o) \in Nat
  BY <1>0, NoneAssumption, HeldIsCounted DEF Ref, Count, Display
<1>6. \A o \in Objects : Count(k, o) = Count(Display, o) + Ref(o, f.drm) - Ref(o, term[v].drm)
  BY <1>2, <1>3, <1>4, <1>5
<1>7. /\ Counted' /\ DisplayOK(Display)'
      /\ term' = [w \in Vts |-> term'[w]]
      /\ \A w \in Vts : term'[w] = IF w = v THEN f ELSE term[w]
      /\ \A w \in Vts : term'[w].drm \in Objects \cup {None}
  BY <1>0, <1>1, <1>2, <1>3, <1>6, Balanced
<1>8. Types'
  BY <1>0, <1>1, <1>7 DEF Types
<1>9. Unheld' /\ Moved'
  BY <1>0, <1>1, <1>2, <1>7 DEF Unheld, Moved, Open
<1> QED
  BY <1>7, <1>8, <1>9 DEF IInv

LEMMA NextOK == IInv /\ [Next]_vars => IInv'
<1> SUFFICES ASSUME IInv, [Next]_vars PROVE IInv'
  OBVIOUS
<1>1. CASE UNCHANGED vars
  <2>1. UNCHANGED <<obj, g_drm, term, leaked, pc, todo>>
    BY <1>1 DEF vars
  <2>2. DisplayOK(Display)' /\ Counted' /\ term' = [v \in Vts |-> term'[v]]
    BY <2>1, QuietStep
  <2>3. Types' /\ Unheld' /\ Moved'
    BY <2>1, <2>2 DEF IInv, Types, Unheld, Moved, Open
  <2> QED
    BY <2>2, <2>3 DEF IInv
<1>2. ASSUME NEW v \in Vts, NEW how \in Outcomes,
             \/ OpenTerm(v, how)
             \/ OpenFails(v, how)
             \/ RestartFails(v, how)
             \/ HotplugCreate(v, how)
             \/ \E atomic \in AtomicOutcomes(g_drm), legacy \in BOOLEAN : Restart(v, how, atomic, legacy)
      PROVE  IInv'
  BY <1>2, OpenTermStep, OpenFailsStep, RestartFailsStep, HotplugCreateStep, RestartStep
<1>3. ASSUME NEW v \in Vts, NEW atomic \in AtomicOutcomes(term[v].drm), NEW legacy \in BOOLEAN,
             Activate(v, atomic, legacy)
      PROVE  IInv'
  BY <1>3, ActivateStep
<1>4. ASSUME NEW new \in Objects \cup {None}, NEW atomic \in BOOLEAN, Hotplug(new, atomic)
      PROVE  IInv'
  BY <1>4, HotplugStep
<1>5. ASSUME NEW v \in Vts, HotplugDestroy(v) PROVE IInv'
  BY <1>5, HotplugDestroyStep
<1>6. CASE Start \/ Stop \/ DestroySplash \/ ChromeShows \/ HotplugTurn \/ HotplugDone
  BY <1>6, StartStep, StopStep, DestroySplashStep, ChromeShowsStep, HotplugTurnStep, HotplugDoneStep
<1> QED
  BY <1>1, <1>2, <1>3, <1>4, <1>5, <1>6 DEF Next
-----------------------------------------------------------------------------
\* Every drm object has the references its holders own, whatever fails and in
\* whatever order monitors and terminals come and go (drm_addref, drm_delref,
\* fb_buffer_init, fb_buffer_destroy).
THEOREM RefcountAlwaysExact == Spec => []RefcountExact
<1>1. IInv => RefcountExact
  <2> SUFFICES ASSUME Counted PROVE RefcountExact
    BY DEF IInv
  <2>1. \A o \in Objects :
          Holders(o) = Cardinality(Users(o)) + (IF g_drm = o THEN 1 ELSE 0)
    BY DEF Holders, Ref
  <2> QED
    BY <2>1 DEF Counted, RefcountExact
<1> QED
  BY InitOK, NextOK, <1>1, PTL DEF Spec

\* Between two events every terminal's framebuffer is on the current drm object,
\* and on none when there is no monitor (term_monitor_hotplug).
THEOREM CurrentAlways == Spec => []OnCurrentDrm
<1>1. IInv => OnCurrentDrm
  BY DEF IInv, Moved, OnCurrentDrm
<1> QED
  BY InitOK, NextOK, <1>1, PTL DEF Spec
-----------------------------------------------------------------------------
(* The buffers.  A step may hold a framebuffer that is in no terminal yet, *)
(* or no longer: the table below has a place for it beside the terminals.  *)

Spare == -1
Places == Vts \cup {Spare}

FbT == [open : BOOLEAN, drm : Objects \cup {None}, id : Nat, handle : Nat]
DrmT == [refcount : Nat, delayed : Nat, fbs : SUBSET Nat, handles : SUBSET Nat, atomic : BOOLEAN]

Empty(f) == f \in FbT /\ f.drm = None /\ f.id = 0 /\ f.handle = 0

ScanT(s) == s = <<>> \/ s \in Objects \X Nat

DisplayT(k) ==
  /\ k = [obj |-> k.obj, scan |-> k.scan]
  /\ k.obj \in [Objects -> DrmT] /\ ScanT(k.scan)

\* The framebuffers of table t are the kernel's, each in one place, and none is
\* the one that waits to be removed.
Owned(k, t) ==
  /\ \A i \in Places : /\ t[i].handle # 0 => t[i].drm \in Objects
                       /\ t[i].id # 0 => t[i].id = t[i].handle
  /\ \A i \in Places : t[i].id # 0 =>
        /\ t[i].id \in k.obj[t[i].drm].fbs /\ t[i].id # k.obj[t[i].drm].delayed
        /\ \A j \in Places \ {i} : t[j].drm = t[i].drm => t[j].id # t[i].id
  /\ \A o \in Objects : /\ 0 \notin k.obj[o].fbs /\ 0 \notin k.obj[o].handles
                        /\ k.obj[o].delayed # 0 => k.obj[o].delayed \in k.obj[o].fbs

\* The kernel has no other, and no buffer that is in no place.
NoneLeft(k, t) ==
  \A o \in Objects :
    /\ \A n \in k.obj[o].fbs :
         n = k.obj[o].delayed \/ \E i \in Places : t[i].drm = o /\ t[i].id = n
    /\ \A n \in k.obj[o].handles : \E i \in Places : t[i].drm = o /\ t[i].handle = n

\* A handle that is not in doubt is the kernel's, and of one place.
OwnHandles(k, t, half) ==
  \A i \in Places : t[i].handle # 0 /\ Handle(t[i]) \notin half =>
    /\ t[i].handle \in k.obj[t[i].drm].handles
    /\ \A j \in Places \ {i} : t[j].drm = t[i].drm => t[j].handle # t[i].handle

\* All of it: lost when a terminal was dropped, half the handles in doubt.
Accounts(k, t, lost, half) ==
  /\ DisplayT(k) /\ t \in [Places -> FbT]
  /\ Owned(k, t)
  /\ ~lost => NoneLeft(k, t)
  /\ OwnHandles(k, t, half)

\* The objects' part is what Accounts looks at.
LEMMA ScanOnly ==
  ASSUME NEW k, NEW t, NEW lost, NEW half, Accounts(k, t, lost, half),
         NEW l, DisplayT(l), l.obj = k.obj
  PROVE  Accounts(l, t, lost, half)
BY DEF Accounts, Owned, NoneLeft, OwnHandles

\* l is k with another record for object o.
Moves(k, l, o, refcount, delayed, fbs, handles) ==
  /\ DisplayT(l)
  /\ \A p \in Objects \ {o} : l.obj[p] = k.obj[p]
  /\ l.obj[o].refcount = refcount /\ l.obj[o].delayed = delayed
  /\ l.obj[o].fbs = fbs /\ l.obj[o].handles = handles

LEMMA IsDrm ==
  ASSUME NEW k, DisplayT(k), NEW o \in Objects
  PROVE  LET d == k.obj[o]
         IN  /\ d \in DrmT
             /\ d.refcount \in Nat /\ d.delayed \in Nat /\ d.fbs \subseteq Nat
             /\ d.handles \subseteq Nat
             /\ d = [refcount |-> d.refcount, delayed |-> d.delayed, fbs |-> d.fbs,
                     handles |-> d.handles, atomic |-> d.atomic]
             /\ d.atomic \in BOOLEAN
<1>1. k.obj[o] \in DrmT
  BY DEF DisplayT
<1> QED
  BY <1>1 DEF DrmT

LEMMA WithT ==
  ASSUME NEW k, DisplayT(k), NEW o \in Objects, NEW s, ScanT(s),
         NEW d \in DrmT
  PROVE  Moves(k, With(k, o, d, s), o, d.refcount, d.delayed, d.fbs, d.handles)
BY DEF DisplayT, With, Moves

LEMMA MovesTwice ==
  ASSUME NEW k, NEW l, NEW m, NEW o \in Objects, NEW r, NEW e, NEW f, NEW h,
         NEW r2, NEW e2, NEW f2, NEW h2, Moves(k, l, o, r, e, f, h),
         Moves(l, m, o, r2, e2, f2, h2)
  PROVE  Moves(k, m, o, r2, e2, f2, h2)
BY DEF Moves

LEMMA FieldsAre ==
  ASSUME NEW k, DisplayT(k), NEW o \in Objects, NEW s, ScanT(s),
         NEW r \in Nat, NEW e \in Nat, NEW f \in SUBSET Nat, NEW h \in SUBSET Nat
  PROVE  LET d == [refcount |-> r, delayed |-> e, fbs |-> f, handles |-> h,
                   atomic |-> k.obj[o].atomic]
         IN  Moves(k, With(k, o, d, s), o, r, e, f, h)
<1> DEFINE d == [refcount |-> r, delayed |-> e, fbs |-> f, handles |-> h,
                 atomic |-> k.obj[o].atomic]
<1>1. /\ d \in DrmT /\ d.refcount = r /\ d.delayed = e /\ d.fbs = f /\ d.handles = h
  BY IsDrm DEF DrmT
<1> HIDE DEF d
<1>2. Moves(k, With(k, o, d, s), o, d.refcount, d.delayed, d.fbs, d.handles)
  BY <1>1, WithT
<1> QED
  BY <1>1, <1>2 DEF d

\* The calls that set one field.
LEMMA DelayedMoves ==
  ASSUME NEW k, DisplayT(k), NEW o \in Objects, NEW id \in Nat
  PROVE  LET d == k.obj[o] IN
           Moves(k, SetDelayed(k, o, id), o, d.refcount, id, d.fbs, d.handles)
<1> DEFINE d == k.obj[o]
           r == d.refcount
           e == d.delayed
           f == d.fbs
           h == d.handles
           a == d.atomic
           x == id
<1>0. k = [obj |-> k.obj, scan |-> k.scan]
  BY DEF DisplayT
<1>1. /\ ScanT(k.scan)
      /\ d = [refcount |-> r, delayed |-> e, fbs |-> f, handles |-> h, atomic |-> a]
      /\ r \in Nat /\ e \in Nat /\ f \in SUBSET Nat /\ h \in SUBSET Nat
  BY IsDrm DEF DisplayT
<1>2. x \in Nat
  BY <1>1
<1>3. SetDelayed(k, o, id) = With(k, o, [d EXCEPT !.delayed = x], k.scan)
  BY <1>0 DEF With, SetDelayed
<1> HIDE DEF d, r, e, f, h, a, x
<1>4. [d EXCEPT !.delayed = x] = [refcount |-> r, delayed |-> x, fbs |-> f, handles |-> h, atomic |-> a]
  BY <1>1
<1>5. Moves(k, SetDelayed(k, o, id), o, r, x, f, h)
  BY <1>1, <1>2, <1>3, <1>4, FieldsAre DEF a, d
<1> QED
  BY <1>5 DEF d, r, e, f, h, x

LEMMA AddHandleMoves ==
  ASSUME NEW k, DisplayT(k), NEW o \in Objects, NEW id \in Nat
  PROVE  LET d == k.obj[o] IN
           Moves(k, AddHandle(k, o, id), o, d.refcount, d.delayed, d.fbs, d.handles \cup {id})
<1> DEFINE d == k.obj[o]
           r == d.refcount
           e == d.delayed
           f == d.fbs
           h == d.handles
           a == d.atomic
           x == d.handles \cup {id}
<1>0. k = [obj |-> k.obj, scan |-> k.scan]
  BY DEF DisplayT
<1>1. /\ ScanT(k.scan)
      /\ d = [refcount |-> r, delayed |-> e, fbs |-> f, handles |-> h, atomic |-> a]
      /\ r \in Nat /\ e \in Nat /\ f \in SUBSET Nat /\ h \in SUBSET Nat
  BY IsDrm DEF DisplayT
<1>2. x \in SUBSET Nat
  BY <1>1
<1>3. AddHandle(k, o, id) = With(k, o, [d EXCEPT !.handles = x], k.scan)
  BY <1>0 DEF With, AddHandle
<1> HIDE DEF d, r, e, f, h, a, x
<1>4. [d EXCEPT !.handles = x] = [refcount |-> r, delayed |-> e, fbs |-> f, handles |-> x, atomic |-> a]
  BY <1>1
<1>5. Moves(k, AddHandle(k, o, id), o, r, e, f, x)
  BY <1>1, <1>2, <1>3, <1>4, FieldsAre DEF a, d
<1> QED
  BY <1>5 DEF d, r, e, f, h, x

LEMMA FreeHandleMoves ==
  ASSUME NEW k, DisplayT(k), NEW o \in Objects, NEW id \in Nat
  PROVE  LET d == k.obj[o] IN
           Moves(k, FreeHandle(k, o, id), o, d.refcount, d.delayed, d.fbs, d.handles \ {id})
<1> DEFINE d == k.obj[o]
           r == d.refcount
           e == d.delayed
           f == d.fbs
           h == d.handles
           a == d.atomic
           x == d.handles \ {id}
<1>0. k = [obj |-> k.obj, scan |-> k.scan]
  BY DEF DisplayT
<1>1. /\ ScanT(k.scan)
      /\ d = [refcount |-> r, delayed |-> e, fbs |-> f, handles |-> h, atomic |-> a]
      /\ r \in Nat /\ e \in Nat /\ f \in SUBSET Nat /\ h \in SUBSET Nat
  BY IsDrm DEF DisplayT
<1>2. x \in SUBSET Nat
  BY <1>1
<1>3. FreeHandle(k, o, id) = With(k, o, [d EXCEPT !.handles = x], k.scan)
  BY <1>0 DEF With, FreeHandle
<1> HIDE DEF d, r, e, f, h, a, x
<1>4. [d EXCEPT !.handles = x] = [refcount |-> r, delayed |-> e, fbs |-> f, handles |-> x, atomic |-> a]
  BY <1>1
<1>5. Moves(k, FreeHandle(k, o, id), o, r, e, f, x)
  BY <1>1, <1>2, <1>3, <1>4, FieldsAre DEF a, d
<1> QED
  BY <1>5 DEF d, r, e, f, h, x

LEMMA AddFbMoves ==
  ASSUME NEW k, DisplayT(k), NEW o \in Objects, NEW id \in Nat
  PROVE  LET d == k.obj[o] IN
           Moves(k, AddFb(k, o, id), o, d.refcount, d.delayed, d.fbs \cup {id}, d.handles)
<1> DEFINE d == k.obj[o]
           r == d.refcount
           e == d.delayed
           f == d.fbs
           h == d.handles
           a == d.atomic
           x == d.fbs \cup {id}
<1>0. k = [obj |-> k.obj, scan |-> k.scan]
  BY DEF DisplayT
<1>1. /\ ScanT(k.scan)
      /\ d = [refcount |-> r, delayed |-> e, fbs |-> f, handles |-> h, atomic |-> a]
      /\ r \in Nat /\ e \in Nat /\ f \in SUBSET Nat /\ h \in SUBSET Nat
  BY IsDrm DEF DisplayT
<1>2. x \in SUBSET Nat
  BY <1>1
<1>3. AddFb(k, o, id) = With(k, o, [d EXCEPT !.fbs = x], k.scan)
  BY <1>0 DEF With, AddFb
<1> HIDE DEF d, r, e, f, h, a, x
<1>4. [d EXCEPT !.fbs = x] = [refcount |-> r, delayed |-> e, fbs |-> x, handles |-> h, atomic |-> a]
  BY <1>1
<1>5. Moves(k, AddFb(k, o, id), o, r, e, x, h)
  BY <1>1, <1>2, <1>3, <1>4, FieldsAre DEF a, d
<1> QED
  BY <1>5 DEF d, r, e, f, h, x

LEMMA AddRefMoves ==
  ASSUME NEW k, DisplayT(k), NEW o \in Objects
  PROVE  LET d == k.obj[o] IN
           Moves(k, AddRef(k, o), o, d.refcount + 1, d.delayed, d.fbs, d.handles)
<1> DEFINE d == k.obj[o]
           r == d.refcount
           e == d.delayed
           f == d.fbs
           h == d.handles
           a == d.atomic
           x == d.refcount + 1
<1>0. k = [obj |-> k.obj, scan |-> k.scan]
  BY DEF DisplayT
<1>1. /\ ScanT(k.scan)
      /\ d = [refcount |-> r, delayed |-> e, fbs |-> f, handles |-> h, atomic |-> a]
      /\ r \in Nat /\ e \in Nat /\ f \in SUBSET Nat /\ h \in SUBSET Nat
  BY IsDrm DEF DisplayT
<1>2. x \in Nat
  BY <1>1
<1>3. AddRef(k, o) = With(k, o, [d EXCEPT !.refcount = x], k.scan)
  BY <1>0 DEF With, AddRef
<1> HIDE DEF d, r, e, f, h, a, x
<1>4. [d EXCEPT !.refcount = x] = [refcount |-> x, delayed |-> e, fbs |-> f, handles |-> h, atomic |-> a]
  BY <1>1
<1>5. Moves(k, AddRef(k, o), o, x, e, f, h)
  BY <1>1, <1>2, <1>3, <1>4, FieldsAre DEF a, d
<1> QED
  BY <1>5 DEF d, r, e, f, h, x

LEMMA RmFBMoves ==
  ASSUME NEW k, DisplayT(k), NEW o \in Objects, NEW id \in Nat
  PROVE  LET d == k.obj[o] IN
           Moves(k, RmFB(k, o, id), o, d.refcount, d.delayed, IF id = 0 THEN d.fbs ELSE d.fbs \ {id}, d.handles)
<1> DEFINE d == k.obj[o]
           r == d.refcount
           e == d.delayed
           f == d.fbs
           h == d.handles
           a == d.atomic
           x == d.fbs \ {id}
           s == IF k.scan = <<o, id>> THEN <<>> ELSE k.scan
<1>0. k = [obj |-> k.obj, scan |-> k.scan]
  BY DEF DisplayT
<1>1. /\ ScanT(k.scan)
      /\ d = [refcount |-> r, delayed |-> e, fbs |-> f, handles |-> h, atomic |-> a]
      /\ r \in Nat /\ e \in Nat /\ f \in SUBSET Nat /\ h \in SUBSET Nat
  BY IsDrm DEF DisplayT
<1>2. x \in SUBSET Nat
  BY <1>1
<1>3. id # 0 => RmFB(k, o, id) = With(k, o, [d EXCEPT !.fbs = x], s)
  BY <1>0 DEF With, RmFB
<1>5. ScanT(s)
  BY <1>1 DEF ScanT
<1>6. CASE id = 0
  <2>1. RmFB(k, o, id) = k
    BY <1>6 DEF RmFB
  <2> QED
    BY <1>6, <2>1 DEF Moves
<1> HIDE DEF d, r, e, f, h, a, x, s
<1>4. [d EXCEPT !.fbs = x] = [refcount |-> r, delayed |-> e, fbs |-> x, handles |-> h, atomic |-> a]
  BY <1>1
<1>7. CASE id # 0
  <2>1. Moves(k, RmFB(k, o, id), o, r, e, x, h)
    BY <1>1, <1>2, <1>3, <1>4, <1>5, <1>7, FieldsAre DEF a, d
  <2> QED
    BY <1>7, <2>1 DEF d, r, e, f, h, x
<1> QED
  BY <1>6, <1>7

\* What waited is gone (drm_clear_rmfb).
Staying(d) == IF d.delayed = 0 THEN d.fbs ELSE d.fbs \ {d.delayed}

LEMMA ClearMoves ==
  ASSUME NEW k, DisplayT(k), NEW o \in Objects
  PROVE  Moves(k, ClearRmFB(k, o), o, k.obj[o].refcount, 0, Staying(k.obj[o]), k.obj[o].handles)
<1> DEFINE d == k.obj[o]
           r == RmFB(k, o, d.delayed)
<1>1. d.delayed \in Nat
  BY IsDrm
<1>2. Moves(k, r, o, d.refcount, d.delayed, Staying(d), d.handles)
  BY <1>1, RmFBMoves DEF Staying
<1>3. ClearRmFB(k, o) = SetDelayed(r, o, 0)
  BY DEF ClearRmFB
<1> HIDE DEF d, r
<1>4. /\ DisplayT(r) /\ r.obj[o].refcount = d.refcount /\ r.obj[o].fbs = Staying(d)
      /\ r.obj[o].handles = d.handles
  BY <1>2 DEF Moves
<1>5. Moves(r, SetDelayed(r, o, 0), o, d.refcount, 0, Staying(d), d.handles)
  BY <1>4, DelayedMoves
<1> QED
  BY <1>2, <1>3, <1>5, MovesTwice DEF d

LEMMA Cleared ==
  ASSUME NEW k, NEW t, NEW lost, NEW half, Accounts(k, t, lost, half), NEW o \in Objects
  PROVE  Accounts(ClearRmFB(k, o), t, lost, half)
<1>0. DisplayT(k) /\ t \in [Places -> FbT] /\ \A i \in Places : t[i].drm \in Objects \cup {None}
  BY DEF Accounts, FbT
<1> DEFINE l == ClearRmFB(k, o)
<1>1. Moves(k, l, o, k.obj[o].refcount, 0, Staying(k.obj[o]), k.obj[o].handles)
  BY <1>0, ClearMoves
<1> HIDE DEF l
<1>2. \A i \in Places : t[i].id # 0 => t[i].drm \in Objects
  BY DEF Accounts, Owned
<1>3. Owned(l, t)
  BY <1>0, <1>1, <1>2 DEF Accounts, Owned, Moves, Staying
<1>4. NoneLeft(k, t) => NoneLeft(l, t)
  BY <1>0, <1>1 DEF Accounts, NoneLeft, Moves, Staying
<1>5. OwnHandles(k, t, half) => OwnHandles(l, t, half)
  <2>1. \A p \in Objects : l.obj[p].handles = k.obj[p].handles
    BY <1>1 DEF Moves
  <2> QED
    BY <2>1 DEF OwnHandles, Accounts, Owned
<1>6. DisplayT(l)
  BY <1>1 DEF Moves
<1> QED
  BY <1>0, <1>3, <1>4, <1>5, <1>6 DEF Accounts, l

\* Showing a framebuffer, or not (fb_setmode, drm_setmode).
LEMMA ModeSet ==
  ASSUME NEW k, NEW t, NEW lost, NEW half, Accounts(k, t, lost, half), NEW f \in FbT,
         NEW atomic, NEW legacy
  PROVE  Accounts(SetMode(k, f, atomic, legacy), t, lost, half)
<1> DEFINE shown(s) == [s EXCEPT !.scan = <<f.drm, f.id>>]
           tried == k.obj[f.drm].atomic /\ atomic # "not tried"
           committed == tried /\ atomic = "commit" /\ f.id # 0
           fallback == IF tried THEN ClearRmFB(k, f.drm) ELSE k
<1>1. CASE f.drm = None
  BY <1>1 DEF SetMode
<1>2. CASE f.drm # None
  <2>1. f.drm \in Objects /\ f.id \in Nat
    BY <1>2 DEF FbT
  <2>2. ASSUME NEW s, Accounts(s, t, lost, half) PROVE Accounts(shown(s), t, lost, half)
    <3>1. DisplayT(s)
      BY <2>2 DEF Accounts
    <3>2. s = [obj |-> s.obj, scan |-> s.scan] /\ s.obj \in [Objects -> DrmT]
      BY <3>1 DEF DisplayT
    <3>3. shown(s) = [obj |-> s.obj, scan |-> <<f.drm, f.id>>]
      BY <3>2
    <3>4. <<f.drm, f.id>> \in Objects \X Nat
      BY <2>1
    <3> HIDE DEF shown
    <3>5. DisplayT(shown(s)) /\ shown(s).obj = s.obj
      BY <3>2, <3>3, <3>4 DEF DisplayT, ScanT
    <3> QED
      BY <2>2, <3>5, ScanOnly
  <2>3. Accounts(fallback, t, lost, half)
    BY <2>1, Cleared
  <2>4. SetMode(k, f, atomic, legacy) =
          IF committed THEN shown(k)
          ELSE IF legacy /\ f.id # 0 THEN ClearRmFB(shown(fallback), f.drm) ELSE fallback
    BY <1>2 DEF SetMode, DrmSetMode
  <2> HIDE DEF fallback, committed, shown
  <2>5. Accounts(shown(k), t, lost, half) /\ Accounts(shown(fallback), t, lost, half)
    BY <2>2, <2>3
  <2>6. Accounts(ClearRmFB(shown(fallback), f.drm), t, lost, half)
    BY <2>1, <2>5, Cleared
  <2> QED
    BY <2>3, <2>4, <2>5, <2>6
<1> QED
  BY <1>1, <1>2

\* What the kernel gives is new to it.
LEMMA IdIsNew ==
  ASSUME NEW used, ~Exhausted(used)
  PROVE  NewId(used) \in Nat \ {0} /\ NewId(used) \notin used
<1>1. \E n \in 1 .. MaxId : n \notin used
  BY DEF Exhausted
<1>2. NewId(used) \in 1 .. MaxId /\ NewId(used) \notin used
  BY <1>1 DEF NewId
<1> QED
  BY <1>2, BoundsAssumption

\* The handle of framebuffer f, if it is only half made.
Half(f) == IF f.handle # 0 /\ f.id = 0 THEN {Handle(f)} ELSE {}

\* A framebuffer that is made, or half made, where none was (fb_buffer_init).  A
\* handle that comes to be in doubt was in no place, or was in doubt before.
LEMMA Made ==
  ASSUME NEW k, NEW t, NEW lost, NEW half, Accounts(k, t, lost, half),
         NEW x \in Places, Empty(t[x]), NEW o \in Objects \cup {None}, NEW how
  PROVE  LET b == BufferInit(k, o, how)
         IN  /\ b.fb \in FbT
             /\ Accounts(b.k, [t EXCEPT ![x] = b.fb], lost, half \cup Half(b.fb))
             /\ \A i \in Places \ {x} : t[i].handle # 0 /\ Handle(t[i]) \in Half(b.fb) =>
                                           Handle(t[i]) \in half
<1> DEFINE b == BufferInit(k, o, how)
           used == k.obj[o].fbs \cup k.obj[o].handles
           id == NewId(used)
           ref == AddRef(k, o)
           u == [t EXCEPT ![x] = b.fb]
<1>0. /\ DisplayT(k) /\ t \in [Places -> FbT] /\ Owned(k, t)
      /\ ~lost => NoneLeft(k, t)
      /\ OwnHandles(k, t, half)
  BY DEF Accounts
<1>a. \A i \in Places : /\ t[i] \in FbT /\ t[i].drm \in Objects \cup {None}
                        /\ t[i].id \in Nat /\ t[i].handle \in Nat
                        /\ t[i].id # 0 => t[i].drm \in Objects
                        /\ t[i].handle # 0 => t[i].drm \in Objects
  <2>1. \A i \in Places : /\ t[i] \in FbT /\ t[i].drm \in Objects \cup {None}
                          /\ t[i].id \in Nat /\ t[i].handle \in Nat
    BY <1>0 DEF FbT
  <2> QED
    BY <1>0, <2>1 DEF Owned
<1>b. t[x].drm = None /\ t[x].id = 0 /\ t[x].handle = 0
  BY DEF Empty
<1>c. ASSUME b.fb \in FbT
      PROVE  /\ u \in [Places -> FbT] /\ u[x] = b.fb
             /\ \A i \in Places \ {x} : u[i] = t[i]
  BY <1>0, <1>c
<1>1. CASE o = None
  <2>1. b.k = k /\ b.fb = NoBuffer
    BY <1>1 DEF BufferInit
  <2>2. b.fb \in FbT /\ b.fb.drm = None /\ b.fb.id = 0 /\ b.fb.handle = 0
    BY <2>1 DEF NoBuffer, FbT
  <2>3. /\ u \in [Places -> FbT] /\ u[x] = b.fb
        /\ \A i \in Places \ {x} : u[i] = t[i]
    BY <1>c, <2>2
  <2> HIDE DEF u, b
  <2>4. \A i \in Places : /\ u[i].drm = t[i].drm /\ u[i].id = t[i].id
                          /\ u[i].handle = t[i].handle
    BY <1>b, <2>2, <2>3
  <2>5. Owned(k, u) /\ (NoneLeft(k, t) => NoneLeft(k, u)) /\ OwnHandles(k, u, half)
    BY <1>0, <2>4 DEF Owned, NoneLeft, OwnHandles, Handle
  <2>6. Half(b.fb) = {}
    BY <2>2 DEF Half
  <2>7. half \cup Half(b.fb) = half
    BY <2>6
  <2> QED
    BY <1>0, <2>1, <2>2, <2>3, <2>5, <2>6, <2>7 DEF Accounts, b, u
<1>2. CASE o # None
  <2>0. o \in Objects
    BY <1>2
  <2>1. Moves(k, ref, o, k.obj[o].refcount + 1, k.obj[o].delayed, k.obj[o].fbs, k.obj[o].handles)
    BY <1>0, <2>0, AddRefMoves
  <2>2. CASE how = "dumb" \/ Exhausted(used)
    <3>1. b = [k |-> ref, fb |-> [open |-> TRUE, drm |-> o, id |-> 0, handle |-> 0]]
      BY <1>2, <2>2 DEF BufferInit
    <3>2. b.fb \in FbT /\ b.fb.drm = o /\ b.fb.id = 0 /\ b.fb.handle = 0 /\ b.k = ref
      BY <2>0, <3>1 DEF FbT
    <3>3. /\ u \in [Places -> FbT] /\ u[x] = b.fb
          /\ \A i \in Places \ {x} : u[i] = t[i]
      BY <1>c, <3>2
    <3> HIDE DEF u, b, ref
    <3>4. Owned(ref, u)
      BY <1>0, <1>a, <2>0, <2>1, <3>2, <3>3 DEF Owned, Moves
    <3>5. NoneLeft(k, t) => NoneLeft(ref, u)
      BY <1>0, <1>b, <2>0, <2>1, <3>2, <3>3 DEF NoneLeft, Moves, Owned
    <3>6. OwnHandles(ref, u, half)
      BY <1>0, <1>a, <2>0, <2>1, <3>2, <3>3 DEF OwnHandles, Moves
    <3>7. Half(b.fb) = {}
      BY <3>2 DEF Half
    <3>8. half \cup Half(b.fb) = half
      BY <3>7
    <3> QED
      BY <1>0, <2>1, <3>2, <3>3, <3>4, <3>5, <3>6, <3>7, <3>8 DEF Accounts, Moves, b, u
  <2>3. CASE ~(how = "dumb" \/ Exhausted(used)) /\ how = "addfb"
    <3>1. b = [k |-> ref, fb |-> [open |-> TRUE, drm |-> o, id |-> 0, handle |-> id]]
      BY <1>2, <2>3 DEF BufferInit
    <3>2. id \in Nat /\ id # 0 /\ id \notin k.obj[o].handles
      <4>1. id \in Nat \ {0} /\ id \notin used
        BY <2>3, IdIsNew
      <4> QED
        BY <4>1
    <3> HIDE DEF id
    <3>3. b.fb \in FbT /\ b.fb.drm = o /\ b.fb.id = 0 /\ b.fb.handle = id /\ b.k = ref
      BY <2>0, <3>1, <3>2 DEF FbT
    <3>4. /\ u \in [Places -> FbT] /\ u[x] = b.fb
          /\ \A i \in Places \ {x} : u[i] = t[i]
      BY <1>c, <3>3
    <3> HIDE DEF u, b, ref
    <3>5. Owned(ref, u)
      BY <1>0, <1>a, <2>0, <2>1, <3>3, <3>4 DEF Owned, Moves
    <3>6. NoneLeft(k, t) => NoneLeft(ref, u)
      BY <1>0, <1>b, <2>0, <2>1, <3>3, <3>4 DEF NoneLeft, Moves, Owned
    <3>7. Half(b.fb) = {<<o, id>>}
      BY <3>2, <3>3 DEF Half, Handle
    <3>8. OwnHandles(ref, u, half \cup Half(b.fb))
      <4> SUFFICES ASSUME NEW i \in Places, u[i].handle # 0, Handle(u[i]) \notin half,
                          Handle(u[i]) \notin Half(b.fb)
                   PROVE  /\ u[i].handle \in ref.obj[u[i].drm].handles
                          /\ \A j \in Places \ {i} : u[j].drm = u[i].drm => u[j].handle # u[i].handle
        BY DEF OwnHandles
      <4>1. i # x /\ u[i] = t[i]
        BY <3>3, <3>4, <3>7 DEF Handle
      <4>2. /\ t[i].handle \in k.obj[t[i].drm].handles /\ t[i].drm \in Objects
            /\ \A j \in Places \ {i} : t[j].drm = t[i].drm => t[j].handle # t[i].handle
        BY <1>0, <1>a, <4>1 DEF OwnHandles
      <4>3. t[i].handle \in ref.obj[t[i].drm].handles
        BY <2>1, <4>2 DEF Moves
      <4>4. \A j \in Places \ {i} : u[j].drm = t[i].drm => u[j].handle # t[i].handle
        BY <3>2, <3>3, <3>4, <4>1, <4>2
      <4> QED
        BY <4>1, <4>3, <4>4
    <3>9. \A i \in Places \ {x} : t[i].handle # 0 /\ Handle(t[i]) \in Half(b.fb) =>
                                     Handle(t[i]) \in half
      BY <1>0, <3>2, <3>7 DEF OwnHandles, Handle
    <3> QED
      BY <1>0, <2>1, <3>3, <3>4, <3>5, <3>6, <3>8, <3>9 DEF Accounts, Moves, b, u
  <2>4. CASE ~(how = "dumb" \/ Exhausted(used)) /\ how # "addfb"
    <3> DEFINE h == AddHandle(ref, o, id)
               l == AddFb(h, o, id)
    <3>1. b = [k |-> l, fb |-> [open |-> TRUE, drm |-> o, id |-> id, handle |-> id]]
      BY <1>2, <2>4 DEF BufferInit
    <3>2. id \in Nat \ {0} /\ id \notin k.obj[o].fbs /\ id \notin k.obj[o].handles
      <4>1. id \in Nat \ {0} /\ id \notin used
        BY <2>4, IdIsNew
      <4> QED
        BY <4>1
    <3> HIDE DEF id
    <3>3. b.fb \in FbT /\ b.fb.drm = o /\ b.fb.id = id /\ b.fb.handle = id /\ b.k = l
      BY <2>0, <3>1, <3>2 DEF FbT
    <3>4. /\ u \in [Places -> FbT] /\ u[x] = b.fb
          /\ \A i \in Places \ {x} : u[i] = t[i]
      BY <1>c, <3>3
    <3> HIDE DEF u, b, ref
    <3>5. Moves(ref, h, o, ref.obj[o].refcount, ref.obj[o].delayed, ref.obj[o].fbs,
                ref.obj[o].handles \cup {id})
      <4>1. DisplayT(ref)
        BY <2>1 DEF Moves
      <4> QED
        BY <2>0, <3>2, <4>1, AddHandleMoves
    <3> HIDE DEF h
    <3>6. Moves(h, l, o, h.obj[o].refcount, h.obj[o].delayed, h.obj[o].fbs \cup {id},
                h.obj[o].handles)
      <4>1. DisplayT(h)
        BY <3>5 DEF Moves
      <4> QED
        BY <2>0, <3>2, <4>1, AddFbMoves
    <3> HIDE DEF l
    <3>7. Moves(k, l, o, k.obj[o].refcount + 1, k.obj[o].delayed, k.obj[o].fbs \cup {id},
                k.obj[o].handles \cup {id})
      BY <2>1, <3>5, <3>6 DEF Moves
    <3>8. Owned(l, u)
      BY <1>0, <1>a, <1>b, <2>0, <3>2, <3>3, <3>4, <3>7 DEF Owned, Moves
    <3>9. NoneLeft(k, t) => NoneLeft(l, u)
      BY <1>0, <1>b, <2>0, <3>2, <3>3, <3>4, <3>7 DEF NoneLeft, Moves, Owned
    <3>10. OwnHandles(l, u, half)
      <4> SUFFICES ASSUME NEW i \in Places, u[i].handle # 0, Handle(u[i]) \notin half
                   PROVE  /\ u[i].handle \in l.obj[u[i].drm].handles
                          /\ \A j \in Places \ {i} : u[j].drm = u[i].drm => u[j].handle # u[i].handle
        BY DEF OwnHandles
      <4>1. CASE i = x
        <5>1. u[i].handle \in l.obj[u[i].drm].handles
          BY <3>3, <3>4, <3>7, <4>1 DEF Moves
        <5>2. ASSUME NEW j \in Places \ {x}, t[j].drm = o PROVE t[j].handle # id
          <6>1. t[j].handle = id => Handle(t[j]) = Handle(u[i])
            BY <3>3, <3>4, <4>1, <5>2 DEF Handle
          <6>2. t[j].handle # 0 /\ Handle(t[j]) \notin half => t[j].handle \in k.obj[o].handles
            BY <1>0, <5>2 DEF OwnHandles
          <6> QED
            BY <3>2, <6>1, <6>2
        <5> QED
          BY <3>3, <3>4, <4>1, <5>1, <5>2
      <4>2. CASE i # x
        <5>1. u[i] = t[i]
          BY <3>4, <4>2
        <5>2. /\ t[i].handle \in k.obj[t[i].drm].handles /\ t[i].drm \in Objects
              /\ \A j \in Places \ {i} : t[j].drm = t[i].drm => t[j].handle # t[i].handle
          BY <1>0, <1>a, <5>1 DEF OwnHandles
        <5>3. t[i].handle \in l.obj[t[i].drm].handles
          BY <3>7, <5>2 DEF Moves
        <5>4. \A j \in Places \ {i} : u[j].drm = t[i].drm => u[j].handle # t[i].handle
          BY <3>2, <3>3, <3>4, <4>2, <5>1, <5>2
        <5> QED
          BY <5>1, <5>3, <5>4
      <4> QED
        BY <4>1, <4>2
    <3>11. Half(b.fb) = {}
      BY <3>2, <3>3 DEF Half
    <3>12. half \cup Half(b.fb) = half
      BY <3>11
    <3> QED
      BY <1>0, <3>3, <3>4, <3>7, <3>8, <3>9, <3>10, <3>11, <3>12 DEF Accounts, Moves, b, u
  <2> QED
    BY <2>2, <2>3, <2>4
<1> QED
  BY <1>1, <1>2

\* A reference given back: of the last one nothing remains (drm_delref,
\* drm_fini).
LEMMA DelRefMoves ==
  ASSUME NEW k, DisplayT(k), NEW o \in Objects
  PROVE  LET d == k.obj[o] IN
         /\ d.refcount > 1 =>
              Moves(k, DelRef(k, o), o, d.refcount - 1, d.delayed, d.fbs, d.handles)
         /\ ~(d.refcount > 1) => Moves(k, DelRef(k, o), o, 0, 0, {}, {})
<1> DEFINE d == k.obj[o]
           r == d.refcount
           e == d.delayed
           f == d.fbs
           h == d.handles
           a == d.atomic
           x == d.refcount - 1
           s == IF k.scan # <<>> /\ k.scan[1] = o THEN <<>> ELSE k.scan
<1>0. k = [obj |-> k.obj, scan |-> k.scan]
  BY DEF DisplayT
<1>1. /\ ScanT(k.scan)
      /\ d = [refcount |-> r, delayed |-> e, fbs |-> f, handles |-> h, atomic |-> a]
      /\ r \in Nat /\ e \in Nat /\ f \in SUBSET Nat /\ h \in SUBSET Nat
  BY IsDrm DEF DisplayT
<1>2. o # None
  BY NoneAssumption
<1>3. r > 1 => x \in Nat
  BY <1>1
<1>4. ScanT(s)
  BY <1>1 DEF ScanT
<1>5. r > 1 => DelRef(k, o) = With(k, o, [d EXCEPT !.refcount = x], k.scan)
  BY <1>0, <1>2 DEF With, DelRef
<1>6. ~(r > 1) => DelRef(k, o) = With(k, o, Freed, s)
  BY <1>2 DEF With, DelRef, Fini
<1> HIDE DEF d, r, e, f, h, a, x, s
<1>7. [d EXCEPT !.refcount = x]
        = [refcount |-> x, delayed |-> e, fbs |-> f, handles |-> h, atomic |-> a]
  BY <1>1
<1>8. r > 1 => Moves(k, DelRef(k, o), o, x, e, f, h)
  BY <1>1, <1>3, <1>5, <1>7, FieldsAre DEF a, d
<1>9. ~(r > 1) => Moves(k, DelRef(k, o), o, 0, 0, {}, {})
  <2>1. /\ Freed \in DrmT /\ Freed.refcount = 0 /\ Freed.delayed = 0 /\ Freed.fbs = {}
        /\ Freed.handles = {}
    BY DEF Freed, DrmT
  <2>2. Moves(k, With(k, o, Freed, s), o, Freed.refcount, Freed.delayed, Freed.fbs, Freed.handles)
    BY <1>4, <2>1, WithT
  <2> QED
    BY <1>6, <2>1, <2>2
<1> QED
  BY <1>8, <1>9 DEF d, r, e, f, h, x

\* What a table's records are.
LEMMA TableIs ==
  ASSUME NEW k, NEW t, NEW lost, NEW half, Accounts(k, t, lost, half)
  PROVE  /\ t \in [Places -> FbT]
         /\ \A i \in Places : /\ t[i] \in FbT /\ t[i].drm \in Objects \cup {None}
                              /\ t[i].id \in Nat /\ t[i].handle \in Nat
                              /\ t[i].id # 0 => t[i].drm \in Objects
                              /\ t[i].handle # 0 => t[i].drm \in Objects
<1>1. t \in [Places -> FbT] /\ Owned(k, t)
  BY DEF Accounts
<1>2. \A i \in Places : /\ t[i] \in FbT /\ t[i].drm \in Objects \cup {None}
                        /\ t[i].id \in Nat /\ t[i].handle \in Nat
  BY <1>1 DEF FbT
<1> QED
  BY <1>1, <1>2 DEF Owned

\* An object that no framebuffer is on gives up a reference or is freed.
LEMMA Dropped ==
  ASSUME NEW k, NEW t, NEW lost, NEW half, Accounts(k, t, lost, half),
         NEW o \in Objects \cup {None},
         o \in Objects /\ ~(k.obj[o].refcount > 1) => \A i \in Places : t[i].drm # o
  PROVE  Accounts(DelRef(k, o), t, lost, half)
<1> DEFINE l == DelRef(k, o)
<1>0. /\ DisplayT(k) /\ Owned(k, t)
      /\ ~lost => NoneLeft(k, t)
      /\ OwnHandles(k, t, half)
  BY DEF Accounts
<1>1. CASE o = None
  BY <1>1 DEF DelRef
<1>2. CASE o \in Objects /\ k.obj[o].refcount > 1
  <2>1. Moves(k, l, o, k.obj[o].refcount - 1, k.obj[o].delayed, k.obj[o].fbs, k.obj[o].handles)
    BY <1>0, <1>2, DelRefMoves
  <2> HIDE DEF l
  <2>2. \A p \in Objects : /\ l.obj[p].delayed = k.obj[p].delayed /\ l.obj[p].fbs = k.obj[p].fbs
                           /\ l.obj[p].handles = k.obj[p].handles
    BY <2>1 DEF Moves
  <2>3. Owned(l, t)
    BY <1>0, <2>2, TableIs DEF Owned
  <2>4. NoneLeft(k, t) => NoneLeft(l, t)
    BY <2>2 DEF NoneLeft
  <2>5. OwnHandles(k, t, half) => OwnHandles(l, t, half)
    BY <2>2, TableIs DEF OwnHandles
  <2> QED
    BY <1>0, <2>1, <2>3, <2>4, <2>5, TableIs DEF Accounts, Moves, l
<1>3. CASE o \in Objects /\ ~(k.obj[o].refcount > 1)
  <2>1. Moves(k, l, o, 0, 0, {}, {})
    BY <1>0, <1>3, DelRefMoves
  <2> HIDE DEF l
  <2>2. \A i \in Places : t[i].drm # o
    BY <1>3
  <2>3. Owned(l, t)
    BY <1>0, <1>3, <2>1, <2>2, TableIs DEF Owned, Moves
  <2>4. NoneLeft(k, t) => NoneLeft(l, t)
    BY <1>3, <2>1 DEF NoneLeft, Moves
  <2>5. OwnHandles(k, t, half) => OwnHandles(l, t, half)
    BY <2>1, <2>2, TableIs DEF OwnHandles, Moves
  <2> QED
    BY <1>0, <2>1, <2>3, <2>4, <2>5, TableIs DEF Accounts, Moves, l
<1> QED
  BY <1>1, <1>2, <1>3

\* A framebuffer that goes: its id waits, its handle is the kernel's again
\* (fb_buffer_destroy).
LEMMA Destroyed ==
  ASSUME NEW k, NEW t, NEW lost, NEW half, Accounts(k, t, lost, half),
         NEW x \in Places, NEW e, Empty(e),
         t[x].drm \in Objects /\ ~(k.obj[t[x].drm].refcount > 1) =>
           \A i \in Places \ {x} : t[i].drm # t[x].drm
  PROVE  Accounts(BufferDestroy(k, t[x]), [t EXCEPT ![x] = e], lost, half)
<1> DEFINE f == t[x]
           o == f.drm
           l == IF f.handle = 0 THEN k ELSE FreeHandle(DelayRmFB(k, o, f.id), o, f.handle)
           u == [t EXCEPT ![x] = e]
<1>0. /\ DisplayT(k) /\ Owned(k, t) /\ t \in [Places -> FbT]
      /\ ~lost => NoneLeft(k, t)
      /\ OwnHandles(k, t, half)
  BY DEF Accounts
<1>1. /\ e \in FbT /\ e.drm = None /\ e.id = 0 /\ e.handle = 0
  BY DEF Empty
<1>2. /\ u \in [Places -> FbT] /\ u[x] = e
      /\ \A i \in Places \ {x} : u[i] = t[i]
  BY <1>0, <1>1
<1>3. BufferDestroy(k, f) = DelRef(l, o)
  BY DEF BufferDestroy
<1>4. f \in FbT /\ o \in Objects \cup {None} /\ f.id \in Nat /\ f.handle \in Nat
  BY TableIs
<1> HIDE DEF u
<1>5. /\ Accounts(l, u, lost, half)
      /\ o \in Objects => l.obj[o].refcount = k.obj[o].refcount
  <2>1. CASE f.handle = 0
    <3>1. l = k /\ f.id = 0
      BY <1>0, <2>1 DEF Owned
    <3>2. Owned(k, u)
      BY <1>0, <1>1, <1>2, <3>1 DEF Owned
    <3>3. NoneLeft(k, t) => NoneLeft(k, u)
      <4> SUFFICES ASSUME NoneLeft(k, t), NEW p \in Objects
                   PROVE  /\ \A n \in k.obj[p].fbs :
                               n = k.obj[p].delayed \/ \E i \in Places : u[i].drm = p /\ u[i].id = n
                          /\ \A n \in k.obj[p].handles :
                               \E i \in Places : u[i].drm = p /\ u[i].handle = n
        BY DEF NoneLeft
      <4>1. 0 \notin k.obj[p].fbs /\ 0 \notin k.obj[p].handles /\ t[x].id = 0 /\ t[x].handle = 0
        BY <1>0, <2>1, <3>1 DEF Owned
      <4>2. ASSUME NEW n \in k.obj[p].fbs, n # k.obj[p].delayed
            PROVE  \E i \in Places : u[i].drm = p /\ u[i].id = n
        <5>1. PICK i \in Places : t[i].drm = p /\ t[i].id = n
          BY <4>2 DEF NoneLeft
        <5> QED
          BY <1>2, <4>1, <4>2, <5>1
      <4>3. ASSUME NEW n \in k.obj[p].handles
            PROVE  \E i \in Places : u[i].drm = p /\ u[i].handle = n
        <5>1. PICK i \in Places : t[i].drm = p /\ t[i].handle = n
          BY DEF NoneLeft
        <5> QED
          BY <1>2, <4>1, <4>3, <5>1
      <4> QED
        BY <4>2, <4>3
    <3>4. OwnHandles(k, t, half) => OwnHandles(k, u, half)
      BY <1>1, <1>2 DEF OwnHandles
    <3> QED
      BY <1>0, <1>2, <3>1, <3>2, <3>3, <3>4 DEF Accounts
  <2>2. CASE f.handle # 0
    <3> DEFINE d == k.obj[o]
               c == ClearRmFB(k, o)
               r == SetDelayed(c, o, f.id)
    <3>1. o \in Objects /\ l = FreeHandle(r, o, f.handle)
      BY <2>2, TableIs DEF DelayRmFB
    <3>2. Moves(k, c, o, d.refcount, 0, Staying(d), d.handles)
      BY <1>0, <3>1, ClearMoves
    <3> HIDE DEF c, l, d
    <3>3. DisplayT(c)
      BY <3>2 DEF Moves
    <3>4. Moves(c, r, o, c.obj[o].refcount, f.id, c.obj[o].fbs, c.obj[o].handles)
      BY <1>4, <3>1, <3>3, DelayedMoves
    <3> HIDE DEF r
    <3>5. DisplayT(r)
      BY <3>4 DEF Moves
    <3>6. Moves(r, l, o, r.obj[o].refcount, r.obj[o].delayed, r.obj[o].fbs,
                r.obj[o].handles \ {f.handle})
      BY <1>4, <3>1, <3>5, FreeHandleMoves
    <3>7. Moves(k, l, o, d.refcount, f.id, Staying(d), d.handles \ {f.handle})
      BY <3>2, <3>4, <3>6 DEF Moves
    <3> HIDE DEF f
    <3>8. Owned(l, u)
      <4>1. /\ \A i \in Places : /\ u[i].handle # 0 => u[i].drm \in Objects
                                 /\ u[i].id # 0 => u[i].id = u[i].handle
        BY <1>0, <1>1, <1>2 DEF Owned
      <4>2. ASSUME NEW i \in Places, u[i].id # 0
            PROVE  /\ u[i].id \in l.obj[u[i].drm].fbs /\ u[i].id # l.obj[u[i].drm].delayed
                   /\ \A j \in Places \ {i} : u[j].drm = u[i].drm => u[j].id # u[i].id
        <5>1. i # x /\ u[i] = t[i]
          BY <1>1, <1>2, <4>2
        <5>2. /\ t[i].id \in k.obj[t[i].drm].fbs /\ t[i].id # k.obj[t[i].drm].delayed
              /\ \A j \in Places \ {i} : t[j].drm = t[i].drm => t[j].id # t[i].id
              /\ t[i].drm \in Objects
          BY <1>0, <4>2, <5>1, TableIs DEF Owned
        <5>3. t[i].drm = o => t[i].id # f.id
          BY <5>1, <5>2 DEF f
        <5>4. t[i].id \in l.obj[t[i].drm].fbs /\ t[i].id # l.obj[t[i].drm].delayed
          BY <3>7, <5>2, <5>3 DEF Moves, Staying, d
        <5>5. \A j \in Places \ {i} : u[j].drm = t[i].drm => u[j].id # t[i].id
          BY <1>1, <1>2, <4>2, <5>1, <5>2
        <5> QED
          BY <5>1, <5>4, <5>5
      <4>3. ASSUME NEW p \in Objects
            PROVE  /\ 0 \notin l.obj[p].fbs /\ 0 \notin l.obj[p].handles
                   /\ l.obj[p].delayed # 0 => l.obj[p].delayed \in l.obj[p].fbs
        <5>1. f.id # 0 => f.id \in d.fbs /\ f.id # d.delayed
          BY <1>0 DEF Owned, f, d
        <5> QED
          BY <1>0, <3>7, <5>1 DEF Owned, Moves, Staying, d
      <4> QED
        BY <4>1, <4>2, <4>3 DEF Owned
    <3>9. NoneLeft(k, t) => NoneLeft(l, u)
      <4> SUFFICES ASSUME NoneLeft(k, t), NEW p \in Objects
                   PROVE  /\ \A n \in l.obj[p].fbs :
                               n = l.obj[p].delayed \/ \E i \in Places : u[i].drm = p /\ u[i].id = n
                          /\ \A n \in l.obj[p].handles :
                               \E i \in Places : u[i].drm = p /\ u[i].handle = n
        BY DEF NoneLeft
      <4>1. ASSUME NEW n \in l.obj[p].fbs, n # l.obj[p].delayed
            PROVE  \E i \in Places : u[i].drm = p /\ u[i].id = n
        <5>0. n # 0
          BY <3>8, <4>1 DEF Owned
        <5>1. n \in k.obj[p].fbs /\ n # k.obj[p].delayed /\ (p = o => n # f.id)
          BY <3>7, <4>1, <5>0 DEF Moves, Staying, d
        <5>2. PICK i \in Places : t[i].drm = p /\ t[i].id = n
          BY <5>1 DEF NoneLeft
        <5> QED
          BY <1>2, <5>1, <5>2 DEF f
      <4>2. ASSUME NEW n \in l.obj[p].handles
            PROVE  \E i \in Places : u[i].drm = p /\ u[i].handle = n
        <5>1. n \in k.obj[p].handles /\ (p = o => n # f.handle)
          BY <3>7, <4>2 DEF Moves, d
        <5>2. PICK i \in Places : t[i].drm = p /\ t[i].handle = n
          BY <5>1 DEF NoneLeft
        <5> QED
          BY <1>2, <5>1, <5>2 DEF f
      <4> QED
        BY <4>1, <4>2
    <3>10. OwnHandles(k, t, half) => OwnHandles(l, u, half)
      <4> SUFFICES ASSUME OwnHandles(k, t, half), NEW i \in Places, u[i].handle # 0,
                          Handle(u[i]) \notin half
                   PROVE  /\ u[i].handle \in l.obj[u[i].drm].handles
                          /\ \A j \in Places \ {i} : u[j].drm = u[i].drm => u[j].handle # u[i].handle
        BY DEF OwnHandles
      <4>1. i # x /\ u[i] = t[i]
        BY <1>1, <1>2
      <4>2. /\ t[i].handle \in k.obj[t[i].drm].handles /\ t[i].drm \in Objects
            /\ \A j \in Places \ {i} : t[j].drm = t[i].drm => t[j].handle # t[i].handle
        BY <4>1, TableIs DEF OwnHandles
      <4>3. t[i].drm = o => t[i].handle # f.handle
        BY <4>1, <4>2 DEF f
      <4>4. t[i].handle \in l.obj[t[i].drm].handles
        BY <3>7, <4>2, <4>3 DEF Moves, d
      <4>5. \A j \in Places \ {i} : u[j].drm = t[i].drm => u[j].handle # t[i].handle
        BY <1>1, <1>2, <4>1, <4>2
      <4> QED
        BY <4>1, <4>4, <4>5
    <3>11. DisplayT(l) /\ l.obj[o].refcount = d.refcount
      BY <3>7 DEF Moves
    <3> QED
      BY <1>0, <1>2, <3>8, <3>9, <3>10, <3>11 DEF Accounts, d
  <2> QED
    BY <2>1, <2>2
<1> HIDE DEF l
<1>6. o \in Objects /\ ~(l.obj[o].refcount > 1) => \A i \in Places : u[i].drm # o
  BY <1>1, <1>2, <1>5, NoneAssumption
<1>7. Accounts(DelRef(l, o), u, lost, half)
  BY <1>4, <1>5, <1>6, Dropped
<1> QED
  BY <1>3, <1>7 DEF u

\* A terminal that is dropped without its framebuffer being given back.
LEMMA Forgotten ==
  ASSUME NEW k, NEW t, NEW lost, NEW half, Accounts(k, t, lost, half),
         NEW x \in Places, NEW e, Empty(e)
  PROVE  Accounts(k, [t EXCEPT ![x] = e], TRUE, half)
<1> DEFINE u == [t EXCEPT ![x] = e]
<1>1. /\ e \in FbT /\ e.drm = None /\ e.id = 0 /\ e.handle = 0
  BY DEF Empty
<1>2. /\ u \in [Places -> FbT] /\ u[x] = e
      /\ \A i \in Places \ {x} : u[i] = t[i]
  BY <1>1, TableIs
<1> HIDE DEF u
<1>3. DisplayT(k) /\ Owned(k, t) /\ OwnHandles(k, t, half)
  BY DEF Accounts
<1>4. Owned(k, u)
  BY <1>1, <1>2, <1>3 DEF Owned
<1>5. OwnHandles(k, t, half) => OwnHandles(k, u, half)
  BY <1>1, <1>2 DEF OwnHandles
<1> QED
  BY <1>2, <1>3, <1>4, <1>5 DEF Accounts, u

\* A framebuffer that changes places with nothing.
LEMMA Swapped ==
  ASSUME NEW k, NEW t, NEW lost, NEW half, Accounts(k, t, lost, half),
         NEW x \in Places \ {Spare}, Empty(t[Spare])
  PROVE  Accounts(k, [t EXCEPT ![x] = t[Spare], ![Spare] = t[x]], lost, half)
<1> DEFINE u == [t EXCEPT ![x] = t[Spare], ![Spare] = t[x]]
<1>0. Spare \in Places
  BY DEF Places
<1>1. /\ u \in [Places -> FbT] /\ u[x] = t[Spare] /\ u[Spare] = t[x]
      /\ \A i \in Places \ {x, Spare} : u[i] = t[i]
  BY <1>0, TableIs
<1>2. t[Spare].drm = None /\ t[Spare].id = 0 /\ t[Spare].handle = 0
  BY DEF Empty
<1> HIDE DEF u
<1>3. /\ DisplayT(k) /\ Owned(k, t) /\ OwnHandles(k, t, half)
      /\ ~lost => NoneLeft(k, t)
  BY DEF Accounts
<1>4. Owned(k, u)
  BY <1>0, <1>1, <1>2, <1>3 DEF Owned
<1>5. NoneLeft(k, t) => NoneLeft(k, u)
  BY <1>0, <1>1 DEF NoneLeft
<1>6. OwnHandles(k, t, half) => OwnHandles(k, u, half)
  BY <1>0, <1>1, <1>2 DEF OwnHandles
<1> QED
  BY <1>1, <1>3, <1>4, <1>5, <1>6 DEF Accounts, u

\* The drm object drm_scan returns, at an address that is free.
LEMMA Scanned ==
  ASSUME NEW k, NEW t, NEW lost, NEW half, Accounts(k, t, lost, half),
         NEW o \in Objects, NEW atomic \in BOOLEAN, \A i \in Places : t[i].drm # o
  PROVE  Accounts([k EXCEPT !.obj[o] = Fresh(atomic)], t, lost, half)
<1> DEFINE l == [k EXCEPT !.obj[o] = Fresh(atomic)]
<1>0. /\ DisplayT(k) /\ Owned(k, t) /\ OwnHandles(k, t, half)
      /\ ~lost => NoneLeft(k, t)
  BY DEF Accounts
<1>1. k = [obj |-> k.obj, scan |-> k.scan] /\ ScanT(k.scan)
  BY <1>0 DEF DisplayT
<1>2. l = With(k, o, Fresh(atomic), k.scan)
  BY <1>1 DEF With
<1>3. /\ Fresh(atomic) \in DrmT /\ Fresh(atomic).refcount = 1 /\ Fresh(atomic).delayed = 0
      /\ Fresh(atomic).fbs = {} /\ Fresh(atomic).handles = {}
  BY DEF Fresh, DrmT
<1> HIDE DEF l
<1>4. Moves(k, l, o, 1, 0, {}, {})
  <2> DEFINE d == Fresh(atomic)
  <2> HIDE DEF d
  <2>1. Moves(k, With(k, o, d, k.scan), o, d.refcount, d.delayed, d.fbs, d.handles)
    BY <1>0, <1>1, <1>3, WithT DEF d
  <2> QED
    BY <1>2, <1>3, <2>1 DEF d
<1>5. Owned(l, t)
  BY <1>0, <1>4, TableIs DEF Owned, Moves
<1>6. NoneLeft(k, t) => NoneLeft(l, t)
  BY <1>4 DEF NoneLeft, Moves
<1>7. OwnHandles(k, t, half) => OwnHandles(l, t, half)
  BY <1>4, TableIs DEF OwnHandles, Moves
<1> QED
  BY <1>0, <1>4, <1>5, <1>6, <1>7, TableIs DEF Accounts, Moves, l

\* The terminals, and nothing beside them.
Table == [i \in Places |-> IF i = Spare THEN NoTerm ELSE term[i]]

BInv ==
  /\ Accounts(Display, Table, leaked, halfMade)
  /\ leaked \in BOOLEAN /\ halfMade \subseteq Objects \X Nat

LEMMA EmptyRecords == Empty(NoTerm) /\ Empty(NoBuffer)
BY DEF Empty, NoTerm, NoBuffer, FbT

LEMMA SpareApart == Spare \notin Vts /\ Spare \in Places /\ Vts \subseteq Places
<1>1. ~(Spare \in Nat)
  BY DEF Spare
<1> QED
  BY <1>1, VtsAssumption DEF Places

LEMMA TableHolds ==
  /\ Table[Spare] = NoTerm
  /\ \A v \in Vts : Table[v] = term[v]
BY SpareApart DEF Table

LEMMA TableMoves ==
  ASSUME Types, NEW v \in Vts, NEW f, term' = [term EXCEPT ![v] = f]
  PROVE  Table' = [Table EXCEPT ![v] = f]
<1>1. \A w \in Vts : term'[w] = IF w = v THEN f ELSE term[w]
  BY DEF Types
<1> QED
  BY <1>1, SpareApart DEF Table, Places

\* Where a step ends.
LEMMA EndsIn ==
  ASSUME NEW k, NEW t, NEW lost \in BOOLEAN, NEW half \in SUBSET (Objects \X Nat),
         Accounts(k, t, lost, half), SetDisplay(k), Table' = t, leaked' = lost,
         halfMade' = half
  PROVE  BInv'
<1>1. k = [obj |-> k.obj, scan |-> k.scan]
  BY DEF Accounts, DisplayT
<1>2. Display' = k
  BY <1>1 DEF SetDisplay, Display
<1> QED
  BY <1>2 DEF BInv

\* Only the handles in doubt that some place has matter.
LEMMA Narrowed ==
  ASSUME NEW k, NEW t, NEW lost, NEW half, Accounts(k, t, lost, half), NEW other,
         \A i \in Places : t[i].handle # 0 /\ Handle(t[i]) \in half => Handle(t[i]) \in other
  PROVE  Accounts(k, t, lost, other)
BY DEF Accounts, OwnHandles

\* Where a step ends that notes which handles are in doubt.
LEMMA EndsNoted ==
  ASSUME NEW k, NEW lost \in BOOLEAN, NEW half, Accounts(k, Table', lost, half),
         SetDisplay(k), leaked' = lost, NoteHalfMade,
         \A p \in half : p \in halfMade \/ \E v \in Vts : p \in Half(term'[v])
  PROVE  BInv'
<1>1. \A i \in Places : Table'[i] = IF i = Spare THEN NoTerm ELSE term'[i]
  BY DEF Table
<1>2. ASSUME NEW v \in Vts
      PROVE  /\ v \in Places /\ Table'[v] = term'[v]
             /\ term'[v].handle \in Nat
             /\ term'[v].handle # 0 => term'[v].drm \in Objects
  <2>1. v \in Places /\ Table'[v] = term'[v]
    BY <1>1, SpareApart
  <2> QED
    BY <2>1, TableIs
<1>3. ASSUME NEW v \in Vts, term'[v].handle # 0,
             term'[v].id = 0 \/ Handle(term'[v]) \in halfMade
      PROVE  Handle(term'[v]) \in halfMade'
  BY <1>3 DEF NoteHalfMade
<1>4. halfMade' \in SUBSET (Objects \X Nat)
  <2> SUFFICES ASSUME NEW v \in Vts, term'[v].handle # 0
               PROVE  Handle(term'[v]) \in Objects \X Nat
    BY DEF NoteHalfMade
  <2> QED
    BY <1>2 DEF Handle
<1>5. ASSUME NEW i \in Places, Table'[i].handle # 0, Handle(Table'[i]) \in half
      PROVE  Handle(Table'[i]) \in halfMade'
  <2>1. i # Spare
    BY <1>1, <1>5 DEF NoTerm
  <2>2. i \in Vts /\ Table'[i] = term'[i]
    BY <1>1, <2>1 DEF Places
  <2>3. CASE Handle(term'[i]) \in halfMade
    BY <1>3, <1>5, <2>2, <2>3
  <2>4. ASSUME NEW v \in Vts, Handle(term'[i]) \in Half(term'[v])
        PROVE  Handle(term'[i]) \in halfMade'
    <3>1. term'[v].handle # 0 /\ term'[v].id = 0 /\ Handle(term'[i]) = Handle(term'[v])
      BY <2>4 DEF Half
    <3> QED
      BY <1>3, <3>1
  <2> QED
    BY <1>5, <2>2, <2>3, <2>4
<1>6. Accounts(k, Table', lost, halfMade')
  BY <1>5, Narrowed
<1> QED
  BY <1>4, <1>6, EndsIn

\* A place without a drm object has no framebuffer.
LEMMA NoDrmNoBuffer ==
  ASSUME NEW k, NEW t, NEW lost, NEW half, Accounts(k, t, lost, half),
         NEW x \in Places, t[x].drm = None
  PROVE  Empty(t[x])
<1>1. t[x] \in FbT
  BY TableIs
<1>2. t[x].handle = 0 /\ t[x].id = 0
  BY NoneAssumption, TableIs DEF Accounts, Owned
<1> QED
  BY <1>1, <1>2 DEF Empty

\* Who holds the last reference to an object is alone with it.
LEMMA LastHolder ==
  ASSUME Types, Counted, NEW o \in Objects, ~(obj[o].refcount > 1)
  PROVE  /\ g_drm = o => \A v \in Vts : term[v].drm # o
         /\ \A v, w \in Vts : term[v].drm = o /\ term[w].drm = o => v = w
<1>0. /\ obj[o].refcount \in Nat /\ obj[o].refcount >= Holders(o)
      /\ IsFiniteSet(Users(o)) /\ Cardinality(Users(o)) \in Nat
  BY HeldIsCounted, UsersFinite
<1>1. Cardinality(Users(o)) + Ref(o, g_drm) <= 1
  BY <1>0 DEF Holders, Ref
<1>2. ASSUME g_drm = o, NEW v \in Vts, term[v].drm = o PROVE FALSE
  <2>1. Cardinality(Users(o)) = 0
    BY <1>0, <1>1, <1>2 DEF Ref
  <2>2. v \in Users(o)
    BY <1>2 DEF Users
  <2> QED
    BY <1>0, <2>1, <2>2, FS_EmptySet
<1>3. ASSUME NEW v \in Vts, NEW w \in Vts, term[v].drm = o, term[w].drm = o, v # w PROVE FALSE
  <2>1. v \in Users(o) /\ w \in Users(o) \ {v}
    BY <1>3 DEF Users
  <2>2. IsFiniteSet(Users(o) \ {v}) /\ Cardinality(Users(o) \ {v}) = Cardinality(Users(o)) - 1
    BY <1>0, <2>1, FS_RemoveElement
  <2>3. Cardinality(Users(o) \ {v}) = 0
    <3>1. Cardinality(Users(o) \ {v}) \in Nat
      BY <2>2, FS_CardinalityType
    <3> QED
      BY <1>0, <1>1, <2>2, <3>1 DEF Ref
  <2> QED
    BY <2>1, <2>2, <2>3, FS_EmptySet
<1> QED
  BY <1>2, <1>3

\* A framebuffer is made for terminal v, which has none, and perhaps shown.
LEMMA MadeFor ==
  ASSUME Types, BInv, NEW v \in Vts, term[v].drm = None, NEW how,
         LET b == BufferInit(Display, g_drm, how) IN
           /\ term' = [term EXCEPT ![v] = b.fb]
           /\ \/ SetDisplay(b.k)
              \/ \E atomic \in AtomicOutcomes(g_drm), legacy \in BOOLEAN :
                   SetDisplay(SetMode(b.k, b.fb, atomic, legacy)),
         NoteHalfMade, UNCHANGED leaked
  PROVE  BInv'
<1> DEFINE b == BufferInit(Display, g_drm, how)
           t == [Table EXCEPT ![v] = b.fb]
           half == halfMade \cup Half(b.fb)
<1>1. /\ Accounts(Display, Table, leaked, halfMade) /\ g_drm \in Objects \cup {None}
      /\ leaked \in BOOLEAN
  BY DEF BInv, Types
<1>2. v \in Places /\ Table[v] = term[v]
  BY SpareApart, TableHolds
<1>3. Empty(Table[v])
  BY <1>1, <1>2, NoDrmNoBuffer
<1>4. b.fb \in FbT /\ Accounts(b.k, t, leaked, half)
  BY <1>1, <1>2, <1>3, Made
<1>5. Table' = t /\ term'[v] = b.fb
  BY TableMoves DEF Types
<1> HIDE DEF b, t
<1>6. \A atomic, legacy : Accounts(SetMode(b.k, b.fb, atomic, legacy), t, leaked, half)
  BY <1>4, ModeSet
<1>7. \A p \in half : p \in halfMade \/ \E w \in Vts : p \in Half(term'[w])
  BY <1>5
<1> HIDE DEF half
<1>8. CASE SetDisplay(b.k)
  BY <1>1, <1>4, <1>5, <1>7, <1>8, EndsNoted
<1>9. ASSUME NEW atomic, NEW legacy, SetDisplay(SetMode(b.k, b.fb, atomic, legacy))
      PROVE  BInv'
  BY <1>1, <1>5, <1>6, <1>7, <1>9, EndsNoted
<1> QED
  BY <1>8, <1>9 DEF b

\* A framebuffer is made, then destroyed with the terminal it was for.
LEMMA MadeForNothing ==
  ASSUME IInv, BInv, NEW how
  PROVE  LET b == BufferInit(Display, g_drm, how)
         IN  Accounts(BufferDestroy(b.k, b.fb), Table, leaked, halfMade)
<1> DEFINE b == BufferInit(Display, g_drm, how)
           t == [Table EXCEPT ![Spare] = b.fb]
           half == halfMade \cup Half(b.fb)
<1>1. /\ Accounts(Display, Table, leaked, halfMade) /\ g_drm \in Objects \cup {None}
      /\ Types /\ Counted
  BY DEF BInv, IInv, Types
<1>2. Spare \in Places /\ Table[Spare] = NoTerm
  BY SpareApart, TableHolds
<1>3. /\ b.fb \in FbT /\ Accounts(b.k, t, leaked, half)
      /\ \A i \in Places \ {Spare} : Table[i].handle # 0 /\ Handle(Table[i]) \in Half(b.fb) =>
                                        Handle(Table[i]) \in halfMade
  BY <1>1, <1>2, EmptyRecords, Made
<1>4. /\ b.fb.drm = g_drm
      /\ \A o \in Objects : Count(b.k, o) = Count(Display, o) + Ref(o, g_drm)
  BY <1>1, MadeNow
<1>5. t[Spare] = b.fb /\ [t EXCEPT ![Spare] = NoTerm] = Table
  <2>1. Table \in [Places -> FbT]
    BY <1>1, TableIs
  <2> HIDE DEF b
  <2>2. t[Spare] = b.fb
    BY <1>2, <2>1
  <2>3. [t EXCEPT ![Spare] = NoTerm] = [Table EXCEPT ![Spare] = NoTerm]
    BY <1>2, <2>1
  <2>4. [Table EXCEPT ![Spare] = NoTerm] = Table
    BY <1>2, <2>1
  <2> QED
    BY <2>2, <2>3, <2>4
<1>6. \A i \in Places : Table[i].handle # 0 /\ Handle(Table[i]) \in half =>
                        Handle(Table[i]) \in halfMade
  BY <1>2, <1>3 DEF NoTerm
<1> HIDE DEF b, t, half
<1>7. t[Spare].drm \in Objects => b.k.obj[t[Spare].drm].refcount > 1
  <2> SUFFICES ASSUME g_drm \in Objects PROVE b.k.obj[g_drm].refcount > 1
    BY <1>4, <1>5
  <2>1. obj[g_drm].refcount \in Nat /\ obj[g_drm].refcount >= 1
    BY <1>1, HeldIsCounted
  <2> QED
    BY <1>4, <2>1 DEF Count, Ref, Display
<1>8. Accounts(BufferDestroy(b.k, t[Spare]), [t EXCEPT ![Spare] = NoTerm], leaked, half)
  BY <1>2, <1>3, <1>7, EmptyRecords, Destroyed
<1>9. Accounts(BufferDestroy(b.k, b.fb), Table, leaked, half)
  BY <1>5, <1>8
<1>10. Accounts(BufferDestroy(b.k, b.fb), Table, leaked, halfMade)
  BY <1>6, <1>9, Narrowed
<1> QED
  BY <1>10 DEF b

\* The new framebuffer is shown before the old one goes, so the old one has the
\* place beside the terminals meanwhile (main_process_events).
LEMMA RestartBuffers ==
  ASSUME IInv, BInv, NEW v \in Vts, NEW how, NEW atomic, NEW legacy,
         Restart(v, how, atomic, legacy)
  PROVE  BInv'
<1> DEFINE b == BufferInit(Display, g_drm, how)
           shown == SetMode(b.k, b.fb, atomic, legacy)
           t1 == [Table EXCEPT ![v] = Table[Spare], ![Spare] = Table[v]]
           t2 == [t1 EXCEPT ![v] = b.fb]
           t3 == [t2 EXCEPT ![Spare] = NoTerm]
           half == halfMade \cup Half(b.fb)
<1>0. /\ Accounts(Display, Table, leaked, halfMade) /\ g_drm \in Objects \cup {None}
      /\ leaked \in BOOLEAN /\ Types /\ Counted /\ Moved
  BY DEF BInv, IInv, Types
<1>1. /\ pc = "idle" /\ v \in Open /\ SetDisplay(BufferDestroy(shown, term[v]))
      /\ term' = [term EXCEPT ![v] = b.fb] /\ NoteHalfMade /\ UNCHANGED leaked
  BY DEF Restart
<1>2. /\ Spare \in Places /\ Table[Spare] = NoTerm /\ Table[v] = term[v]
      /\ v \in Places \ {Spare} /\ Empty(Table[Spare])
  BY SpareApart, TableHolds, EmptyRecords
<1>3. Accounts(Display, t1, leaked, halfMade)
  BY <1>0, <1>2, Swapped
<1>4. t1[v] = NoTerm /\ t1[Spare] = term[v]
  BY <1>0, <1>2, TableIs
<1>5. b.fb \in FbT /\ Accounts(b.k, t2, leaked, half)
  <2> HIDE DEF t1
  <2> QED
    BY <1>0, <1>2, <1>3, <1>4, EmptyRecords, Made
<1>6. /\ b.fb.drm = g_drm
      /\ \A o \in Objects : Count(b.k, o) = Count(Display, o) + Ref(o, g_drm)
      /\ DisplayOK(b.k)
  BY <1>0, MadeNow
<1>7. t2[Spare] = term[v] /\ t3 = [Table EXCEPT ![v] = b.fb]
  <2>1. Table \in [Places -> FbT] /\ t1 \in [Places -> FbT]
    BY <1>0, <1>3, TableIs
  <2> HIDE DEF b
  <2>2. t2[Spare] = term[v]
    BY <1>2, <1>4, <2>1
  <2>3. \A i \in Places : t3[i] = IF i = v THEN b.fb ELSE Table[i]
    BY <1>2, <1>4, <2>1
  <2> QED
    BY <1>2, <2>1, <2>2, <2>3
<1> HIDE DEF b, t2, t3, half
<1>8. Accounts(shown, t2, leaked, half)
  BY <1>5, ModeSet
<1>9. Same(b.k, shown)
  BY <1>6, SetModeSame
<1> HIDE DEF shown
<1>10. t2[Spare].drm \in Objects => shown.obj[t2[Spare].drm].refcount > 1
  <2> SUFFICES ASSUME term[v].drm \in Objects PROVE shown.obj[term[v].drm].refcount > 1
    BY <1>7
  <2>1. term[v].drm = g_drm
    BY <1>0, <1>1 DEF Moved
  <2>2. obj[g_drm].refcount \in Nat /\ obj[g_drm].refcount >= 1
    BY <1>0, <2>1, HeldIsCounted
  <2> QED
    BY <1>6, <1>9, <2>1, <2>2 DEF Same, Count, Ref, Display
<1>11. Accounts(BufferDestroy(shown, t2[Spare]), t3, leaked, half)
  BY <1>2, <1>8, <1>10, EmptyRecords, Destroyed DEF t3
<1>12. Table' = t3 /\ term'[v] = b.fb
  <2>1. Table' = [Table EXCEPT ![v] = b.fb]
    BY <1>0, <1>1, TableMoves
  <2>2. term'[v] = b.fb
    BY <1>0, <1>1 DEF Types
  <2> QED
    BY <1>7, <2>1, <2>2
<1>13. \A p \in half : p \in halfMade \/ \E w \in Vts : p \in Half(term'[w])
  BY <1>12 DEF half
<1>14. Accounts(BufferDestroy(shown, term[v]), Table', leaked, half)
  BY <1>7, <1>11, <1>12
<1> QED
  BY <1>0, <1>1, <1>13, <1>14, EndsNoted

\* A terminal's framebuffer goes.
LEMMA GivenUp ==
  ASSUME Types, Counted, BInv, NEW v \in Vts, NEW e, Empty(e),
         SetDisplay(BufferDestroy(Display, term[v])), term' = [term EXCEPT ![v] = e],
         NoteHalfMade, UNCHANGED leaked
  PROVE  BInv'
<1>0. /\ Accounts(Display, Table, leaked, halfMade)
      /\ leaked \in BOOLEAN
  BY DEF BInv
<1>1. v \in Places /\ Table[v] = term[v] /\ Table[Spare] = NoTerm
  BY SpareApart, TableHolds
<1>2. term[v].drm \in Objects /\ ~(Display.obj[term[v].drm].refcount > 1) =>
        \A i \in Places \ {v} : Table[i].drm # term[v].drm
  <2> SUFFICES ASSUME term[v].drm \in Objects, ~(obj[term[v].drm].refcount > 1),
                      NEW i \in Places \ {v}
               PROVE  Table[i].drm # term[v].drm
    BY DEF Display
  <2>1. \A w \in Vts : term[w].drm = term[v].drm => v = w
    BY LastHolder
  <2>2. CASE i = Spare
    BY <1>1, <2>2, NoneAssumption DEF NoTerm
  <2>3. CASE i \in Vts
    BY <2>1, <2>3, TableHolds
  <2> QED
    BY <2>2, <2>3 DEF Places
<1>3. Accounts(BufferDestroy(Display, Table[v]), [Table EXCEPT ![v] = e], leaked, halfMade)
  BY <1>0, <1>1, <1>2, Destroyed
<1>4. Table' = [Table EXCEPT ![v] = e]
  BY TableMoves
<1> QED
  BY <1>0, <1>1, <1>3, <1>4, EndsNoted

\* The table is the same where no terminal changed.
LEMMA TableStays == ASSUME UNCHANGED term PROVE Table' = Table
BY DEF Table

\* The current object loses a reference: with the last, it had no framebuffers.
LEMMA CurrentDropped ==
  ASSUME Types, Counted, BInv
  PROVE  Accounts(DelRef(Display, g_drm), Table, leaked, halfMade)
<1>1. Accounts(Display, Table, leaked, halfMade) /\ g_drm \in Objects \cup {None}
  BY DEF BInv, Types
<1>2. ASSUME g_drm \in Objects, ~(Display.obj[g_drm].refcount > 1), NEW i \in Places
      PROVE  Table[i].drm # g_drm
  <2>1. \A v \in Vts : term[v].drm # g_drm
    BY <1>2, LastHolder DEF Display
  <2>2. CASE i = Spare
    BY <1>2, <2>2, TableHolds, NoneAssumption DEF NoTerm
  <2>3. CASE i \in Vts
    BY <2>1, <2>3, TableHolds
  <2> QED
    BY <2>2, <2>3 DEF Places
<1> QED
  BY <1>1, <1>2, Dropped

\* No framebuffer is on an object without references.
LEMMA FreeHasNone ==
  ASSUME Types, Counted, NEW o \in Objects, obj[o].refcount = 0, NEW i \in Places
  PROVE  Table[i].drm # o
<1>1. \A v \in Vts : term[v].drm # o
  BY HeldIsCounted
<1>2. CASE i = Spare
  BY <1>2, TableHolds, NoneAssumption DEF NoTerm
<1>3. CASE i \in Vts
  BY <1>1, <1>3, TableHolds
<1> QED
  BY <1>2, <1>3 DEF Places

LEMMA InitBuffers == Init => BInv
<1> SUFFICES ASSUME Init PROVE BInv
  OBVIOUS
<1>1. /\ obj = [o \in Objects |-> Freed] /\ leaked = FALSE /\ halfMade = {}
      /\ term = [v \in Vts |-> NoTerm] /\ scan = <<>>
  BY DEF Init
<1>2. \A i \in Places : Table[i] = NoTerm
  BY <1>1 DEF Table, Places
<1>3. Table \in [Places -> FbT]
  BY <1>2, EmptyRecords DEF Table, Empty
<1>4. Freed \in DrmT /\ Freed.fbs = {} /\ Freed.delayed = 0 /\ Freed.handles = {}
  BY DEF Freed, DrmT
<1>5. DisplayT(Display) /\ \A o \in Objects : Display.obj[o] = Freed
  BY <1>1, <1>4 DEF DisplayT, Display, ScanT
<1>6. NoTerm.id = 0 /\ NoTerm.handle = 0
  BY DEF NoTerm
<1>7. Owned(Display, Table) /\ NoneLeft(Display, Table) /\ OwnHandles(Display, Table, {})
  BY <1>2, <1>4, <1>5, <1>6 DEF Owned, NoneLeft, OwnHandles
<1> QED
  BY <1>1, <1>3, <1>5, <1>7 DEF BInv, Accounts

LEMMA NextBuffers == IInv /\ BInv /\ [Next]_vars => BInv'
<1> SUFFICES ASSUME IInv, BInv, [Next]_vars PROVE BInv'
  OBVIOUS
<1>0. /\ Types /\ Counted /\ Unheld /\ Accounts(Display, Table, leaked, halfMade)
      /\ leaked \in BOOLEAN /\ halfMade \in SUBSET (Objects \X Nat) /\ g_drm \in Objects \cup {None}
  BY DEF IInv, BInv, Types
<1>1. CASE UNCHANGED <<obj, scan, term, leaked, halfMade>>
  <2>1. Display' = Display /\ Table' = Table
    BY <1>1, TableStays DEF Display
  <2> QED
    BY <1>0, <1>1, <2>1 DEF BInv
<1>2. CASE Start
  <2>1. /\ pc = "start" /\ UNCHANGED <<scan, term, leaked, halfMade>>
    BY <1>2 DEF Start
  <2>2. CASE UNCHANGED obj
    BY <1>1, <2>1, <2>2
  <2>3. ASSUME NEW o \in Objects, NEW atomic \in BOOLEAN, obj' = [obj EXCEPT ![o] = Fresh(atomic)]
        PROVE  BInv'
    <3> DEFINE k == [Display EXCEPT !.obj[o] = Fresh(atomic)]
    <3>1. \A i \in Places : Table[i].drm # o
      BY <1>0, <2>1, FreeHasNone DEF Unheld
    <3>2. Accounts(k, Table, leaked, halfMade)
      BY <1>0, <3>1, Scanned
    <3>3. SetDisplay(k)
      BY <2>1, <2>3 DEF SetDisplay, Display
    <3> HIDE DEF k
    <3> QED
      BY <1>0, <2>1, <3>2, <3>3, TableStays, EndsIn
  <2> QED
    BY <1>2, <2>2, <2>3 DEF Start
<1>3. ASSUME NEW v \in Vts, NEW how, OpenTerm(v, how) PROVE BInv'
  <2>1. term[v].drm = None
    BY <1>0, <1>3 DEF OpenTerm, Unheld, Open
  <2> QED
    BY <1>0, <1>3, <2>1, MadeFor DEF OpenTerm
<1>4. ASSUME NEW v \in Vts, NEW how, OpenFails(v, how) PROVE BInv'
  <2> DEFINE b == BufferInit(Display, g_drm, how)
             k == BufferDestroy(b.k, b.fb)
  <2>1. SetDisplay(k) /\ UNCHANGED <<term, leaked, halfMade>>
    BY <1>4 DEF OpenFails
  <2>2. Accounts(k, Table, leaked, halfMade)
    BY MadeForNothing
  <2> HIDE DEF k
  <2> QED
    BY <1>0, <2>1, <2>2, TableStays, EndsIn
<1>5. ASSUME NEW v \in Vts, NEW how, RestartFails(v, how) PROVE BInv'
  <2> DEFINE b == BufferInit(Display, g_drm, how)
             k == BufferDestroy(b.k, b.fb)
             t == [Table EXCEPT ![v] = NoTerm]
  <2>1. /\ SetDisplay(k) /\ NoteHalfMade /\ leaked' = TRUE
        /\ term' = [term EXCEPT ![v] = NoTerm]
    BY <1>5 DEF RestartFails
  <2>2. Accounts(k, Table, leaked, halfMade)
    BY MadeForNothing
  <2> HIDE DEF k
  <2>3. Accounts(k, t, TRUE, halfMade)
    BY <2>2, SpareApart, EmptyRecords, Forgotten
  <2>4. Table' = t
    BY <1>0, <2>1, TableMoves
  <2>5. TRUE \in BOOLEAN
    OBVIOUS
  <2> QED
    BY <2>1, <2>3, <2>4, <2>5, EndsNoted
<1>6. ASSUME NEW v \in Vts, NEW atomic, NEW legacy, Activate(v, atomic, legacy) PROVE BInv'
  <2> DEFINE k == SetMode(Display, term[v], atomic, legacy)
  <2>1. SetDisplay(k) /\ UNCHANGED <<term, leaked, halfMade>>
    BY <1>6 DEF Activate
  <2>2. term[v] \in FbT
    BY <1>0, SpareApart, TableHolds, TableIs
  <2>3. Accounts(k, Table, leaked, halfMade)
    BY <1>0, <2>2, ModeSet
  <2> HIDE DEF k
  <2> QED
    BY <1>0, <2>1, <2>3, TableStays, EndsIn
<1>7. CASE DestroySplash
  BY <1>0, <1>7, VtsAssumption, EmptyRecords, GivenUp DEF DestroySplash
<1>8. CASE ChromeShows
  <2> DEFINE k == [obj |-> obj, scan |-> <<>>]
  <2>1. SetDisplay(k) /\ UNCHANGED <<term, leaked, halfMade>>
    BY <1>8 DEF SetDisplay, ChromeShows
  <2>2. DisplayT(k) /\ k.obj = Display.obj
    BY <1>0 DEF Accounts, DisplayT, Display, ScanT
  <2>3. Accounts(k, Table, leaked, halfMade)
    BY <1>0, <2>2, ScanOnly
  <2> HIDE DEF k
  <2> QED
    BY <1>0, <2>1, <2>3, TableStays, EndsIn
<1>9. ASSUME NEW new \in Objects \cup {None}, NEW atomic \in BOOLEAN, Hotplug(new, atomic)
      PROVE  BInv'
  <2> DEFINE k == DelRef(Display, g_drm)
             l == IF new = None THEN k ELSE [k EXCEPT !.obj[new] = Fresh(atomic)]
  <2>1. /\ SetDisplay(l) /\ UNCHANGED <<term, leaked, halfMade>>
        /\ new # None => obj[new] = Freed
    BY <1>9 DEF Hotplug, Rescan
  <2>2. Accounts(k, Table, leaked, halfMade)
    BY <1>0, CurrentDropped
  <2> HIDE DEF k
  <2>3. Accounts(l, Table, leaked, halfMade)
    <3>1. CASE new = None
      BY <2>2, <3>1
    <3>2. CASE new # None
      <4>1. new \in Objects /\ obj[new].refcount = 0
        BY <2>1, <3>2 DEF Freed
      <4>2. \A i \in Places : Table[i].drm # new
        BY <1>0, <4>1, FreeHasNone
      <4>3. Accounts([k EXCEPT !.obj[new] = Fresh(atomic)], Table, leaked, halfMade)
        BY <2>2, <4>1, <4>2, Scanned
      <4> QED
        BY <3>2, <4>3
    <3> QED
      BY <3>1, <3>2
  <2> HIDE DEF l
  <2> QED
    BY <1>0, <2>1, <2>3, TableStays, EndsIn
<1>10. ASSUME NEW v \in Vts, HotplugDestroy(v) PROVE BInv'
  BY <1>0, <1>10, EmptyRecords, GivenUp DEF HotplugDestroy
<1>11. CASE HotplugTurn \/ HotplugDone \/ UNCHANGED vars
  BY <1>1, <1>11 DEF HotplugTurn, HotplugDone, vars
<1>12. ASSUME NEW v \in Vts, NEW how, HotplugCreate(v, how) PROVE BInv'
  <2>1. term[v].drm = None
    BY <1>0, <1>12 DEF HotplugCreate, Unheld
  <2> QED
    BY <1>0, <1>12, <2>1, MadeFor DEF HotplugCreate
<1>13. CASE Stop
  <2> DEFINE k == DelRef(Display, g_drm)
  <2>1. SetDisplay(k) /\ UNCHANGED <<term, leaked, halfMade>>
    BY <1>13 DEF Stop
  <2>2. Accounts(k, Table, leaked, halfMade)
    BY <1>0, CurrentDropped
  <2> HIDE DEF k
  <2> QED
    BY <1>0, <2>1, <2>2, TableStays, EndsIn
<1> QED
  BY <1>2, <1>3, <1>4, <1>5, <1>6, <1>7, <1>8, <1>9, <1>10, <1>11, <1>12, <1>13, RestartBuffers
     DEF Next

\* Both invariants together.
LEMMA AlwaysBoth == Spec => [](IInv /\ BInv)
<1>1. Init => IInv /\ BInv
  BY InitOK, InitBuffers
<1>2. IInv /\ BInv /\ [Next]_vars => (IInv /\ BInv)'
  BY NextOK, NextBuffers
<1> QED
  BY <1>1, <1>2, PTL DEF Spec

\* Counts, identifiers and the terminals' records stay what they are through
\* every call and every failure (drm.c, fb.c).
THEOREM BuffersTypeCorrect == Spec => []TypeOK
<1>1. ASSUME IInv, BInv PROVE TypeOK
  <2>1. /\ Accounts(Display, Table, leaked, halfMade) /\ leaked \in BOOLEAN /\ halfMade \in SUBSET (Objects \X Nat)
        /\ Types
    BY <1>1 DEF BInv, IInv
  <2>2. obj \in [Objects -> DrmT] /\ ScanT(scan)
    BY <2>1 DEF Accounts, DisplayT, Display
  <2>3. term \in [Vts -> FbT]
    <3>1. \A v \in Vts : term[v] \in FbT
      BY <2>1, SpareApart, TableHolds, TableIs
    <3>2. term = [v \in Vts |-> term[v]]
      BY <2>1 DEF Types
    <3> QED
      BY <3>1, <3>2
  <2> QED
    BY <2>1, <2>2, <2>3 DEF TypeOK, Types, DrmT, FbT, ScanT
<1> QED
  BY <1>1, AlwaysBoth, PTL

\* Every framebuffer the kernel holds belongs to one terminal or waits to be
\* removed, and every dumb buffer it holds is some terminal's; two terminals never
\* have the same framebuffer, nor the same handle but for one that a half made
\* framebuffer has kept, and every other handle in use is allocated: for any
\* number of terminals, drm objects and failures (fb_buffer_create,
\* fb_buffer_destroy, drm_rmfb, drm_clear_rmfb).
THEOREM BuffersAlwaysAccounted == Spec => []BuffersAccounted
<1>1. ASSUME BInv PROVE BuffersAccounted
  <2>1. /\ Accounts(Display, Table, leaked, halfMade) /\ Owned(Display, Table)
        /\ ~leaked => NoneLeft(Display, Table)
        /\ OwnHandles(Display, Table, halfMade)
    BY <1>1 DEF BInv, Accounts
  <2>2. \A v \in Vts : v \in Places /\ Table[v] = term[v]
    BY SpareApart, TableHolds
  <2>3. Table[Spare].drm = None
    BY TableHolds DEF NoTerm
  <2>4. FbsAccounted
    <3> SUFFICES ASSUME NEW o \in Objects
                 PROVE  LET used == {term[v].id : v \in Users(o)} \ {0}
                            waiting == {obj[o].delayed} \ {0}
                        IN  /\ used \cup waiting \subseteq obj[o].fbs
                            /\ ~leaked => obj[o].fbs = used \cup waiting
                            /\ used \cap waiting = {}
      BY DEF FbsAccounted
    <3> DEFINE used == {term[v].id : v \in Users(o)} \ {0}
               waiting == {obj[o].delayed} \ {0}
    <3>1. ASSUME NEW v \in Users(o), term[v].id # 0
          PROVE  term[v].id \in obj[o].fbs /\ term[v].id # obj[o].delayed
      BY <2>1, <2>2, <3>1 DEF Owned, Users, Display
    <3>2. obj[o].delayed # 0 => obj[o].delayed \in obj[o].fbs
      BY <2>1 DEF Owned, Display
    <3>3. used \cup waiting \subseteq obj[o].fbs /\ used \cap waiting = {}
      BY <3>1, <3>2
    <3>4. ASSUME ~leaked, NEW n \in obj[o].fbs PROVE n \in used \cup waiting
      <4>1. n # 0
        BY <2>1 DEF Owned, Display
      <4>2. n = obj[o].delayed \/ \E i \in Places : Table[i].drm = o /\ Table[i].id = n
        BY <2>1, <3>4 DEF NoneLeft, Display
      <4>3. ASSUME NEW i \in Places, Table[i].drm = o, Table[i].id = n PROVE n \in used
        <5>1. i \in Vts
          BY <2>3, <4>3, NoneAssumption DEF Places
        <5>2. i \in Users(o) /\ term[i].id = n
          BY <2>2, <4>3, <5>1 DEF Users
        <5> QED
          BY <4>1, <5>2
      <4> QED
        BY <4>1, <4>2, <4>3
    <3> QED
      BY <3>3, <3>4
  <2>5. HandlesOwned
    BY <2>1, <2>2 DEF HandlesOwned, OwnHandles, Users, Display
  <2>6. HandlesReleased
    <3> SUFFICES ASSUME ~leaked, NEW o \in Objects, NEW n \in obj[o].handles
                 PROVE  n \in {term[v].handle : v \in Users(o)}
      BY DEF HandlesReleased
    <3>1. PICK i \in Places : Table[i].drm = o /\ Table[i].handle = n
      BY <2>1 DEF NoneLeft, Display
    <3>2. i \in Vts
      BY <2>3, <3>1, NoneAssumption DEF Places
    <3>3. i \in Users(o) /\ term[i].handle = n
      BY <2>2, <3>1, <3>2 DEF Users
    <3> QED
      BY <3>3
  <2> QED
    BY <2>4, <2>5, <2>6 DEF BuffersAccounted
<1> QED
  BY <1>1, AlwaysBoth, PTL
=============================================================================
