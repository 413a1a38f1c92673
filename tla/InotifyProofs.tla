----------------------------- MODULE InotifyProofs -----------------------------
(***************************************************************************)
(* Proofs about InotifyBackend, for any tree, roots and limits.  On any    *)
(* host, hostile ones whose walks race the file system included: the       *)
(* types, and that no watch is leaked (IInv).  On a calm host: that the    *)
(* tables agree (TreeInv, TableInv), so that every watch is counted, and   *)
(* what the tables owe to the tree (CoverInv): that the watcher is         *)
(* recursive.                                                              *)
(***************************************************************************)
EXTENDS InotifyBackend, FiniteSetTheorems, SequenceTheorems, WellFoundedInduction,
        NaturalsInduction, TLAPS

-----------------------------------------------------------------------------
(* Paths: how "under" orders them *)

LEMMA PathIsSeq ==
  ASSUME NEW d \in Path
  PROVE  /\ Len(d) \in Nat /\ DOMAIN d = 1 .. Len(d)
         /\ \A i \in 1 .. Len(d) : d[i] \in Name
         /\ d = <<>> <=> Len(d) = 0
BY DEF Path

LEMMA SamePath ==
  ASSUME NEW d \in Path, NEW e \in Path, Len(d) = Len(e), \A i \in 1 .. Len(d) : d[i] = e[i]
  PROVE  d = e
BY DEF Path

LEMMA DirIsPath == /\ \A d \in Dir : d \in Path /\ d # <<>>
                   /\ NoDir \in Path /\ NoDir \notin Dir
BY DirAssumption DEF NoDir, Path

LEMMA UnderMeans ==
  ASSUME NEW d \in Path, NEW r \in Path
  PROVE  Under(d, r) <=> Len(r) <= Len(d) /\ \A i \in 1 .. Len(r) : d[i] = r[i]
<1>1. Len(d) \in Nat /\ Len(r) \in Nat
  BY PathIsSeq
<1> QED
  BY <1>1 DEF Under, IsPrefix

LEMMA UnderSelf ==
  ASSUME NEW d \in Path
  PROVE  Under(d, d)
BY UnderMeans, PathIsSeq

LEMMA UnderTrans ==
  ASSUME NEW d \in Path, NEW e \in Path, NEW f \in Path, Under(d, e), Under(e, f)
  PROVE  Under(d, f)
BY UnderMeans, PathIsSeq

LEMMA UnderBoth ==
  ASSUME NEW d \in Path, NEW e \in Path, Under(d, e), Under(e, d)
  PROVE  d = e
<1>1. Len(d) = Len(e) /\ \A i \in 1 .. Len(d) : d[i] = e[i]
  BY UnderMeans, PathIsSeq
<1> QED
  BY <1>1, SamePath

\* Of two directories above a third, one is above the other.
LEMMA UnderChain ==
  ASSUME NEW d \in Path, NEW e \in Path, NEW f \in Path, Under(d, e), Under(d, f)
  PROVE  Under(e, f) \/ Under(f, e)
BY UnderMeans, PathIsSeq

LEMMA FrontIs ==
  ASSUME NEW d \in Path, d # <<>>
  PROVE  /\ Front(d) \in Path /\ Len(Front(d)) = Len(d) - 1
         /\ \A i \in 1 .. Len(d) - 1 : Front(d)[i] = d[i]
         /\ Last(d) \in Name /\ d = Append(Front(d), Last(d))
         /\ Under(d, Front(d)) /\ Front(d) # d
<1>1. Len(d) \in Nat \ {0} /\ \A i \in 1 .. Len(d) : d[i] \in Name
  BY PathIsSeq
<1>2. /\ Front(d) \in Path /\ Len(Front(d)) = Len(d) - 1
      /\ \A i \in 1 .. Len(d) - 1 : Front(d)[i] = d[i]
  <2>1. /\ Len(d) - 1 \in Int /\ \A i \in 1 .. Len(d) - 1 : d[i] \in Name
    BY <1>1
  <2> DEFINE n == Len(d) - 1
  <2>2. n \in Nat
    BY <1>1
  <2> HIDE DEF n
  <2>3. /\ SubSeq(d, 1, n) \in Seq(Name) /\ Len(SubSeq(d, 1, n)) = n
        /\ \A i \in 1 .. n : SubSeq(d, 1, n)[i] = d[i]
    <3>1. \A i \in 1 .. n : d[i] \in Name
      BY <2>1 DEF n
    <3> HIDE DEF Name
    <3> QED
      BY <2>2, <3>1, SubSeqProperties
  <2> QED
    BY <2>3 DEF Front, Path, n
<1>3. Last(d) \in Name
  BY <1>1 DEF Last
<1>4. Append(Front(d), Last(d)) \in Path /\ Len(Append(Front(d), Last(d))) = Len(d)
  BY <1>1, <1>2, <1>3, AppendProperties DEF Path
<1>5. \A i \in 1 .. Len(d) : Append(Front(d), Last(d))[i] = d[i]
  BY <1>1, <1>2, <1>3, AppendProperties DEF Path, Last
<1>6. d = Append(Front(d), Last(d))
  BY <1>4, <1>5, SamePath
<1>7. Under(d, Front(d)) /\ Front(d) # d
  BY <1>1, <1>2, UnderMeans
<1> QED
  BY <1>2, <1>3, <1>6, <1>7

LEMMA AppendIs ==
  ASSUME NEW d \in Path, NEW n \in Name
  PROVE  /\ Append(d, n) \in Path /\ Append(d, n) # <<>>
         /\ Front(Append(d, n)) = d /\ Last(Append(d, n)) = n
<1>1. Append(d, n) \in Path /\ Append(d, n) # <<>>
  BY AppendProperties DEF Path
<1> DEFINE e == Append(d, n)
<1> HIDE DEF e
<1>2. e = Append(Front(e), Last(e)) /\ Front(e) \in Path /\ Last(e) \in Name
  BY <1>1, FrontIs DEF e
<1>3. Front(e) = d /\ Last(e) = n
  BY <1>2, AppendInjective DEF e, Path
<1> QED
  BY <1>1, <1>3 DEF e

\* What is strictly below a directory is below it by its parent as well.
LEMMA FrontUnder ==
  ASSUME NEW d \in Path, NEW e \in Path, Under(d, e), d # e
  PROVE  d # <<>> /\ Under(Front(d), e)
<1>1. Len(e) <= Len(d) /\ \A i \in 1 .. Len(e) : d[i] = e[i]
  BY UnderMeans
<1>2. Len(e) # Len(d)
  BY <1>1, SamePath, PathIsSeq
<1>3. Len(e) < Len(d) /\ Len(e) \in Nat /\ Len(d) \in Nat /\ d # <<>>
  BY <1>1, <1>2, PathIsSeq
<1> QED
  BY <1>1, <1>3, FrontIs, UnderMeans

LEMMA DirPrefix ==
  ASSUME NEW d \in Dir, NEW e \in Path, Under(d, e), e # <<>>
  PROVE  e \in Dir
<1>1. d \in Path /\ Len(d) \in Nat /\ Len(e) \in Nat
  BY DirIsPath, PathIsSeq
<1>2. Len(e) \in 1 .. Len(d) /\ \A i \in 1 .. Len(e) : d[i] = e[i]
  BY <1>1, UnderMeans, PathIsSeq
<1>3. SubSeq(d, 1, Len(e)) \in Dir
  BY <1>2, DirAssumption DEF HasPrefixes
<1>4. SubSeq(d, 1, Len(e)) = e
  <2>1. \A i \in 1 .. Len(e) : d[i] \in Name
    BY <1>1, <1>2, PathIsSeq
  <2>2. /\ SubSeq(d, 1, Len(e)) \in Path /\ Len(SubSeq(d, 1, Len(e))) = Len(e)
        /\ \A i \in 1 .. Len(e) : SubSeq(d, 1, Len(e))[i] = d[i]
    BY <1>1, <1>2, <2>1, SubSeqProperties DEF Path
  <2> QED
    BY <1>2, <2>2, SamePath
<1> QED
  BY <1>3, <1>4

-----------------------------------------------------------------------------
(* The type invariant *)

\* A queue the kernel may hold: one beyond its limit only with the overflow event.
QueueOK(q) == /\ q \in Seq(Event) /\ Len(q) <= host.queue + 1
              /\ Len(q) = host.queue + 1 => Last(q) = Overflow

TypeInv == TypeOK /\ QueueOK(queue)

LEMMA HostIs ==
  ASSUME host \in Hosts
  PROVE  /\ host.mutable \subseteq Dir
         /\ \A new \in host.rootSets : new \subseteq Dir /\ new \subseteq InitDirs \cup host.mutable
         /\ host.renames \subseteq Dir \X Dir
         /\ host.queue \in Nat /\ host.watches \in Nat /\ host.maxOps \in Nat
         /\ host.maxCalls \in Nat /\ host.queue > 0 /\ Cardinality(InitDirs) <= host.maxOps
BY HostAssumption, DirAssumption

LEMMA WatchOnIs ==
  ASSUME NEW d
  PROVE  \/ WatchOn(d) = NoWd /\ \A w \in Wd : ~Exists(d) \/ kino[w] # ino[d]
         \/ WatchOn(d) \in Wd /\ Exists(d) /\ kino[WatchOn(d)] = ino[d]
BY DEF WatchOn

LEMMA NoWdIsNone == NoWd \notin Wd /\ Wd \subseteq Nat /\ NoWd \in Nat
BY WdAssumption DEF NoWd, Wd

LEMMA PushType ==
  ASSUME host \in Hosts, NEW q, QueueOK(q), NEW d \in Dir, NEW kind \in {"in", "out"}
  PROVE  QueueOK(Push(q, d, kind))
<1>1. Len(q) \in Nat /\ host.queue \in Nat \ {0} /\ q \in Seq(Event)
  BY HostIs DEF QueueOK
<1>2. ASSUME NEW e \in Event, Len(q) < host.queue \/ (Len(q) = host.queue /\ e = Overflow)
      PROVE  QueueOK(Append(q, e))
  BY <1>1, <1>2, AppendProperties DEF QueueOK, Last
<1>3. CASE WatchOn(Parent(d)) = NoWd
  BY <1>3 DEF Push
<1>4. CASE WatchOn(Parent(d)) # NoWd
  <2>1. [wd |-> WatchOn(Parent(d)), name |-> Last(d), kind |-> kind] \in Event
    BY <1>4, WatchOnIs, DirIsPath, FrontIs DEF Event, Parent
  <2>2. Overflow \in Event
    BY DEF Event
  <2>3. CASE Len(q) < host.queue
    <3> QED
      BY <1>2, <1>4, <2>1, <2>3 DEF Push
  <2>4. CASE ~(Len(q) < host.queue)
    <3>1. CASE Last(q) = Overflow
      BY <1>4, <2>4, <3>1 DEF Push
    <3>2. CASE Last(q) # Overflow
      <4>1. Len(q) = host.queue
        BY <1>1, <2>4, <3>2 DEF QueueOK
      <4> QED
        BY <1>2, <1>4, <2>2, <2>4, <3>2, <4>1 DEF Push
    <3> QED
      BY <3>1, <3>2
  <2> QED
    BY <2>3, <2>4
<1> QED
  BY <1>3, <1>4

LEMMA TailType ==
  ASSUME QueueOK(queue), host \in Hosts, queue # <<>>
  PROVE  QueueOK(Tail(queue)) /\ Head(queue) \in Event
<1>1. /\ Head(queue) \in Event /\ Tail(queue) \in Seq(Event) /\ Len(Tail(queue)) = Len(queue) - 1
      /\ \A i \in 1 .. Len(Tail(queue)) : Tail(queue)[i] = queue[i + 1]
  BY HeadTailProperties DEF QueueOK
<1>2. Len(queue) \in Nat /\ host.queue \in Nat /\ host.queue > 0
  BY HostIs DEF QueueOK
<1> QED
  BY <1>1, <1>2 DEF QueueOK

LEMMA PlaceIsPath ==
  /\ Place \subseteq Path /\ Dir \subseteq Place
  /\ \A d \in Dir, n \in Name : Append(d, n) \in Place
<1>1. \A d \in Dir, n \in Name : Append(d, n) \in Path
  BY DirIsPath, AppendIs
<1>2. \A d \in Dir : d \in Path
  BY DirIsPath
<1>3. ASSUME NEW x \in Place PROVE x \in Path
  <2>1. CASE x \in Dir
    BY <1>2, <2>1
  <2>2. CASE x \in {Append(d, n) : d \in Dir, n \in Name}
    <3>1. PICK d \in Dir, n \in Name : x = Append(d, n)
      BY <2>2
    <3> QED
      BY <1>1, <3>1
  <2> QED
    BY <2>1, <2>2 DEF Place
<1> QED
  BY <1>3 DEF Place

LEMMA PathOfType ==
  ASSUME TypeOK, NEW e \in Event, e # Overflow
  PROVE  /\ e.wd \in Wd /\ e.name \in Name /\ e.kind \in {"in", "out"}
         /\ kpath[e.wd] \in Path /\ PathOf(e) \in Path
         /\ kpath[e.wd] # NoDir => PathOf(e) \in Place
<1>1. e.wd \in Wd /\ e.name \in Name /\ e.kind \in {"in", "out"}
  BY DEF Event
<1>2. kpath[e.wd] \in Path
  BY <1>1, DirIsPath DEF TypeOK
<1>3. kpath[e.wd] # NoDir => kpath[e.wd] \in Dir
  BY <1>1 DEF TypeOK
<1>4. kpath[e.wd] # NoDir => PathOf(e) \in Place
  BY <1>1, <1>3, PlaceIsPath DEF PathOf
<1> QED
  BY <1>1, <1>2, <1>4, AppendIs DEF PathOf

LEMMA InitType == Init => TypeInv
<1> SUFFICES ASSUME Init PROVE TypeInv
  OBVIOUS
<1>1. host \in Hosts /\ host.maxOps \in Nat /\ host.queue \in Nat /\ host.maxCalls \in Nat
  BY HostIs DEF Init
<1>2. ops \in 0 .. host.maxOps
  <2>1. Cardinality(InitDirs) \in Nat
    BY DirAssumption, FS_Subset, FS_CardinalityType
  <2> QED
    BY <1>1, <2>1, HostIs DEF Init
<1>3. ino \in [Dir -> 0 .. host.maxOps]
  <2>1. PICK f \in [InitDirs -> 1 .. Cardinality(InitDirs)] :
             ino = [d \in Dir |-> IF d \in InitDirs THEN f[d] ELSE Absent]
    BY DEF Init
  <2>2. Cardinality(InitDirs) = ops
    BY DEF Init
  <2>3. \A d \in InitDirs : f[d] \in 0 .. host.maxOps
    BY <1>1, <1>2, <2>2
  <2> QED
    BY <1>1, <2>1, <2>3 DEF Absent
<1>4. QueueOK(queue)
  BY <1>1 DEF Init, QueueOK
<1>5. kino \in [Wd -> 0 .. host.maxOps] /\ kpath \in [Wd -> Dir \cup {NoDir}]
  BY <1>1 DEF Init, Absent
<1>6. nwd \in 0 .. MaxWd /\ watches \in [Dir -> Wd \cup {NoWd}] /\ calls \in 0 .. host.maxCalls
  BY <1>1, WdAssumption DEF Init
<1>7. walk \in [by : {"nobody", "events", "set_roots"}, todo : SUBSET Place,
               cur : Dir \cup {NoDir}, kids : SUBSET Dir]
  BY DEF Init, NoWalk
<1>8. /\ roots \subseteq Dir /\ rest \subseteq Place /\ gen \in {"get", "walk", "yield", "ended"}
      /\ closed \in BOOLEAN
  BY DEF Init
<1> QED
  BY <1>1, <1>2, <1>3, <1>4, <1>5, <1>6, <1>7, <1>8 DEF TypeInv, TypeOK, QueueOK

LEMMA AddType ==
  ASSUME TypeInv, NEW d \in Dir, AddWatch(d)
  PROVE  /\ kino' \in [Wd -> 0 .. host.maxOps] /\ kpath' \in [Wd -> Dir \cup {NoDir}]
         /\ nwd' \in 0 .. MaxWd /\ watches' \in [Dir -> Wd \cup {NoWd}]
<1>1. CASE UNCHANGED <<kino, nwd, kpath, watches>>
  BY <1>1 DEF TypeInv, TypeOK
<1>2. CASE ~UNCHANGED <<kino, nwd, kpath, watches>>
  <2> DEFINE w == IF WatchOn(d) = NoWd THEN nwd + 1 ELSE WatchOn(d)
  <2>1. /\ w \in Wd /\ nwd' \in {w, nwd}
        /\ kino' = [kino EXCEPT ![w] = ino[d]]
        /\ kpath' = [kpath EXCEPT ![w] = d]
        /\ watches' = [watches EXCEPT ![d] = w]
    BY <1>2 DEF AddWatch
  <2> HIDE DEF w
  <2> QED
    BY <2>1, WdAssumption DEF TypeInv, TypeOK, Wd
<1> QED
  BY <1>1, <1>2

LEMMA RemoveType ==
  ASSUME TypeInv, NEW ps, RemoveTrees(ps)
  PROVE  /\ kino' \in [Wd -> 0 .. host.maxOps] /\ kpath' \in [Wd -> Dir \cup {NoDir}]
         /\ watches' \in [Dir -> Wd \cup {NoWd}]
<1> DEFINE doomed == {d \in Dir : watches[d] # NoWd /\ \E p \in ps : Under(d, p)}
           gone == {watches[d] : d \in doomed}
<1>1. /\ watches' = [d \in Dir |-> IF d \in doomed THEN NoWd ELSE watches[d]]
      /\ kino' = [w \in Wd |-> IF w \in gone THEN Absent ELSE kino[w]]
      /\ kpath' = [w \in Wd |-> IF w \in gone THEN NoDir ELSE kpath[w]]
  BY DEF RemoveTrees
<1> HIDE DEF doomed, gone
<1>2. host.maxOps \in Nat
  BY HostIs DEF TypeInv, TypeOK
<1> QED
  BY <1>1, <1>2 DEF TypeInv, TypeOK, Absent

LEMMA ProceedType ==
  ASSUME TypeInv, NEW left \in SUBSET Place, Proceed(left)
  PROVE  /\ gen' \in {"get", "walk"} /\ rest' \in SUBSET Place
         /\ walk' \in [by : {"nobody", "events", "set_roots"}, todo : SUBSET Place,
                       cur : Dir \cup {NoDir}, kids : SUBSET Dir]
BY DEF TypeInv, TypeOK, Proceed, StartWalk

LEMMA StepType == TypeInv /\ [Next]_vars => TypeInv'
<1> SUFFICES ASSUME TypeInv, [Next]_vars PROVE TypeInv'
  OBVIOUS
<1> USE DEF TypeInv
<1>0. host.maxOps \in Nat /\ host.queue \in Nat /\ host.maxCalls \in Nat
  BY HostIs DEF TypeOK
<1>1. CASE UNCHANGED vars
  BY <1>1 DEF vars, fs, kernel, TypeOK, QueueOK
<1>2. ASSUME NEW d \in Dir, Mkdir(d) PROVE TypeInv'
  <2>1. QueueOK(queue')
    BY <1>2, PushType DEF Mkdir, TypeOK
  <2>2. /\ ino' \in [Dir -> 0 .. host.maxOps] /\ ops' \in 0 .. host.maxOps
    BY <1>0, <1>2 DEF Mkdir, MayChange, TypeOK
  <2> QED
    BY <1>2, <2>1, <2>2 DEF Mkdir, TypeOK, QueueOK
<1>3. ASSUME NEW d \in Dir, Rmdir(d) PROVE TypeInv'
  <2>1. QueueOK(queue')
    BY <1>3, PushType DEF Rmdir, TypeOK
  <2>2. /\ ino' \in [Dir -> 0 .. host.maxOps] /\ ops' \in 0 .. host.maxOps
        /\ kino' \in [Wd -> 0 .. host.maxOps]
    BY <1>0, <1>3 DEF Rmdir, MayChange, TypeOK, Absent
  <2> QED
    BY <1>3, <2>1, <2>2 DEF Rmdir, TypeOK, QueueOK
<1>4. ASSUME NEW a \in Dir, NEW b \in Dir, Rename(a, b) PROVE TypeInv'
  <2>1. QueueOK(queue')
    BY <1>4, PushType DEF Rename, TypeOK
  <2>2. ops' \in 0 .. host.maxOps
    BY <1>0, <1>4 DEF Rename, MayChange, TypeOK
  <2>3. ino' \in [Dir -> 0 .. host.maxOps]
    BY <1>0, <1>4 DEF Rename, TypeOK, Absent
  <2> QED
    BY <1>4, <2>1, <2>2, <2>3 DEF Rename, TypeOK, QueueOK
<1>5. ASSUME NEW d \in walk.todo, WalkList(d) PROVE TypeInv'
  <2>1. walk' \in [by : {"nobody", "events", "set_roots"}, todo : SUBSET Place,
                   cur : Dir \cup {NoDir}, kids : SUBSET Dir]
    <3>1. CASE Exists(d)
      <4>1. {c \in Children(d) : Last(c) \notin host.ignored} \subseteq Dir /\ d \in Dir
        BY <3>1 DEF Children, Exists
      <4> QED
        BY <1>5, <4>1 DEF WalkList, TypeOK
    <3>2. CASE ~Exists(d)
      BY <1>5, <3>2 DEF WalkList, TypeOK
    <3> QED
      BY <3>1, <3>2
  <2> QED
    BY <1>5, <2>1 DEF WalkList, fs, kernel, TypeOK, QueueOK
<1>6. CASE WalkWatch
  <2>1. walk.cur \in Dir /\ AddWatch(walk.cur)
    BY <1>6 DEF WalkWatch, TypeOK
  <2>2. walk' \in [by : {"nobody", "events", "set_roots"}, todo : SUBSET Place,
                   cur : Dir \cup {NoDir}, kids : SUBSET Dir]
    BY <1>6, PlaceIsPath DEF WalkWatch, TypeOK
  <2> QED
    BY <1>6, <2>1, <2>2, AddType DEF WalkWatch, fs, TypeOK, QueueOK
<1>7. CASE WalkDone
  BY <1>7 DEF WalkDone, NoWalk, fs, kernel, TypeOK, QueueOK
<1>8. CASE ReadOverflow
  <2>1. QueueOK(queue')
    BY <1>8, TailType DEF ReadOverflow, TypeOK
  <2>2. roots \in SUBSET Place /\ Proceed(roots)
    BY <1>8, PlaceIsPath DEF ReadOverflow, TypeOK
  <2> QED
    BY <1>8, <2>1, <2>2, ProceedType DEF ReadOverflow, fs, TypeOK, QueueOK
<1>9. CASE ReadSkipped
  <2>1. QueueOK(queue')
    BY <1>9, TailType DEF ReadSkipped, TypeOK
  <2> QED
    BY <1>9, <2>1 DEF ReadSkipped, fs, TypeOK, QueueOK
<1>10. CASE ReadAppeared
  <2>1. QueueOK(queue') /\ Head(queue) \in Event /\ Head(queue) # Overflow
    <3>1. Overflow.kind = "overflow"
      BY DEF Overflow
    <3>2. Head(queue).kind = "in" /\ queue # <<>> /\ queue' = Tail(queue)
      BY <1>10 DEF ReadAppeared
    <3>3. Head(queue) # Overflow
      BY <3>1, <3>2
    <3> QED
      BY <3>2, <3>3, TailType DEF TypeOK
  <2>2. rest' \in SUBSET Place
    BY <1>10, <2>1, PathOfType DEF ReadAppeared, Unresolved
  <2> QED
    BY <1>10, <2>1, <2>2 DEF ReadAppeared, fs, TypeOK, QueueOK
<1>11. CASE ReadVanished
  <2>1. QueueOK(queue')
    BY <1>11, TailType DEF ReadVanished, TypeOK
  <2>2. PICK ps : RemoveTrees(ps)
    BY <1>11 DEF ReadVanished
  <2> QED
    BY <1>11, <2>1, <2>2, RemoveType DEF ReadVanished, fs, TypeOK, QueueOK
<1>12. CASE Resume
  <2>1. rest \in SUBSET Place /\ Proceed(rest)
    BY <1>12 DEF Resume, TypeOK
  <2> QED
    BY <1>12, <2>1, ProceedType DEF Resume, fs, kernel, TypeOK, QueueOK
<1>13. ASSUME NEW new \in host.rootSets, SetRoots(new) PROVE TypeInv'
  <2>1. RemoveTrees(roots \ new) /\ new \subseteq Dir
    BY <1>13, HostIs DEF SetRoots, TypeOK
  <2>2. walk' \in [by : {"nobody", "events", "set_roots"}, todo : SUBSET Place,
                   cur : Dir \cup {NoDir}, kids : SUBSET Dir]
    BY <1>13, <2>1, PlaceIsPath DEF SetRoots, StartWalk
  <2>3. calls' \in 0 .. host.maxCalls
    BY <1>0, <1>13 DEF SetRoots, TypeOK
  <2> QED
    BY <1>13, <2>1, <2>2, <2>3, RemoveType DEF SetRoots, fs, TypeOK, QueueOK
<1>14. CASE Aclose
  <2>1. QueueOK(queue')
    BY <1>0, <1>14 DEF Aclose, QueueOK
  <2> QED
    BY <1>0, <1>14, <2>1 DEF Aclose, fs, TypeOK, QueueOK, Absent
<1>15. CASE End
  BY <1>15 DEF End, fs, kernel, TypeOK, QueueOK
<1> QED
  BY <1>1, <1>2, <1>3, <1>4, <1>5, <1>6, <1>7, <1>8, <1>9, <1>10, <1>11, <1>12, <1>13, <1>14,
     <1>15 DEF Next, FileSystem, Walking, Reading

\* The tables of the watcher and of the kernel, the queue, the roots and the walk keep their
\* types on any host; the queue never holds more than one event beyond its limit.
THEOREM TypeCorrect == Spec => []TypeOK
<1>1. TypeInv => TypeOK
  BY DEF TypeInv
<1> QED
  BY <1>1, InitType, StepType, PTL DEF Spec

-----------------------------------------------------------------------------
(* No watch is leaked *)

\* Which descriptors and paths there are, and where a walk may be.
Tables == /\ DOMAIN kino = Wd
          /\ watches \in [Dir -> Wd \cup {NoWd}]
          /\ walk.cur \in Dir \cup {NoDir}

\* What the steps below rely on; closing leaves nothing to find.
IInv == /\ Tables /\ NoOrphanWatch
        /\ closed => \A w \in Wd : kino[w] = Absent

LEMMA InitInv == Init => IInv
BY DEF Init, IInv, Tables, NoOrphanWatch, NoWalk

-----------------------------------------------------------------------------
(* The two ways the table of watches changes *)

\* A new entry takes a free path: the watches of the others keep theirs.
LEMMA AddKeeps ==
  ASSUME IInv, NEW d \in Dir, AddWatch(d), UNCHANGED closed
  PROVE  /\ DOMAIN kino' = Wd /\ watches' \in [Dir -> Wd \cup {NoWd}]
         /\ NoOrphanWatch'
         /\ closed' => \A w \in Wd : kino'[w] = Absent
<1>1. CASE UNCHANGED <<kino, watches>>
  BY <1>1 DEF IInv, Tables, NoOrphanWatch
<1>2. CASE ~UNCHANGED <<kino, watches>>
  <2> DEFINE w == IF WatchOn(d) = NoWd THEN nwd + 1 ELSE WatchOn(d)
  <2>1. /\ watches[d] = NoWd /\ ~closed /\ w \in Wd
        /\ kino' = [kino EXCEPT ![w] = ino[d]]
        /\ watches' = [watches EXCEPT ![d] = w]
    BY <1>2 DEF AddWatch
  <2> HIDE DEF w
  <2>2. watches'[d] = w /\ \A e \in Dir : e # d => watches'[e] = watches[e]
    BY <2>1 DEF IInv, Tables
  <2>3. \A v \in Wd : v # w => kino'[v] = kino[v]
    BY <2>1 DEF IInv, Tables
  <2>4. NoOrphanWatch'
    <3> SUFFICES ASSUME NEW v \in Wd, kino'[v] # Absent
                 PROVE  \E e \in Dir : watches'[e] = v
      BY DEF NoOrphanWatch
    <3>1. CASE v = w
      BY <3>1, <2>2
    <3>2. CASE v # w
      <4>1. PICK e \in Dir : watches[e] = v
        BY <3>2, <2>3 DEF IInv, NoOrphanWatch
      <4>2. e # d
        BY <4>1, <2>1 DEF Wd, NoWd
      <4> QED
        BY <4>1, <4>2, <2>2
    <3> QED
      BY <3>1, <3>2
  <2> QED
    BY <2>1, <2>4 DEF IInv, Tables
<1> QED
  BY <1>1, <1>2

\* What is dropped from the table is dropped in the kernel, and nothing else.
LEMMA RemoveKeeps ==
  ASSUME IInv, NEW ps, RemoveTrees(ps), UNCHANGED closed
  PROVE  /\ DOMAIN kino' = Wd /\ watches' \in [Dir -> Wd \cup {NoWd}]
         /\ NoOrphanWatch'
         /\ closed' => \A w \in Wd : kino'[w] = Absent
<1> DEFINE doomed == {d \in Dir : watches[d] # NoWd /\ \E p \in ps : Under(d, p)}
           gone == {watches[d] : d \in doomed}
<1>1. /\ watches' = [d \in Dir |-> IF d \in doomed THEN NoWd ELSE watches[d]]
      /\ kino' = [w \in Wd |-> IF w \in gone THEN Absent ELSE kino[w]]
  BY DEF RemoveTrees
<1>2. NoOrphanWatch'
  <2> SUFFICES ASSUME NEW w \in Wd, kino'[w] # Absent
               PROVE  \E d \in Dir : watches'[d] = w
    BY DEF NoOrphanWatch
  <2>1. w \notin gone /\ kino[w] # Absent
    BY <1>1
  <2>2. PICK d \in Dir : watches[d] = w
    BY <2>1 DEF IInv, NoOrphanWatch
  <2>3. d \notin doomed
    BY <2>1, <2>2
  <2> QED
    BY <1>1, <2>2, <2>3
<1> QED
  BY <1>1, <1>2 DEF IInv, Tables

-----------------------------------------------------------------------------
\* Every step of the file system, the kernel and the program keeps the invariant.
LEMMA StepInv == IInv /\ [Next]_vars => IInv'
<1> SUFFICES ASSUME IInv, [Next]_vars PROVE IInv'
  OBVIOUS
<1>1. CASE UNCHANGED vars
  BY <1>1 DEF vars, kernel, IInv, Tables, NoOrphanWatch
<1>2. CASE FileSystem
  <2>1. ASSUME NEW d \in Dir, Mkdir(d) PROVE IInv'
    BY <2>1 DEF Mkdir, IInv, Tables, NoOrphanWatch
  <2>2. ASSUME NEW d \in Dir, Rmdir(d) PROVE IInv'
    BY <2>2 DEF Rmdir, IInv, Tables, NoOrphanWatch
  <2>3. ASSUME NEW a \in Dir, NEW b \in Dir, Rename(a, b) PROVE IInv'
    BY <2>3 DEF Rename, IInv, Tables, NoOrphanWatch
  <2> QED
    BY <1>2, <2>1, <2>2, <2>3 DEF FileSystem
<1>3. CASE Walking
  <2>1. ASSUME NEW d \in walk.todo, WalkList(d) PROVE IInv'
    <3>1. walk'.cur \in Dir \cup {NoDir}
      BY <2>1 DEF WalkList, Exists, IInv, Tables
    <3> QED
      BY <2>1, <3>1 DEF WalkList, kernel, IInv, Tables, NoOrphanWatch
  <2>2. CASE WalkWatch
    <3>1. walk.cur \in Dir /\ AddWatch(walk.cur) /\ UNCHANGED closed /\ walk'.cur = NoDir
      BY <2>2 DEF WalkWatch, IInv, Tables
    <3> QED
      BY <3>1, AddKeeps DEF IInv, Tables
  <2>3. CASE WalkDone
    BY <2>3 DEF WalkDone, NoWalk, kernel, IInv, Tables, NoOrphanWatch
  <2> QED
    BY <1>3, <2>1, <2>2, <2>3 DEF Walking
<1>4. ASSUME NEW left, Proceed(left), UNCHANGED <<kino, watches, closed>> PROVE IInv'
  <2>1. walk'.cur \in Dir \cup {NoDir}
    BY <1>4 DEF Proceed, StartWalk, IInv, Tables
  <2> QED
    BY <1>4, <2>1 DEF IInv, Tables, NoOrphanWatch
<1>5. CASE Reading
  <2>1. CASE ReadOverflow
    BY <2>1, <1>4 DEF ReadOverflow
  <2>2. CASE ReadSkipped
    BY <2>2 DEF ReadSkipped, IInv, Tables, NoOrphanWatch
  <2>3. CASE ReadAppeared
    BY <2>3 DEF ReadAppeared, IInv, Tables, NoOrphanWatch
  <2>4. CASE ReadVanished
    <3>1. PICK ps : RemoveTrees(ps) /\ UNCHANGED <<closed, walk>>
      BY <2>4 DEF ReadVanished
    <3> QED
      BY <3>1, RemoveKeeps DEF IInv, Tables
  <2> QED
    BY <1>5, <2>1, <2>2, <2>3, <2>4 DEF Reading
<1>6. CASE Resume
  BY <1>6, <1>4 DEF Resume, kernel
<1>7. ASSUME NEW new \in host.rootSets, SetRoots(new) PROVE IInv'
  <2>1. RemoveTrees(roots \ new) /\ UNCHANGED closed /\ walk'.cur = NoDir
    BY <1>7 DEF SetRoots, StartWalk
  <2> QED
    BY <2>1, RemoveKeeps DEF IInv, Tables
<1>8. CASE Aclose
  BY <1>8 DEF Aclose, IInv, Tables, NoOrphanWatch
<1>9. CASE End
  BY <1>9 DEF End, kernel, IInv, Tables, NoOrphanWatch
<1> QED
  BY <1>1, <1>2, <1>3, <1>5, <1>6, <1>7, <1>8, <1>9 DEF Next

-----------------------------------------------------------------------------
\* The watches the kernel holds are those of _watches, on any host: through renames, lost
\* events, walks that race them, changes of the roots and a close.
THEOREM NoneLeaked == Spec => []NoOrphanWatch
<1>1. IInv => NoOrphanWatch
  BY DEF IInv
<1> QED
  BY <1>1, InitInv, StepInv, PTL DEF Spec

-----------------------------------------------------------------------------
(* The tree of a calm host *)

Inodes == \A d \in Dir : Exists(d) =>
            /\ ino[d] <= ops
            /\ \A e \in Dir : ino[e] = ino[d] => e = d

TreeClosed == \A d, e \in Dir : Exists(d) /\ Under(d, e) => Exists(e)

\* Roots that nobody may remove are there.
FirmRoots == \A new \in host.rootSets : \A r \in new \ host.mutable : Exists(r)

TreeInv == Inodes /\ TreeClosed /\ FirmRoots

\* Where directory d under a comes to lie when a is renamed to its sibling b.
Moved(d, a, b) == b \o SubSeq(d, Len(a) + 1, Len(d))

LEMMA MovedIs ==
  ASSUME NEW d \in Path, NEW a \in Path, NEW b \in Path, Under(d, a), Len(a) = Len(b)
  PROVE  LET m == Moved(d, a, b)
         IN  /\ m \in Path /\ Len(m) = Len(d) /\ Under(m, b)
             /\ \A i \in 1 .. Len(d) : m[i] = IF i <= Len(a) THEN b[i] ELSE d[i]
<1>1. Len(a) \in Nat /\ Len(d) \in Nat /\ Len(a) <= Len(d) /\ \A i \in 1 .. Len(d) : d[i] \in Name
  BY UnderMeans, PathIsSeq
<1> DEFINE s == SubSeq(d, Len(a) + 1, Len(d))
           m == b \o s
<1> HIDE DEF Name
<1>2. /\ s \in Seq(Name) /\ Len(s) = Len(d) - Len(a)
      /\ \A i \in 1 .. Len(d) - Len(a) : s[i] = d[Len(a) + i]
  <2> DEFINE k == Len(a) + 1
             n == Len(d)
  <2>1. k \in Int /\ n \in Int /\ \A i \in k .. n : d[i] \in Name
    BY <1>1
  <2>2. /\ SubSeq(d, k, n) \in Seq(Name)
        /\ Len(SubSeq(d, k, n)) = IF k <= n THEN n - k + 1 ELSE 0
        /\ \A i \in 1 .. n - k + 1 : SubSeq(d, k, n)[i] = d[k + i - 1]
    <3> HIDE DEF k, n
    <3> QED
      BY <2>1, SubSeqProperties
  <2>3. n - k + 1 = Len(d) - Len(a) /\ \A i \in 1 .. Len(d) - Len(a) : k + i - 1 = Len(a) + i
    BY <1>1
  <2> QED
    BY <1>1, <2>2, <2>3
<1> HIDE DEF s
<1>3. /\ m \in Path /\ Len(m) = Len(b) + Len(s)
      /\ \A i \in 1 .. Len(b) + Len(s) : m[i] = IF i <= Len(b) THEN b[i] ELSE s[i - Len(b)]
  BY <1>2, ConcatProperties DEF Path
<1> HIDE DEF m
<1>4. Len(m) = Len(d)
  BY <1>1, <1>2, <1>3
<1>5. \A i \in 1 .. Len(d) : m[i] = IF i <= Len(a) THEN b[i] ELSE d[i]
  <2> SUFFICES ASSUME NEW i \in 1 .. Len(d)
               PROVE  m[i] = IF i <= Len(a) THEN b[i] ELSE d[i]
    OBVIOUS
  <2>1. i \in 1 .. Len(b) + Len(s)
    BY <1>1, <1>2
  <2>2. CASE i <= Len(a)
    BY <1>3, <2>1, <2>2
  <2>3. CASE ~(i <= Len(a))
    <3>1. i - Len(b) \in 1 .. Len(d) - Len(a) /\ Len(a) + (i - Len(b)) = i
      BY <1>1, <2>3
    <3> QED
      BY <1>1, <1>2, <1>3, <2>1, <2>3, <3>1
  <2> QED
    BY <2>2, <2>3
<1>6. Under(m, b)
  BY <1>1, <1>3, <1>4, <1>5, UnderMeans
<1>7. Moved(d, a, b) = m
  BY DEF Moved, m, s
<1> QED
  BY <1>3, <1>4, <1>5, <1>6, <1>7

LEMMA MovedBack ==
  ASSUME NEW d \in Path, NEW a \in Path, NEW b \in Path, Under(d, a), Len(a) = Len(b)
  PROVE  Moved(Moved(d, a, b), b, a) = d
<1> DEFINE m == Moved(d, a, b)
           n == Moved(m, b, a)
<1>1. /\ m \in Path /\ Len(m) = Len(d) /\ Under(m, b)
      /\ \A i \in 1 .. Len(d) : m[i] = IF i <= Len(a) THEN b[i] ELSE d[i]
  BY MovedIs
<1> HIDE DEF m
<1>2. /\ n \in Path /\ Len(n) = Len(m)
      /\ \A i \in 1 .. Len(m) : n[i] = IF i <= Len(b) THEN a[i] ELSE m[i]
  BY <1>1, MovedIs
<1> HIDE DEF n
<1>3. \A i \in 1 .. Len(d) : n[i] = d[i]
  BY <1>1, <1>2, UnderMeans, PathIsSeq
<1>4. n = d
  BY <1>1, <1>2, <1>3, SamePath
<1> QED
  BY <1>4 DEF m, n

LEMMA MovedKeepsUnder ==
  ASSUME NEW d \in Path, NEW e \in Path, NEW a \in Path, NEW b \in Path,
         Under(d, e), Under(e, a), Len(a) = Len(b)
  PROVE  Under(Moved(d, a, b), Moved(e, a, b))
<1> DEFINE m == Moved(d, a, b)
           n == Moved(e, a, b)
<1>1. Under(d, a)
  BY UnderTrans
<1>2. /\ m \in Path /\ Len(m) = Len(d)
      /\ \A i \in 1 .. Len(d) : m[i] = IF i <= Len(a) THEN b[i] ELSE d[i]
  BY <1>1, MovedIs
<1>3. /\ n \in Path /\ Len(n) = Len(e)
      /\ \A i \in 1 .. Len(e) : n[i] = IF i <= Len(a) THEN b[i] ELSE e[i]
  BY MovedIs
<1> HIDE DEF m, n
<1>4. \A i \in 1 .. Len(n) : m[i] = n[i]
  BY <1>2, <1>3, UnderMeans, PathIsSeq
<1>5. Under(m, n)
  BY <1>2, <1>3, <1>4, UnderMeans
<1> QED
  BY <1>5 DEF m, n

\* Siblings: they differ in their last name only, and neither is under the other.
LEMMA SiblingsDiffer ==
  ASSUME NEW a \in Path, NEW b \in Path, a # <<>>, b # <<>>, Front(a) = Front(b), a # b
  PROVE  /\ Len(a) = Len(b) /\ Last(a) # Last(b)
         /\ \A i \in 1 .. Len(a) - 1 : a[i] = b[i]
         /\ \A d \in Path : ~(Under(d, a) /\ Under(d, b))
<1>1. Len(a) = Len(b) /\ \A i \in 1 .. Len(a) - 1 : a[i] = b[i]
  BY FrontIs, PathIsSeq
<1>2. Last(a) # Last(b)
  BY FrontIs
<1>3. ASSUME NEW d \in Path, Under(d, a), Under(d, b) PROVE FALSE
  <2>1. Len(a) \in 1 .. Len(a)
    BY PathIsSeq
  <2>2. d[Len(a)] = a[Len(a)] /\ d[Len(a)] = b[Len(a)]
    BY <1>1, <1>3, <2>1, UnderMeans
  <2> QED
    BY <1>1, <1>2, <2>2 DEF Last
<1> QED
  BY <1>1, <1>2, <1>3

\* What a rename between siblings does to the tree.
LEMMA RenameIs ==
  ASSUME TypeInv, TreeClosed, Calm, NEW a \in Dir, NEW b \in Dir, Rename(a, b)
  PROVE  /\ Front(a) = Front(b) /\ a # b /\ Len(a) = Len(b)
         /\ \A R \in host.rootSets : \A r \in R : ~Under(r, a)
         /\ <<a, b>> \in host.renames
         /\ \A d \in Dir : ~Under(d, a) /\ ~Under(d, b) => ino'[d] = ino[d]
         /\ \A d \in Dir : Under(d, a) => ino'[d] = Absent
         /\ \A d \in Dir : Exists(d) /\ Under(d, a) =>
              Moved(d, a, b) \in Dir /\ ino'[Moved(d, a, b)] = ino[d]
         /\ \A d \in Dir : ino'[d] # Absent /\ Under(d, b) =>
              Moved(d, b, a) \in Dir /\ ino[Moved(d, b, a)] = ino'[d]
         /\ \A d \in Dir : Under(d, b) => ~Exists(d)
<1>1. /\ <<a, b>> \in host.renames /\ Exists(a) /\ ~Exists(b)
      /\ \A d \in {c \in Dir : Under(c, a)} : Exists(d) => Moved(d, a, b) \in Dir
      /\ ino' = [d \in Dir |-> IF d \in {c \in Dir : Under(c, a)} THEN Absent
                               ELSE IF Under(d, b) /\ Moved(d, b, a) \in Dir
                                    THEN ino[Moved(d, b, a)]
                               ELSE ino[d]]
  BY DEF Rename, Moved
<1>2. Front(a) = Front(b) /\ a # b /\ \A R \in host.rootSets : \A r \in R : ~Under(r, a)
  BY <1>1 DEF Calm, Parent
<1>3. a \in Path /\ b \in Path /\ a # <<>> /\ b # <<>> /\ Dir \subseteq Path
  BY DirIsPath
<1>4. Len(a) = Len(b) /\ \A d \in Path : ~(Under(d, a) /\ Under(d, b))
  BY <1>2, <1>3, SiblingsDiffer
<1>5. \A d \in Dir : Under(d, b) => ~Exists(d)
  BY <1>1 DEF TreeClosed
<1>6. ASSUME NEW d \in Dir, Exists(d), Under(d, a)
      PROVE  Moved(d, a, b) \in Dir /\ ino'[Moved(d, a, b)] = ino[d]
  <2>1. Moved(d, a, b) \in Dir /\ Under(Moved(d, a, b), b) /\ Moved(Moved(d, a, b), b, a) = d
    BY <1>1, <1>3, <1>4, <1>6, MovedIs, MovedBack
  <2> QED
    BY <1>1, <1>3, <1>4, <2>1
<1>7. ASSUME NEW d \in Dir, ino'[d] # Absent, Under(d, b)
      PROVE  Moved(d, b, a) \in Dir /\ ino[Moved(d, b, a)] = ino'[d]
  BY <1>1, <1>3, <1>4, <1>5, <1>7 DEF Exists
<1> QED
  BY <1>1, <1>2, <1>3, <1>4, <1>5, <1>6, <1>7

\* Where a directory is after a rename, it had its inode before.
LEMMA RenameFrom ==
  ASSUME TypeInv, TreeClosed, Calm, NEW a \in Dir, NEW b \in Dir, Rename(a, b),
         NEW d \in Dir, Exists(d)'
  PROVE  \/ ~Under(d, a) /\ ~Under(d, b) /\ ino'[d] = ino[d] /\ Exists(d)
         \/ /\ Under(d, b) /\ ~Under(d, a)
            /\ Moved(d, b, a) \in Dir /\ ino[Moved(d, b, a)] = ino'[d]
            /\ Exists(Moved(d, b, a)) /\ Under(Moved(d, b, a), a)
            /\ d = Moved(Moved(d, b, a), a, b)
<1>1. ino'[d] # Absent
  BY DEF Exists
<1>2. a \in Path /\ b \in Path /\ d \in Path /\ Len(a) = Len(b) /\ ~Under(d, a)
  BY <1>1, RenameIs, DirIsPath
<1>3. CASE ~Under(d, b)
  BY <1>1, <1>2, <1>3, RenameIs DEF Exists
<1>4. CASE Under(d, b)
  <2>1. Moved(d, b, a) \in Dir /\ ino[Moved(d, b, a)] = ino'[d]
    BY <1>1, <1>4, RenameIs
  <2>2. Under(Moved(d, b, a), a) /\ d = Moved(Moved(d, b, a), a, b)
    BY <1>2, <1>4, MovedIs, MovedBack
  <2> QED
    BY <1>1, <1>2, <1>4, <2>1, <2>2 DEF Exists
<1> QED
  BY <1>3, <1>4

LEMMA InitTree == Init => TreeInv
<1> SUFFICES ASSUME Init PROVE TreeInv
  OBVIOUS
<1>0. PICK f \in [InitDirs -> 1 .. Cardinality(InitDirs)] :
          /\ IsInjective(f)
          /\ ino = [d \in Dir |-> IF d \in InitDirs THEN f[d] ELSE Absent]
  BY DEF Init
<1>1. Cardinality(InitDirs) \in Nat /\ ops = Cardinality(InitDirs)
  BY DirAssumption, FS_Subset, FS_CardinalityType DEF Init
<1>2. \A d \in Dir : Exists(d) <=> d \in InitDirs
  BY <1>0, <1>1 DEF Exists, Absent
<1>3. Inodes
  <2> SUFFICES ASSUME NEW d \in Dir, Exists(d)
               PROVE  ino[d] <= ops /\ \A e \in Dir : ino[e] = ino[d] => e = d
    BY DEF Inodes
  <2>1. d \in InitDirs /\ ino[d] = f[d] /\ f[d] # Absent
    BY <1>0, <1>1, <1>2 DEF Absent
  <2>2. ASSUME NEW e \in Dir, ino[e] = ino[d] PROVE e = d
    <3>1. e \in InitDirs /\ ino[e] = f[e]
      BY <1>0, <2>1, <2>2
    <3> QED
      BY <1>0, <2>1, <2>2, <3>1 DEF IsInjective
  <2> QED
    BY <1>0, <1>1, <2>1, <2>2
<1>4. TreeClosed
  <2> SUFFICES ASSUME NEW d \in Dir, NEW e \in Dir, Exists(d), Under(d, e) PROVE Exists(e)
    BY DEF TreeClosed
  <2>1. d \in InitDirs /\ d \in Path /\ e \in Path /\ e # <<>>
    BY <1>2, DirIsPath
  <2>2. Len(e) \in 1 .. Len(d)
    BY <2>1, UnderMeans, PathIsSeq
  <2>3. e = SubSeq(d, 1, Len(e))
    <3>1. e = SubSeq(e, 1, Len(e))
      BY <2>1, SubSeqFull DEF Path
    <3> QED
      BY <3>1 DEF Under, IsPrefix
  <2>4. SubSeq(d, 1, Len(e)) \in InitDirs
    BY <2>1, <2>2, DirAssumption DEF HasPrefixes
  <2> QED
    BY <1>2, <2>3, <2>4
<1>5. FirmRoots
  BY <1>2, HostIs, DirAssumption DEF Init, FirmRoots
<1> QED
  BY <1>3, <1>4, <1>5 DEF TreeInv

LEMMA HostStays == [Next]_vars => UNCHANGED host
BY DEF Next, FileSystem, Walking, Reading, Mkdir, Rmdir, Rename, WalkList, WalkWatch, WalkDone,
       ReadOverflow, ReadSkipped, ReadAppeared, ReadVanished, Resume, SetRoots, Aclose, End,
       vars, fs

\* Only other processes change the tree.
LEMMA TreeStays ==
  ASSUME [Next]_vars, ~FileSystem
  PROVE  UNCHANGED fs
BY DEF Next, Walking, Reading, WalkList, WalkWatch, WalkDone, ReadOverflow, ReadSkipped,
       ReadAppeared, ReadVanished, Resume, SetRoots, Aclose, End, vars

LEMMA MkdirTree ==
  ASSUME TypeInv, TreeInv, NEW d \in Dir, Mkdir(d)
  PROVE  /\ TreeInv' /\ ~Exists(d) /\ d \in host.mutable /\ ops' = ops + 1 /\ ops \in Nat
         /\ ino'[d] = ops + 1
         /\ \A e \in Dir : e # d => ino'[e] = ino[e] /\ (Exists(e)' <=> Exists(e))
         /\ Exists(d)'
<1>0. /\ ops \in Nat /\ ino \in [Dir -> Nat] /\ UNCHANGED host /\ ~Exists(d)
      /\ d \in host.mutable /\ ops' = ops + 1 /\ ino' = [ino EXCEPT ![d] = ops + 1]
      /\ Parent(d) \in Dir => Exists(Parent(d))
  BY HostIs DEF TypeInv, TypeOK, Mkdir
<1>1. /\ \A e \in Dir : e # d => ino'[e] = ino[e] /\ (Exists(e)' <=> Exists(e))
      /\ Exists(d)' /\ ino'[d] = ops + 1
  BY <1>0 DEF Exists, Absent
<1>2. Inodes'
  <2> SUFFICES ASSUME NEW e \in Dir, Exists(e)'
               PROVE  ino'[e] <= ops + 1 /\ \A f \in Dir : ino'[f] = ino'[e] => f = e
    BY <1>0 DEF Inodes
  <2>1. \A f \in Dir : ino[f] # ops + 1
    BY <1>0 DEF TreeInv, Inodes, Exists, Absent
  <2> QED
    BY <1>0, <1>1, <2>1 DEF TreeInv, Inodes
<1>3. TreeClosed'
  <2> SUFFICES ASSUME NEW e \in Dir, NEW f \in Dir, Exists(e)', Under(e, f) PROVE Exists(f)'
    BY DEF TreeClosed
  <2>1. CASE e # d
    BY <1>1, <2>1 DEF TreeInv, TreeClosed
  <2>2. CASE e = d /\ f # d
    <3>1. d \in Path /\ f \in Path /\ f # <<>> /\ d # <<>>
      BY DirIsPath
    <3>2. Under(Front(d), f) /\ Front(d) \in Path /\ Under(d, Front(d))
      BY <2>2, <3>1, FrontUnder, FrontIs
    <3>3. Front(d) # <<>>
      BY <3>1, <3>2, UnderMeans, PathIsSeq
    <3>4. Front(d) \in Dir
      BY <3>2, <3>3, DirPrefix
    <3> QED
      BY <1>0, <1>1, <2>2, <3>2, <3>4 DEF TreeInv, TreeClosed, Parent
  <2> QED
    BY <1>1, <2>1, <2>2
<1>4. FirmRoots'
  BY <1>0, <1>1, HostIs DEF TreeInv, FirmRoots, Exists, TypeInv, TypeOK
<1> QED
  BY <1>0, <1>1, <1>2, <1>3, <1>4 DEF TreeInv

LEMMA RmdirTree ==
  ASSUME TypeInv, TreeInv, NEW d \in Dir, Rmdir(d)
  PROVE  /\ TreeInv' /\ Exists(d) /\ d \in host.mutable /\ ops' = ops + 1 /\ ops \in Nat
         /\ \A e \in Dir : e # d => ino'[e] = ino[e] /\ (Exists(e)' <=> Exists(e))
         /\ ~Exists(d)'
         /\ \A e \in Dir : Under(e, d) /\ Exists(e) => e = d
<1>0. /\ ops \in Nat /\ ino \in [Dir -> Nat] /\ UNCHANGED host /\ Exists(d)
      /\ d \in host.mutable /\ ops' = ops + 1 /\ ino' = [ino EXCEPT ![d] = Absent]
      /\ Children(d) = {}
  BY HostIs DEF TypeInv, TypeOK, Rmdir
<1>1. /\ \A e \in Dir : e # d => ino'[e] = ino[e] /\ (Exists(e)' <=> Exists(e))
      /\ ~Exists(d)'
  BY <1>0 DEF Exists, Absent
<1>2. Inodes'
  BY <1>0, <1>1 DEF TreeInv, Inodes, Exists
<1>3. ASSUME NEW e \in Dir, Under(e, d), Exists(e) PROVE e = d
  <2> SUFFICES ASSUME e # d PROVE FALSE
    OBVIOUS
  <2>1. e \in Path /\ d \in Path /\ d # <<>>
    BY DirIsPath
  <2>2. Len(d) \in Nat /\ Len(e) \in Nat /\ Len(d) < Len(e)
    BY <1>3, <2>1, UnderMeans, SamePath, PathIsSeq
  <2> DEFINE n == Len(d) + 1
             c == SubSeq(e, 1, n)
  <2>3. n \in 1 .. Len(e)
    BY <2>2
  <2>4. c \in Dir
    BY <2>3, DirAssumption DEF HasPrefixes
  <2>5. /\ c \in Path /\ Len(c) = n /\ \A i \in 1 .. n : c[i] = e[i]
    <3>1. \A i \in 1 .. n : e[i] \in Name
      BY <2>1, <2>3, PathIsSeq
    <3> HIDE DEF n, Name
    <3> QED
      BY <2>3, <3>1, SubSeqProperties DEF Path
  <2> HIDE DEF c
  <2>6. Under(e, c) /\ Under(c, d)
    BY <1>3, <2>1, <2>2, <2>5, UnderMeans
  <2>7. Exists(c)
    BY <1>3, <2>4, <2>6 DEF TreeInv, TreeClosed
  <2>8. c \in Children(d)
    BY <2>4, <2>5, <2>6, <2>7 DEF Children
  <2> QED
    BY <1>0, <2>8
<1>4. TreeClosed'
  <2> SUFFICES ASSUME NEW e \in Dir, NEW f \in Dir, Exists(e)', Under(e, f) PROVE Exists(f)'
    BY DEF TreeClosed
  <2>1. e # d /\ Exists(e)
    BY <1>1
  <2>2. f # d
    BY <1>3, <2>1
  <2> QED
    BY <1>1, <2>1, <2>2 DEF TreeInv, TreeClosed
<1>5. FirmRoots'
  BY <1>0, <1>1, HostIs DEF TreeInv, FirmRoots, TypeInv, TypeOK
<1> QED
  BY <1>0, <1>1, <1>2, <1>3, <1>4, <1>5 DEF TreeInv

LEMMA RenameTree ==
  ASSUME TypeInv, TreeInv, Calm, NEW a \in Dir, NEW b \in Dir, Rename(a, b)
  PROVE  TreeInv' /\ ops' = ops + 1 /\ ops \in Nat
<1>0. ops' = ops + 1 /\ ops \in Nat /\ UNCHANGED host /\ ino \in [Dir -> Nat] /\ TreeClosed
  BY HostIs DEF Rename, TypeInv, TypeOK, TreeInv
<1>1. Inodes'
  <2> SUFFICES ASSUME NEW d \in Dir, Exists(d)'
               PROVE  ino'[d] <= ops + 1 /\ \A e \in Dir : ino'[e] = ino'[d] => e = d
    BY <1>0 DEF Inodes
  <2>1. ino'[d] <= ops + 1
    <3>1. PICK c \in Dir : ino[c] = ino'[d] /\ Exists(c)
      BY <1>0, RenameFrom
    <3> QED
      BY <1>0, <3>1 DEF TreeInv, Inodes
  <2>2. ASSUME NEW e \in Dir, ino'[e] = ino'[d] PROVE e = d
    <3>1. Exists(e)'
      BY <2>2 DEF Exists
    <3>2. \/ ~Under(d, a) /\ ~Under(d, b) /\ ino'[d] = ino[d] /\ Exists(d)
          \/ /\ Moved(d, b, a) \in Dir /\ ino[Moved(d, b, a)] = ino'[d] /\ Exists(Moved(d, b, a))
             /\ Under(Moved(d, b, a), a) /\ d = Moved(Moved(d, b, a), a, b)
      BY <1>0, RenameFrom
    <3>3. \/ ~Under(e, a) /\ ~Under(e, b) /\ ino'[e] = ino[e] /\ Exists(e)
          \/ /\ Moved(e, b, a) \in Dir /\ ino[Moved(e, b, a)] = ino'[e] /\ Exists(Moved(e, b, a))
             /\ Under(Moved(e, b, a), a) /\ e = Moved(Moved(e, b, a), a, b)
      BY <1>0, <3>1, RenameFrom
    <3> QED
      BY <2>2, <3>2, <3>3 DEF TreeInv, Inodes
  <2> QED
    BY <2>1, <2>2
<1>2. TreeClosed'
  <2> SUFFICES ASSUME NEW d \in Dir, NEW e \in Dir, Exists(d)', Under(d, e) PROVE Exists(e)'
    BY DEF TreeClosed
  <2>0. /\ d \in Path /\ e \in Path /\ a \in Path /\ b \in Path /\ Len(a) = Len(b)
        /\ a # <<>> /\ b # <<>> /\ e # <<>> /\ a # b /\ Front(a) = Front(b)
    BY <1>0, DirIsPath, RenameIs
  <2>1. CASE ~Under(d, a) /\ ~Under(d, b) /\ ino'[d] = ino[d] /\ Exists(d)
    <3>1. ~Under(e, a) /\ ~Under(e, b) /\ Exists(e)
      BY <2>0, <2>1, <1>0, UnderTrans DEF TreeClosed
    <3> QED
      BY <1>0, <3>1, RenameIs DEF Exists
  <2>2. CASE /\ Under(d, b) /\ ~Under(d, a)
             /\ Moved(d, b, a) \in Dir /\ ino[Moved(d, b, a)] = ino'[d]
             /\ Exists(Moved(d, b, a)) /\ Under(Moved(d, b, a), a)
             /\ d = Moved(Moved(d, b, a), a, b)
    <3>1. CASE Under(e, b)
      <4> DEFINE f == Moved(e, b, a)
      <4>1. Under(Moved(d, b, a), f)
        BY <2>0, <3>1, MovedKeepsUnder
      <4>2. f \in Path /\ Len(f) = Len(e) /\ Under(f, a) /\ Moved(f, a, b) = e
        BY <2>0, <3>1, MovedIs, MovedBack
      <4>3. f # <<>>
        BY <2>0, <4>2, PathIsSeq
      <4> HIDE DEF f
      <4>4. f \in Dir /\ Exists(f)
        BY <1>0, <2>2, <4>1, <4>2, <4>3, DirPrefix DEF TreeClosed
      <4>5. ino'[e] = ino[f] /\ ino[f] # Absent
        <5>1. \A c \in Dir : Exists(c) /\ Under(c, a) =>
                  Moved(c, a, b) \in Dir /\ ino'[Moved(c, a, b)] = ino[c]
          BY <1>0, RenameIs
        <5> QED
          BY <4>2, <4>4, <5>1 DEF Exists
      <4> QED
        BY <4>5 DEF Exists
    <3>2. CASE ~Under(e, b)
      <4>1. Under(b, e)
        BY <2>0, <2>2, <3>2, UnderChain
      <4>2. b # e
        BY <2>0, <3>2, UnderSelf
      <4>3. Under(Front(b), e)
        BY <2>0, <4>1, <4>2, FrontUnder
      <4>4. Under(a, e)
        BY <2>0, <4>3, FrontIs, UnderTrans
      <4>5. Exists(a)
        BY DEF Rename
      <4>6. Exists(e)
        BY <1>0, <4>4, <4>5 DEF TreeClosed
      <4>7. ~Under(e, a)
        <5> SUFFICES ASSUME Under(e, a) PROVE FALSE
          OBVIOUS
        <5>1. e = a
          BY <2>0, <4>4, UnderBoth
        <5>2. Under(Front(a), a)
          BY <2>0, <4>3, <5>1
        <5>3. Front(a) = a
          BY <2>0, <5>2, FrontIs, UnderBoth
        <5> QED
          BY <2>0, <5>3, FrontIs
      <4> QED
        BY <1>0, <3>2, <4>6, <4>7, RenameIs DEF Exists
    <3> QED
      BY <3>1, <3>2
  <2> QED
    BY <1>0, <2>1, <2>2, RenameFrom
<1>3. FirmRoots'
  <2> SUFFICES ASSUME NEW new \in host.rootSets, NEW r \in new \ host.mutable PROVE Exists(r)'
    BY <1>0 DEF FirmRoots
  <2>1. r \in Dir /\ Exists(r) /\ ~Under(r, a)
    BY <1>0, HostIs, RenameIs DEF TreeInv, FirmRoots, TypeInv, TypeOK
  <2>2. ~Under(r, b)
    BY <1>0, <2>1, RenameIs
  <2> QED
    BY <1>0, <2>1, <2>2, RenameIs DEF Exists
<1> QED
  BY <1>0, <1>1, <1>2, <1>3 DEF TreeInv

LEMMA StepTree == TypeInv /\ Calm /\ TreeInv /\ [Next]_vars => TreeInv'
<1> SUFFICES ASSUME TypeInv, Calm, TreeInv, [Next]_vars PROVE TreeInv'
  OBVIOUS
<1>1. CASE FileSystem
  BY <1>1, MkdirTree, RmdirTree, RenameTree DEF FileSystem
<1>2. CASE ~FileSystem
  BY <1>2, TreeStays DEF fs, TreeInv, Inodes, TreeClosed, FirmRoots, Exists
<1> QED
  BY <1>1, <1>2

-----------------------------------------------------------------------------
(* The tables of a calm host *)

UnderRoot(d) == \E r \in roots : Under(d, r)
Below(d) == \E r \in roots : Under(d, r) /\ r # d

\* A directory has at most one watch.
OneWatch == \A v, w \in Wd : kino[v] # Absent /\ kino[v] = kino[w] => v = w

\* A descriptor that events resolve by is the entry of the path they resolve to.
Attributed == \A w \in Wd : kpath[w] # NoDir => watches[kpath[w]] = w

\* Descriptors beyond nwd and inodes beyond ops are fresh.
HandedOut == /\ \A w \in Wd : w > nwd => kino[w] = Absent /\ kpath[w] = NoDir
             /\ \A w \in Wd : kino[w] <= ops
             /\ \A d \in Dir : watches[d] <= nwd

EntriesWanted == \A d \in Dir : watches[d] # NoWd => ~IsIgnored(d) /\ UnderRoot(d)

\* No event was dropped, and none is about a descriptor yet to come.
GoodQueue(q, n) == /\ q \in Seq(Event) /\ Len(q) <= n
                   /\ \A i \in 1 .. Len(q) : q[i] # Overflow /\ q[i].wd <= nwd
                   /\ calls = 0 => q = <<>>

QueueInv == GoodQueue(queue, 2 * ops)

\* set_roots() is called once, and finds nothing done before.
FirstCall == /\ calls = 0 => /\ roots = {} /\ rest = {} /\ gen = "get" /\ ~Busy
                             /\ \A d \in Dir : watches[d] = NoWd
             /\ roots = {} \/ roots \in host.rootSets

\* What a walk still has to visit.
Ahead == walk.todo \cup walk.kids \cup ({walk.cur} \ {NoDir})

WalkShape ==
  /\ ~Busy => walk = NoWalk
  /\ walk.by = "events" <=> gen = "walk"
  /\ rest # {} => gen = "yield" /\ ~Busy
  /\ \A x, y \in rest : x = y
  /\ \A x \in rest : ~IsIgnored(x) /\ Below(x)
  /\ \A x \in Ahead : ~IsIgnored(x) /\ UnderRoot(x) /\ x # <<>>
  /\ walk.by = "events" => \A x \in Ahead : Below(x)
  /\ walk.by = "set_roots" => queue = <<>> /\ rest = {} /\ gen = "get" /\ calls = 1
  /\ walk.cur = NoDir => walk.kids = {}
  /\ walk.cur # NoDir =>
       Exists(walk.cur) /\ walk.kids = {c \in Children(walk.cur) : Last(c) \notin host.ignored}

TameNames == \A move \in host.renames : Last(move[2]) \notin host.ignored

\* A watch is on a directory of the tree, at or under a root.
Placed == \A w \in Wd : kino[w] # Absent =>
            \E d \in Dir : ino[d] = kino[w] /\ UnderRoot(d) /\ (TameNames => ~IsIgnored(d))

TableInv == /\ OneWatch /\ Attributed /\ HandedOut /\ EntriesWanted
            /\ QueueInv /\ FirstCall /\ WalkShape /\ Placed

BaseInv == TypeInv /\ IInv /\ TreeInv
CalmInv == BaseInv /\ TableInv /\ Calm /\ ~closed

LEMMA CalmIs ==
  ASSUME Calm
  PROVE  /\ host.racy = {} /\ host.maxCalls = 1 /\ host.queue > 2 * host.maxOps
         /\ host.watches >= Cardinality(Dir)
BY DEF Calm

LEMMA IgnoredBelow ==
  ASSUME NEW d \in Path, NEW e \in Path, Under(d, e), IsIgnored(e)
  PROVE  IsIgnored(d)
BY UnderMeans, PathIsSeq DEF IsIgnored

LEMMA IgnoredLast ==
  ASSUME NEW d \in Path, d # <<>>
  PROVE  IsIgnored(d) <=> IsIgnored(Front(d)) \/ Last(d) \in host.ignored
<1>1. /\ Len(d) \in Nat \ {0} /\ DOMAIN d = 1 .. Len(d) /\ Front(d) \in Path
      /\ Len(Front(d)) = Len(d) - 1 /\ DOMAIN Front(d) = 1 .. Len(d) - 1
      /\ \A i \in 1 .. Len(d) - 1 : Front(d)[i] = d[i]
  BY PathIsSeq, FrontIs
<1>2. ASSUME IsIgnored(d) PROVE IsIgnored(Front(d)) \/ Last(d) \in host.ignored
  <2>1. PICK i \in 1 .. Len(d) : d[i] \in host.ignored
    BY <1>1, <1>2 DEF IsIgnored
  <2>2. CASE i = Len(d)
    BY <2>1, <2>2 DEF Last
  <2>3. CASE i # Len(d)
    <3>1. i \in 1 .. Len(d) - 1
      <4>1. i \in Nat /\ 1 <= i /\ i <= Len(d) /\ Len(d) \in Nat
        BY <1>1
      <4> QED
        BY <2>3, <4>1
    <3> QED
      BY <1>1, <2>1, <3>1 DEF IsIgnored
  <2> QED
    BY <2>2, <2>3
<1>3. ASSUME IsIgnored(Front(d)) PROVE IsIgnored(d)
  BY <1>1, <1>3, FrontIs, IgnoredBelow
<1>4. ASSUME Last(d) \in host.ignored PROVE IsIgnored(d)
  BY <1>1, <1>4 DEF IsIgnored, Last
<1> QED
  BY <1>2, <1>3, <1>4

LEMMA ChildrenAre ==
  ASSUME TypeInv, NEW d \in Dir, NEW c \in Children(d)
  PROVE  /\ c \in Dir /\ c \in Path /\ c # <<>> /\ Front(c) = d /\ Under(c, d) /\ c # d /\ Exists(c)
<1>1. c \in Dir /\ c \in Path /\ d \in Path /\ c # <<>> /\ Len(c) = Len(d) + 1 /\ Under(c, d)
      /\ Exists(c)
  BY DirIsPath DEF Children
<1>2. c # d /\ Len(d) \in Nat
  BY <1>1, PathIsSeq
<1>3. Under(Front(c), d) /\ Len(Front(c)) = Len(d) /\ Front(c) \in Path
  BY <1>1, <1>2, FrontUnder, FrontIs
<1>4. Front(c) = d
  BY <1>1, <1>3, UnderMeans, SamePath
<1> QED
  BY <1>1, <1>2, <1>4

LEMMA TypeFacts ==
  ASSUME TypeInv
  PROVE  /\ ino \in [Dir -> Nat] /\ ops \in Nat /\ ops <= host.maxOps /\ host.maxOps \in Nat
         /\ host.queue \in Nat /\ kino \in [Wd -> Nat] /\ kpath \in [Wd -> Path]
         /\ kpath \in [Wd -> Dir \cup {NoDir}]
         /\ nwd \in Nat /\ watches \in [Dir -> Nat] /\ watches \in [Dir -> Wd \cup {NoWd}]
         /\ roots \subseteq Dir /\ rest \subseteq Path /\ walk.todo \subseteq Path
         /\ walk.kids \subseteq Dir /\ walk.cur \in Dir \cup {NoDir} /\ calls \in Nat
         /\ Ahead \subseteq Path
<1> USE HostIs, DirIsPath, PlaceIsPath, NoWdIsNone, WdAssumption DEF TypeInv, TypeOK
<1>1. /\ ino \in [Dir -> Nat] /\ ops \in Nat /\ ops <= host.maxOps /\ host.maxOps \in Nat
      /\ host.queue \in Nat /\ kino \in [Wd -> Nat] /\ nwd \in Nat /\ calls \in Nat
  OBVIOUS
<1>2. kpath \in [Wd -> Path]
  OBVIOUS
<1>3. watches \in [Dir -> Nat]
  <2>1. watches \in [Dir -> Wd \cup {NoWd}] /\ Wd \cup {NoWd} \subseteq Nat
    OBVIOUS
  <2>2. \A S, T : S \subseteq T => [Dir -> S] \subseteq [Dir -> T]
    OBVIOUS
  <2> QED
    BY <2>1, <2>2
<1>4. Ahead \subseteq Path
  BY DEF Ahead
<1> QED
  BY <1>1, <1>2, <1>3, <1>4

\* The kernel's watches are entries, handed out before.
LEMMA WatchOnKnown ==
  ASSUME CalmInv, NEW d, WatchOn(d) # NoWd
  PROVE  /\ WatchOn(d) \in Wd /\ WatchOn(d) <= nwd /\ kino[WatchOn(d)] = ino[d] /\ Exists(d)
         /\ kino[WatchOn(d)] # Absent /\ calls # 0 /\ UnderRoot(d)
<1>1. WatchOn(d) \in Wd /\ kino[WatchOn(d)] = ino[d] /\ Exists(d)
  BY WatchOnIs
<1>2. kino[WatchOn(d)] # Absent
  BY <1>1 DEF Exists
<1>3. WatchOn(d) <= nwd
  <2>1. WatchOn(d) \in Nat /\ nwd \in Nat
    BY <1>1, NoWdIsNone, TypeFacts DEF CalmInv, BaseInv
  <2> QED
    BY <1>1, <1>2, <2>1 DEF CalmInv, TableInv, HandedOut
<1>4. PICK e \in Dir : watches[e] = WatchOn(d)
  BY <1>1, <1>2 DEF CalmInv, BaseInv, IInv, NoOrphanWatch
<1>5. calls # 0
  BY <1>1, <1>4, NoWdIsNone DEF CalmInv, TableInv, FirstCall
<1>6. UnderRoot(d)
  <2>1. PICK x \in Dir : ino[x] = kino[WatchOn(d)] /\ UnderRoot(x)
    BY <1>1, <1>2 DEF CalmInv, TableInv, Placed
  <2>2. x = d
    BY <1>1, <2>1 DEF CalmInv, BaseInv, TreeInv, Inodes, Exists
  <2> QED
    BY <2>1, <2>2
<1> QED
  BY <1>1, <1>2, <1>3, <1>5, <1>6

\* On a calm host the queue takes every event.
LEMMA PushIs ==
  ASSUME CalmInv, NEW n \in Nat, n < host.queue, NEW q, GoodQueue(q, n),
         NEW d \in Dir, NEW kind \in {"in", "out"}
  PROVE  LET e == [wd |-> WatchOn(Parent(d)), name |-> Last(d), kind |-> kind]
         IN  /\ Push(q, d, kind) = IF WatchOn(Parent(d)) = NoWd THEN q ELSE Append(q, e)
             /\ GoodQueue(Push(q, d, kind), n + 1)
             /\ WatchOn(Parent(d)) # NoWd => e \in Event /\ e # Overflow
<1> DEFINE e == [wd |-> WatchOn(Parent(d)), name |-> Last(d), kind |-> kind]
<1>1. Len(q) \in Nat /\ Len(q) <= n /\ q \in Seq(Event) /\ host.queue \in Nat
  BY HostIs DEF GoodQueue, CalmInv, BaseInv, TypeInv, TypeOK
<1>2. Push(q, d, kind) = IF WatchOn(Parent(d)) = NoWd THEN q ELSE Append(q, e)
  BY <1>1 DEF Push
<1>3. ASSUME WatchOn(Parent(d)) # NoWd
      PROVE  e \in Event /\ e # Overflow /\ GoodQueue(Append(q, e), n + 1)
  <2>1. WatchOn(Parent(d)) \in Wd /\ WatchOn(Parent(d)) <= nwd /\ calls # 0
    BY <1>3, WatchOnKnown
  <2>2. Last(d) \in Name
    BY DirIsPath, FrontIs
  <2>3. e \in Event /\ e.wd = WatchOn(Parent(d))
    BY <2>1, <2>2 DEF Event
  <2>4. e # Overflow
    BY <2>1, <2>3, NoWdIsNone DEF Overflow
  <2> HIDE DEF e
  <2>5. /\ Append(q, e) \in Seq(Event) /\ Len(Append(q, e)) = Len(q) + 1
        /\ \A i \in 1 .. Len(q) : Append(q, e)[i] = q[i]
        /\ Append(q, e)[Len(q) + 1] = e
    BY <1>1, <2>3, AppendProperties
  <2>6. ASSUME NEW i \in 1 .. Len(Append(q, e))
        PROVE  Append(q, e)[i] # Overflow /\ Append(q, e)[i].wd <= nwd
    <3>1. CASE i = Len(q) + 1
      BY <2>1, <2>3, <2>4, <2>5, <3>1
    <3>2. CASE i # Len(q) + 1
      <4>1. i \in 1 .. Len(q)
        BY <1>1, <2>5, <3>2
      <4> QED
        BY <2>5, <4>1 DEF GoodQueue
    <3> QED
      BY <3>1, <3>2
  <2> QED
    BY <1>1, <2>1, <2>3, <2>4, <2>5, <2>6 DEF GoodQueue
<1>4. GoodQueue(q, n + 1)
  BY <1>1 DEF GoodQueue
<1> QED
  BY <1>2, <1>3, <1>4

-----------------------------------------------------------------------------
(* What the steps do on a calm host *)

\* Other processes change the tree while nobody walks.
LEMMA ChangeIs ==
  ASSUME CalmInv, MayChange
  PROVE  /\ ~Busy /\ walk = NoWalk /\ ops \in Nat /\ ops < host.maxOps
         /\ \E n \in Nat : /\ n = 2 * ops /\ n + 1 < host.queue /\ n < host.queue
                          /\ GoodQueue(queue, n)
<1>1. ~Busy /\ ops < host.maxOps
  BY CalmIs DEF MayChange, CalmInv
<1>2. ops \in Nat /\ host.maxOps \in Nat /\ host.queue \in Nat
  BY TypeFacts DEF CalmInv, BaseInv
<1>3. 2 * ops + 2 <= 2 * host.maxOps /\ 2 * ops \in Nat
  BY <1>1, <1>2
<1>4. 2 * ops + 1 < host.queue /\ 2 * ops < host.queue
  BY <1>2, <1>3, CalmIs DEF CalmInv
<1> QED
  BY <1>1, <1>2, <1>3, <1>4 DEF CalmInv, TableInv, WalkShape, QueueInv

LEMMA MkdirTables ==
  ASSUME CalmInv, TreeInv', NEW d \in Dir, Mkdir(d)
  PROVE  TableInv'
<1>1. ~Busy /\ walk = NoWalk /\ ops \in Nat
  BY ChangeIs DEF Mkdir
<1>0. PICK n \in Nat : n = 2 * ops /\ n < host.queue /\ GoodQueue(queue, n)
  BY ChangeIs DEF Mkdir
<1>2. GoodQueue(queue', n + 1)
  BY <1>0, PushIs DEF Mkdir
<1>3. /\ UNCHANGED <<host, kino, nwd, kpath, watches, roots, calls, gen, rest, walk, closed>>
      /\ ops' = ops + 1 /\ \A e \in Dir : e # d => ino'[e] = ino[e]
      /\ ino[d] = Absent
  BY MkdirTree DEF Mkdir, CalmInv, BaseInv, Exists
<1>4. QueueInv'
  BY <1>0, <1>1, <1>2, <1>3 DEF GoodQueue, QueueInv
<1>5. OneWatch' /\ Attributed' /\ EntriesWanted' /\ FirstCall'
  BY <1>3 DEF CalmInv, TableInv, OneWatch, Attributed, EntriesWanted, FirstCall, IsIgnored,
              UnderRoot, Busy
<1>6. HandedOut'
  <2>1. kino \in [Wd -> Nat]
    BY TypeFacts DEF CalmInv, BaseInv
  <2> QED
    BY <1>1, <1>3, <2>1 DEF CalmInv, TableInv, HandedOut
<1>7. Placed'
  BY <1>3 DEF CalmInv, TableInv, Placed, UnderRoot, TameNames, IsIgnored
<1>8. WalkShape'
  BY <1>1, <1>3 DEF CalmInv, TableInv, WalkShape, NoWalk, Busy, Ahead, Below, UnderRoot, IsIgnored
<1> QED
  BY <1>4, <1>5, <1>6, <1>7, <1>8 DEF TableInv

LEMMA RmdirTables ==
  ASSUME CalmInv, TreeInv', NEW d \in Dir, Rmdir(d)
  PROVE  TableInv'
<1>1. ~Busy /\ walk = NoWalk /\ ops \in Nat
  BY ChangeIs DEF Rmdir
<1>0. PICK n \in Nat : n = 2 * ops /\ n < host.queue /\ GoodQueue(queue, n)
  BY ChangeIs DEF Rmdir
<1>2. GoodQueue(queue', n + 1)
  BY <1>0, PushIs DEF Rmdir
<1>3. /\ UNCHANGED <<host, nwd, kpath, watches, roots, calls, gen, rest, walk, closed>>
      /\ ops' = ops + 1 /\ \A e \in Dir : e # d => ino'[e] = ino[e]
      /\ kino' = [w \in Wd |-> IF kino[w] = ino[d] THEN Absent ELSE kino[w]]
      /\ kino \in [Wd -> Nat]
  BY RmdirTree, TypeFacts DEF Rmdir, CalmInv, BaseInv
<1>4. QueueInv'
  BY <1>0, <1>1, <1>2, <1>3 DEF GoodQueue, QueueInv
<1>5. OneWatch' /\ Attributed' /\ EntriesWanted' /\ FirstCall'
  BY <1>3 DEF CalmInv, TableInv, OneWatch, Attributed, EntriesWanted, FirstCall, IsIgnored,
              UnderRoot, Busy
<1>6. HandedOut'
  BY <1>1, <1>3 DEF CalmInv, TableInv, HandedOut, Absent
<1>7. Placed'
  BY <1>3 DEF CalmInv, TableInv, Placed, UnderRoot, TameNames, IsIgnored
<1>8. WalkShape'
  BY <1>1, <1>3 DEF CalmInv, TableInv, WalkShape, NoWalk, Busy, Ahead, Below, UnderRoot, IsIgnored
<1> QED
  BY <1>4, <1>5, <1>6, <1>7, <1>8 DEF TableInv

\* What moves with a renamed directory stays at or under its roots.
LEMMA MovedPlaced ==
  ASSUME CalmInv, NEW a \in Dir, NEW b \in Dir, Rename(a, b), NEW d \in Dir, Under(d, a),
         NEW x \in Path, Under(d, x), ~Under(x, a)
  PROVE  /\ Under(Moved(d, a, b), x)
         /\ Under(a, x) /\ a # x /\ Under(Front(a), x) /\ ~Under(x, b) /\ Under(b, x)
<1>1. /\ a \in Path /\ b \in Path /\ d \in Path /\ Len(a) = Len(b) /\ Front(a) = Front(b)
      /\ a # <<>> /\ b # <<>> /\ a # b
  BY DirIsPath, RenameIs DEF CalmInv, BaseInv, TreeInv
<1>2. Under(a, x) /\ a # x
  BY <1>1, UnderChain, UnderSelf
<1>3. Under(Front(a), x)
  BY <1>1, <1>2, FrontUnder
<1>4. Under(b, x)
  BY <1>1, <1>3, FrontIs, UnderTrans
<1>5. ~Under(x, b)
  <2> SUFFICES ASSUME Under(x, b) PROVE FALSE
    OBVIOUS
  <2>1. x = b
    BY <1>1, <1>4, UnderBoth
  <2>2. Under(Front(b), b)
    BY <1>1, <1>3, <2>1
  <2> QED
    BY <1>1, <2>2, FrontIs, UnderBoth
<1>6. Moved(d, a, b) \in Path /\ Under(Moved(d, a, b), b)
  BY <1>1, MovedIs
<1>7. Under(Moved(d, a, b), x)
  BY <1>1, <1>4, <1>6, UnderTrans
<1> QED
  BY <1>2, <1>3, <1>4, <1>5, <1>7

LEMMA MovedTame ==
  ASSUME CalmInv, NEW a \in Dir, NEW b \in Dir, Rename(a, b), NEW d \in Dir, Under(d, a),
         TameNames, ~IsIgnored(d)
  PROVE  ~IsIgnored(Moved(d, a, b))
<1> DEFINE m == Moved(d, a, b)
<1>1. /\ a \in Path /\ b \in Path /\ d \in Path /\ Len(a) = Len(b) /\ Front(a) = Front(b)
      /\ a # <<>> /\ b # <<>> /\ a # b /\ <<a, b>> \in host.renames
  BY DirIsPath, RenameIs DEF CalmInv, BaseInv, TreeInv
<1>2. /\ m \in Path /\ Len(m) = Len(d)
      /\ \A i \in 1 .. Len(d) : m[i] = IF i <= Len(a) THEN b[i] ELSE d[i]
  BY <1>1, MovedIs
<1> HIDE DEF m
<1>3. Last(b) \notin host.ignored
  BY <1>1 DEF TameNames
<1>4. \A i \in 1 .. Len(a) - 1 : b[i] = a[i]
  BY <1>1, SiblingsDiffer
<1>5. Len(a) \in Nat \ {0} /\ Len(d) \in Nat /\ Len(a) <= Len(d) /\ DOMAIN m = 1 .. Len(d)
      /\ DOMAIN d = 1 .. Len(d) /\ \A i \in 1 .. Len(a) : d[i] = a[i]
  BY <1>1, <1>2, PathIsSeq, UnderMeans
<1>6. ASSUME NEW i \in 1 .. Len(d) PROVE m[i] \notin host.ignored
  <2>1. CASE i < Len(a)
    <3>1. m[i] = d[i]
      BY <1>2, <1>4, <1>5, <2>1
    <3> QED
      BY <1>5, <3>1 DEF IsIgnored
  <2>2. CASE i = Len(a)
    BY <1>1, <1>2, <1>3, <1>5, <2>2 DEF Last
  <2>3. CASE i > Len(a)
    <3>1. m[i] = d[i]
      BY <1>2, <1>5, <2>3
    <3> QED
      BY <1>5, <3>1 DEF IsIgnored
  <2> QED
    BY <1>5, <2>1, <2>2, <2>3
<1>7. ~IsIgnored(m)
  BY <1>5, <1>6 DEF IsIgnored
<1> QED
  BY <1>7 DEF m

LEMMA RootsAre ==
  ASSUME CalmInv
  PROVE  /\ roots \subseteq Dir /\ roots \subseteq Path
         /\ \A r \in roots \ host.mutable : Exists(r)
         /\ \A a, b \in Dir : Rename(a, b) => \A r \in roots : ~Under(r, a)
<1>1. roots \subseteq Dir /\ (roots = {} \/ roots \in host.rootSets)
  BY DEF CalmInv, BaseInv, TypeInv, TypeOK, TableInv, FirstCall
<1>2. \A a, b \in Dir : Rename(a, b) => \A r \in roots : ~Under(r, a)
  BY <1>1, RenameIs DEF CalmInv, BaseInv, TreeInv
<1> QED
  BY <1>1, <1>2, DirIsPath DEF CalmInv, BaseInv, TreeInv, FirmRoots

LEMMA RenameTables ==
  ASSUME CalmInv, TreeInv', NEW a \in Dir, NEW b \in Dir, Rename(a, b)
  PROVE  TableInv'
<1>1. ~Busy /\ walk = NoWalk /\ ops \in Nat
  BY ChangeIs DEF Rename
<1>0. PICK n \in Nat : n = 2 * ops /\ n < host.queue /\ n + 1 < host.queue /\ GoodQueue(queue, n)
  BY ChangeIs DEF Rename
<1>2. GoodQueue(queue', n + 2)
  <2>1. GoodQueue(Push(queue, a, "out"), n + 1)
    BY <1>0, PushIs
  <2>2. GoodQueue(Push(Push(queue, a, "out"), b, "in"), (n + 1) + 1)
    <3>1. n + 1 \in Nat
      OBVIOUS
    <3> QED
      BY <1>0, <2>1, <3>1, PushIs
  <2>3. (n + 1) + 1 = n + 2
    OBVIOUS
  <2> QED
    BY <2>2, <2>3 DEF Rename
<1>3. /\ UNCHANGED <<host, kino, nwd, kpath, watches, roots, calls, gen, rest, walk, closed>>
      /\ ops' = ops + 1
  BY DEF Rename
<1>4. QueueInv'
  BY <1>0, <1>1, <1>2, <1>3 DEF GoodQueue, QueueInv
<1>5. OneWatch' /\ Attributed' /\ EntriesWanted' /\ FirstCall'
  BY <1>3 DEF CalmInv, TableInv, OneWatch, Attributed, EntriesWanted, FirstCall, IsIgnored,
              UnderRoot, Busy
<1>6. HandedOut'
  <2>1. kino \in [Wd -> Nat]
    BY TypeFacts DEF CalmInv, BaseInv
  <2> QED
    BY <1>1, <1>3, <2>1 DEF CalmInv, TableInv, HandedOut
<1>7. Placed'
  <2> SUFFICES ASSUME NEW w \in Wd, kino[w] # Absent
               PROVE  \E d \in Dir : /\ ino'[d] = kino[w] /\ UnderRoot(d)
                                     /\ TameNames => ~IsIgnored(d)
    BY <1>3 DEF Placed, UnderRoot, TameNames, IsIgnored
  <2>1. PICK d \in Dir : ino[d] = kino[w] /\ UnderRoot(d) /\ (TameNames => ~IsIgnored(d))
    BY DEF CalmInv, TableInv, Placed
  <2>2. Exists(d)
    BY <2>1 DEF Exists
  <2>3. PICK r \in roots : Under(d, r)
    BY <2>1 DEF UnderRoot
  <2>4. r \in Path /\ ~Under(r, a)
    BY RootsAre
  <2>5. CASE Under(d, a)
    <3>1. Moved(d, a, b) \in Dir /\ ino'[Moved(d, a, b)] = ino[d]
      <4>1. \A c \in Dir : Exists(c) /\ Under(c, a) =>
              Moved(c, a, b) \in Dir /\ ino'[Moved(c, a, b)] = ino[c]
        BY RenameIs DEF CalmInv, BaseInv, TreeInv
      <4> QED
        BY <2>2, <2>5, <4>1
    <3>2. Under(Moved(d, a, b), r)
      BY <2>3, <2>4, <2>5, MovedPlaced
    <3>3. TameNames => ~IsIgnored(Moved(d, a, b))
      BY <2>1, <2>5, MovedTame
    <3> QED
      BY <2>1, <3>1, <3>2, <3>3 DEF UnderRoot
  <2>6. CASE ~Under(d, a)
    <3>1. ~Under(d, b)
      BY <2>2, RenameIs DEF CalmInv, BaseInv, TreeInv
    <3>2. ino'[d] = ino[d]
      BY <2>6, <3>1, RenameIs DEF CalmInv, BaseInv, TreeInv
    <3> QED
      BY <2>1, <3>2
  <2> QED
    BY <2>5, <2>6
<1>8. WalkShape'
  BY <1>1, <1>3 DEF CalmInv, TableInv, WalkShape, NoWalk, Busy, Ahead, Below, UnderRoot, IsIgnored
<1> QED
  BY <1>4, <1>5, <1>6, <1>7, <1>8 DEF TableInv

\* On a calm host there are watches left for every directory: a walk always adds.
LEMMA WatchesLeft ==
  ASSUME CalmInv, NEW d \in Dir, Exists(d), WatchOn(d) = NoWd
  PROVE  Cardinality({w \in Wd : kino[w] # Absent}) < host.watches
<1> DEFINE active == {w \in Wd : kino[w] # Absent}
           others == Dir \ {d}
           at == [w \in active |-> CHOOSE e \in Dir : ino[e] = kino[w]]
<1>1. IsFiniteSet(Dir) /\ IsFiniteSet(others) /\ Cardinality(others) = Cardinality(Dir) - 1
  BY DirAssumption, FS_RemoveElement
<1>2. \A w \in active : at[w] \in Dir /\ ino[at[w]] = kino[w]
  BY DEF CalmInv, TableInv, Placed
<1>3. \A w \in active : at[w] # d
  BY <1>2, WatchOnIs, NoWdIsNone
<1>4. at \in Injection(active, others)
  <2>1. at \in [active -> others]
    BY <1>2, <1>3
  <2>2. IsInjective(at)
    <3> SUFFICES ASSUME NEW v \in active, NEW w \in active, at[v] = at[w] PROVE v = w
      BY DEF IsInjective
    <3>1. kino[v] = kino[w] /\ kino[v] # Absent
      BY <1>2
    <3> QED
      BY <3>1 DEF CalmInv, TableInv, OneWatch
  <2> QED
    BY <2>1, <2>2 DEF Injection
<1> HIDE DEF active, others, at
<1>5. IsFiniteSet(active) /\ Cardinality(active) <= Cardinality(others)
  BY <1>1, <1>4, FS_Injection
<1>6. Cardinality(active) \in Nat /\ Cardinality(Dir) \in Nat
  BY <1>1, <1>5, FS_CardinalityType
<1>7. host.watches \in Nat /\ host.watches >= Cardinality(Dir)
  BY HostIs, CalmIs DEF CalmInv, BaseInv, TypeInv, TypeOK
<1>8. Cardinality(active) < host.watches
  BY <1>1, <1>5, <1>6, <1>7
<1> QED
  BY <1>8 DEF active

\* Watching the listed directory: an entry it has stays; else it gets a watch, a new one, or
\* the one that its inode has already.
LEMMA AddIs ==
  ASSUME CalmInv, NEW d \in Dir, Exists(d), AddWatch(d)
  PROVE  \/ watches[d] # NoWd /\ UNCHANGED <<kino, nwd, kpath, watches>>
         \/ /\ watches[d] = NoWd
            /\ \E w \in Wd :
                 /\ \/ WatchOn(d) = NoWd /\ w = nwd + 1 /\ nwd' = w
                       /\ \A v \in Wd : kino[v] # ino[d]
                    \/ WatchOn(d) = w /\ kino[w] = ino[d] /\ nwd' = nwd /\ w <= nwd
                 /\ kino' = [kino EXCEPT ![w] = ino[d]]
                 /\ kpath' = [kpath EXCEPT ![w] = d]
                 /\ watches' = [watches EXCEPT ![d] = w]
<1>1. CASE /\ \/ watches[d] # NoWd \/ ~Exists(d) \/ closed
              \/ WatchOn(d) = NoWd /\ Cardinality({w \in Wd : kino[w] # Absent}) >= host.watches
           /\ UNCHANGED <<kino, nwd, kpath, watches>>
  <2>1. ~(WatchOn(d) = NoWd /\ Cardinality({w \in Wd : kino[w] # Absent}) >= host.watches)
    <3> SUFFICES ASSUME WatchOn(d) = NoWd
                 PROVE  ~(Cardinality({w \in Wd : kino[w] # Absent}) >= host.watches)
      OBVIOUS
    <3> DEFINE n == Cardinality({w \in Wd : kino[w] # Absent})
    <3>1. n < host.watches /\ host.watches \in Nat
      BY WatchesLeft, HostIs DEF CalmInv, BaseInv, TypeInv, TypeOK
    <3>2. n \in Nat
      <4>1. IsFiniteSet(Wd)
        BY WdAssumption, FS_Interval DEF Wd
      <4>2. IsFiniteSet({w \in Wd : kino[w] # Absent})
        BY <4>1, FS_Subset
      <4> QED
        BY <4>2, FS_CardinalityType
    <3> HIDE DEF n
    <3>3. ~(n >= host.watches)
      BY <3>1, <3>2
    <3> QED
      BY <3>3 DEF n
  <2> QED
    BY <1>1, <2>1 DEF CalmInv
<1>2. CASE /\ watches[d] = NoWd /\ Exists(d) /\ ~closed
           /\ LET w == IF WatchOn(d) = NoWd THEN nwd + 1 ELSE WatchOn(d) IN
                /\ w \in Wd
                /\ nwd' = IF WatchOn(d) = NoWd THEN w ELSE nwd
                /\ kino' = [kino EXCEPT ![w] = ino[d]]
                /\ kpath' = [kpath EXCEPT ![w] = d]
                /\ watches' = [watches EXCEPT ![d] = w]
  <2>1. CASE WatchOn(d) = NoWd
    <3>1. \A v \in Wd : kino[v] # ino[d]
      BY <2>1, WatchOnIs, NoWdIsNone
    <3> QED
      BY <1>2, <2>1, <3>1
  <2>2. CASE WatchOn(d) # NoWd
    <3>1. kino[WatchOn(d)] = ino[d] /\ WatchOn(d) <= nwd
      BY <2>2, WatchOnKnown
    <3> QED
      BY <1>2, <2>2, <3>1
  <2> QED
    BY <2>1, <2>2
<1> QED
  BY <1>1, <1>2 DEF AddWatch

LEMMA WatchTables ==
  ASSUME CalmInv, WalkWatch
  PROVE  TableInv'
<1> DEFINE d == walk.cur
<1>1. /\ d \in Dir /\ Exists(d) /\ AddWatch(d) /\ d \in Ahead /\ Busy
      /\ ~IsIgnored(d) /\ UnderRoot(d)
      /\ walk' = [walk EXCEPT !.cur = NoDir, !.todo = @ \cup walk.kids, !.kids = {}]
      /\ UNCHANGED <<host, ino, ops, queue, roots, calls, gen, rest, closed>>
  <2>1. d \in Dir /\ Exists(d)
    BY TypeFacts DEF WalkWatch, CalmInv, BaseInv, TableInv, WalkShape
  <2> QED
    BY <2>1 DEF WalkWatch, CalmInv, TableInv, WalkShape, Ahead, fs
<1> HIDE DEF d
<1>2. WalkShape'
  <2>1. /\ walk'.by = walk.by /\ walk'.cur = NoDir /\ walk'.kids = {}
        /\ walk'.todo = walk.todo \cup walk.kids
    BY <1>1 DEF CalmInv, BaseInv, TypeInv, TypeOK
  <2>2. Ahead' \subseteq Ahead
    BY <2>1 DEF Ahead
  <2> QED
    BY <1>1, <2>1, <2>2 DEF CalmInv, TableInv, WalkShape, Busy, Below, UnderRoot, IsIgnored
<1>3. FirstCall'
  BY <1>1 DEF CalmInv, TableInv, FirstCall
<1>4. CASE UNCHANGED <<kino, nwd, kpath, watches>>
  BY <1>1, <1>2, <1>3, <1>4
     DEF CalmInv, TableInv, OneWatch, Attributed, HandedOut, EntriesWanted, QueueInv, GoodQueue,
         Placed, UnderRoot, IsIgnored, TameNames
<1>5. ASSUME watches[d] = NoWd, NEW w \in Wd,
             \/ w = nwd + 1 /\ nwd' = w /\ \A v \in Wd : kino[v] # ino[d]
             \/ kino[w] = ino[d] /\ nwd' = nwd /\ w <= nwd,
             kino' = [kino EXCEPT ![w] = ino[d]],
             kpath' = [kpath EXCEPT ![w] = d],
             watches' = [watches EXCEPT ![d] = w]
      PROVE  TableInv'
  <2>1. /\ kino \in [Wd -> Nat] /\ kpath \in [Wd -> Path] /\ nwd \in Nat /\ ops \in Nat
        /\ watches \in [Dir -> Nat] /\ ino \in [Dir -> Nat] /\ w \in Nat /\ Wd \subseteq Nat
    BY TypeFacts, NoWdIsNone DEF CalmInv, BaseInv
  <2>2. /\ kino'[w] = ino[d] /\ kpath'[w] = d /\ watches'[d] = w
        /\ \A v \in Wd : v # w => kino'[v] = kino[v] /\ kpath'[v] = kpath[v]
        /\ \A e \in Dir : e # d => watches'[e] = watches[e]
        /\ nwd <= nwd' /\ w <= nwd' /\ nwd' \in Nat /\ ino[d] # Absent /\ ino[d] <= ops
    BY <1>1, <1>5, <2>1 DEF CalmInv, BaseInv, TreeInv, Inodes, Exists
  <2>3. OneWatch'
    <3> SUFFICES ASSUME NEW u \in Wd, NEW v \in Wd, kino'[u] # Absent, kino'[u] = kino'[v]
                 PROVE  u = v
      BY DEF OneWatch
    <3>1. CASE u # w /\ v # w
      BY <2>2, <3>1 DEF CalmInv, TableInv, OneWatch
    <3>2. CASE u = w /\ v # w
      BY <1>5, <2>2, <3>2 DEF CalmInv, TableInv, OneWatch
    <3>3. CASE u # w /\ v = w
      BY <1>5, <2>2, <3>3 DEF CalmInv, TableInv, OneWatch
    <3> QED
      BY <3>1, <3>2, <3>3
  <2>4. Attributed'
    <3> SUFFICES ASSUME NEW v \in Wd, kpath'[v] # NoDir PROVE watches'[kpath'[v]] = v
      BY DEF Attributed
    <3>1. CASE v = w
      BY <2>2, <3>1
    <3>2. CASE v # w
      <4>1. kpath'[v] = kpath[v] /\ kpath[v] \in Dir /\ watches[kpath[v]] = v
        BY <2>2, <3>2, TypeFacts DEF CalmInv, BaseInv, TableInv, Attributed
      <4>2. kpath[v] # d
        BY <1>5, <4>1, NoWdIsNone
      <4> QED
        BY <2>2, <4>1, <4>2
    <3> QED
      BY <3>1, <3>2
  <2>5. HandedOut'
    <3>1. \A v \in Wd : v > nwd' => v # w /\ v > nwd
      BY <2>1, <2>2
    <3>2. \A e \in Dir : watches'[e] <= nwd'
      BY <2>1, <2>2 DEF CalmInv, TableInv, HandedOut
    <3>3. \A v \in Wd : kino'[v] <= ops'
      BY <1>1, <2>1, <2>2 DEF CalmInv, TableInv, HandedOut
    <3> QED
      BY <2>2, <3>1, <3>2, <3>3 DEF CalmInv, TableInv, HandedOut
  <2>6. EntriesWanted'
    BY <1>1, <2>2 DEF CalmInv, TableInv, EntriesWanted, UnderRoot, IsIgnored
  <2>7. QueueInv'
    <3>1. \A i \in 1 .. Len(queue) : queue[i].wd <= nwd /\ queue[i].wd \in Nat
      <4>1. \A i \in 1 .. Len(queue) : queue[i] \in Event /\ queue[i] # Overflow
        BY DEF CalmInv, TableInv, QueueInv, GoodQueue
      <4>2. \A i \in 1 .. Len(queue) : queue[i].wd \in Nat
        BY <4>1, PathOfType, NoWdIsNone DEF CalmInv, BaseInv, TypeInv
      <4> QED
        BY <4>2 DEF CalmInv, TableInv, QueueInv, GoodQueue
    <3>2. \A i \in 1 .. Len(queue) : queue[i].wd <= nwd'
      BY <2>1, <2>2, <3>1
    <3> QED
      BY <1>1, <3>2 DEF CalmInv, TableInv, QueueInv, GoodQueue
  <2>8. Placed'
    <3> SUFFICES ASSUME NEW v \in Wd, kino'[v] # Absent
                 PROVE  \E e \in Dir : /\ ino[e] = kino'[v] /\ UnderRoot(e)
                                       /\ TameNames => ~IsIgnored(e)
      BY <1>1 DEF Placed, UnderRoot, TameNames, IsIgnored
    <3>1. CASE v = w
      BY <1>1, <2>2, <3>1
    <3>2. CASE v # w
      BY <2>2, <3>2 DEF CalmInv, TableInv, Placed
    <3> QED
      BY <3>1, <3>2
  <2> QED
    BY <1>2, <1>3, <2>3, <2>4, <2>5, <2>6, <2>7, <2>8 DEF TableInv
<1> QED
  BY <1>1, <1>4, <1>5, AddIs

\* Removing trees: the entries at or under them go, and the watches these entries name.
Dropped(w, ps) == \E d \in Dir : watches[d] = w /\ \E p \in ps : Under(d, p)

LEMMA RemoveIs ==
  ASSUME BaseInv, NEW ps, RemoveTrees(ps)
  PROVE  /\ \A d \in Dir : watches'[d] = IF \E p \in ps : Under(d, p) THEN NoWd ELSE watches[d]
         /\ \A w \in Wd : kino'[w] = IF Dropped(w, ps) THEN Absent ELSE kino[w]
         /\ \A w \in Wd : kpath'[w] = IF Dropped(w, ps) THEN NoDir ELSE kpath[w]
<1> DEFINE doomed == {d \in Dir : watches[d] # NoWd /\ \E p \in ps : Under(d, p)}
           gone == {watches[d] : d \in doomed}
<1>1. /\ watches' = [d \in Dir |-> IF d \in doomed THEN NoWd ELSE watches[d]]
      /\ kino' = [w \in Wd |-> IF w \in gone THEN Absent ELSE kino[w]]
      /\ kpath' = [w \in Wd |-> IF w \in gone THEN NoDir ELSE kpath[w]]
  BY DEF RemoveTrees
<1>2. \A w \in Wd : w \in gone <=> Dropped(w, ps)
  BY NoWdIsNone DEF Dropped
<1>3. \A d \in Dir : watches'[d] = IF \E p \in ps : Under(d, p) THEN NoWd ELSE watches[d]
  BY <1>1
<1> HIDE DEF doomed, gone
<1> QED
  BY <1>1, <1>2, <1>3

LEMMA RemoveTables ==
  ASSUME CalmInv, NEW ps, RemoveTrees(ps), UNCHANGED <<host, ino, ops, nwd, roots>>
  PROVE  OneWatch' /\ Attributed' /\ HandedOut' /\ EntriesWanted' /\ Placed'
<1>1. /\ \A d \in Dir : watches'[d] = IF \E p \in ps : Under(d, p) THEN NoWd ELSE watches[d]
      /\ \A w \in Wd : kino'[w] = IF Dropped(w, ps) THEN Absent ELSE kino[w]
      /\ \A w \in Wd : kpath'[w] = IF Dropped(w, ps) THEN NoDir ELSE kpath[w]
  BY RemoveIs DEF CalmInv
<1>2. \A d \in Dir : watches'[d] = NoWd \/ watches'[d] = watches[d]
  BY <1>1
<1>3. \A w \in Wd : /\ kino'[w] = Absent \/ kino'[w] = kino[w]
                    /\ kpath'[w] = NoDir \/ (kpath'[w] = kpath[w] /\ ~Dropped(w, ps))
  <2> TAKE w \in Wd
  <2>1. CASE Dropped(w, ps)
    BY <1>1, <2>1
  <2>2. CASE ~Dropped(w, ps)
    BY <1>1, <2>2
  <2> QED
    BY <2>1, <2>2
<1>4. OneWatch'
  BY <1>3 DEF CalmInv, TableInv, OneWatch
<1>5. Attributed'
  <2> SUFFICES ASSUME NEW w \in Wd, kpath'[w] # NoDir PROVE watches'[kpath'[w]] = w
    BY DEF Attributed
  <2>1. kpath'[w] = kpath[w] /\ ~Dropped(w, ps) /\ kpath[w] \in Dir /\ watches[kpath[w]] = w
    BY <1>3, TypeFacts DEF CalmInv, BaseInv, TableInv, Attributed
  <2>2. ~\E p \in ps : Under(kpath[w], p)
    BY <2>1 DEF Dropped
  <2> QED
    BY <1>1, <2>1, <2>2
<1>6. HandedOut'
  <2>1. nwd \in Nat /\ ops \in Nat /\ NoWd <= nwd /\ Absent <= ops
    BY TypeFacts DEF CalmInv, BaseInv, NoWd, Absent
  <2> QED
    BY <1>2, <1>3, <2>1 DEF CalmInv, TableInv, HandedOut
<1>7. EntriesWanted'
  BY <1>2 DEF CalmInv, TableInv, EntriesWanted, UnderRoot, IsIgnored
<1>8. Placed'
  BY <1>3 DEF CalmInv, TableInv, Placed, UnderRoot, TameNames, IsIgnored
<1> QED
  BY <1>4, <1>5, <1>6, <1>7, <1>8

\* The tables but for the queue and the walk are left alone.
LEMMA SameTables ==
  ASSUME CalmInv, UNCHANGED <<host, ino, ops, kino, nwd, kpath, watches, roots>>
  PROVE  OneWatch' /\ Attributed' /\ HandedOut' /\ EntriesWanted' /\ Placed'
BY DEF CalmInv, TableInv, OneWatch, Attributed, HandedOut, EntriesWanted, Placed, UnderRoot,
       TameNames, IsIgnored

LEMMA TailGood ==
  ASSUME CalmInv, queue # <<>>, queue' = Tail(queue), UNCHANGED <<ops, nwd, calls>>
  PROVE  /\ QueueInv' /\ calls # 0
         /\ Head(queue) \in Event /\ Head(queue) # Overflow /\ Head(queue) = queue[1]
         /\ Len(queue') = Len(queue) - 1 /\ Len(queue) \in Nat \ {0}
         /\ \A i \in 1 .. Len(queue') : queue'[i] = queue[i + 1]
<1>1. queue \in Seq(Event) /\ Len(queue) \in Nat /\ Len(queue) <= 2 * ops /\ ops \in Nat
  BY TypeFacts DEF CalmInv, BaseInv, TableInv, QueueInv, GoodQueue
<1>2. /\ Head(queue) \in Event /\ Tail(queue) \in Seq(Event) /\ Len(Tail(queue)) = Len(queue) - 1
      /\ \A i \in 1 .. Len(Tail(queue)) : Tail(queue)[i] = queue[i + 1]
  BY <1>1, HeadTailProperties
<1>3. Head(queue) = queue[1] /\ Len(queue) # 0
  BY <1>1
<1>4. ASSUME NEW i \in 1 .. Len(Tail(queue))
      PROVE  Tail(queue)[i] # Overflow /\ Tail(queue)[i].wd <= nwd
  <2>1. i + 1 \in 1 .. Len(queue)
    BY <1>1, <1>2
  <2> QED
    BY <1>2, <2>1 DEF CalmInv, TableInv, QueueInv, GoodQueue
<1>5. queue[1] # Overflow /\ calls # 0
  BY <1>1, <1>3 DEF CalmInv, TableInv, QueueInv, GoodQueue
<1>6. QueueInv'
  BY <1>1, <1>2, <1>4, <1>5 DEF QueueInv, GoodQueue
<1> QED
  BY <1>1, <1>2, <1>3, <1>5, <1>6

\* The path of an event is that of a directory strictly below a root.
LEMMA PathOfIs ==
  ASSUME CalmInv, NEW i \in 1 .. Len(queue)
  PROVE  LET e == queue[i]
         IN  /\ e \in Event /\ e # Overflow /\ e.wd \in Wd /\ e.wd <= nwd
             /\ e.name \in Name /\ e.kind \in {"in", "out"} /\ PathOf(e) \in Path
             /\ kpath[e.wd] # NoDir =>
                  /\ kpath[e.wd] \in Dir /\ watches[kpath[e.wd]] = e.wd
                  /\ UnderRoot(kpath[e.wd]) /\ ~IsIgnored(kpath[e.wd])
                  /\ PathOf(e) # <<>> /\ Front(PathOf(e)) = kpath[e.wd] /\ Last(PathOf(e)) = e.name
                  /\ Under(PathOf(e), kpath[e.wd]) /\ Below(PathOf(e))
<1> DEFINE e == queue[i]
<1>1. e \in Event /\ e # Overflow /\ e.wd <= nwd
  BY DEF CalmInv, TableInv, QueueInv, GoodQueue
<1> HIDE DEF e
<1>2. e.wd \in Wd /\ e.name \in Name /\ e.kind \in {"in", "out"} /\ PathOf(e) \in Path
  BY <1>1, PathOfType DEF CalmInv, BaseInv, TypeInv
<1>3. ASSUME kpath[e.wd] # NoDir
      PROVE  /\ kpath[e.wd] \in Dir /\ watches[kpath[e.wd]] = e.wd
             /\ UnderRoot(kpath[e.wd]) /\ ~IsIgnored(kpath[e.wd])
             /\ PathOf(e) # <<>> /\ Front(PathOf(e)) = kpath[e.wd] /\ Last(PathOf(e)) = e.name
             /\ Under(PathOf(e), kpath[e.wd]) /\ Below(PathOf(e))
  <2>1. kpath[e.wd] \in Dir /\ watches[kpath[e.wd]] = e.wd /\ kpath[e.wd] \in Path
    BY <1>2, <1>3, TypeFacts DEF CalmInv, BaseInv, TableInv, Attributed
  <2>2. UnderRoot(kpath[e.wd]) /\ ~IsIgnored(kpath[e.wd])
    BY <1>2, <2>1, NoWdIsNone DEF CalmInv, TableInv, EntriesWanted
  <2>3. PathOf(e) # <<>> /\ Front(PathOf(e)) = kpath[e.wd] /\ Last(PathOf(e)) = e.name
    BY <1>2, <2>1, AppendIs DEF PathOf
  <2>4. Under(PathOf(e), kpath[e.wd])
    BY <1>2, <2>3, FrontIs
  <2>5. PICK r \in roots : Under(kpath[e.wd], r)
    BY <2>2 DEF UnderRoot
  <2>6. r \in Path
    BY RootsAre
  <2>7. r # PathOf(e)
    <3> SUFFICES ASSUME r = PathOf(e) PROVE FALSE
      OBVIOUS
    <3>1. Under(Front(r), r)
      BY <2>3, <2>5
    <3> QED
      BY <1>2, <2>3, <3>1, FrontIs, UnderBoth
  <2> QED
    BY <1>2, <2>1, <2>2, <2>3, <2>4, <2>5, <2>6, <2>7, UnderTrans DEF Below
<1> QED
  BY <1>1, <1>2, <1>3 DEF e

LEMMA ListTables ==
  ASSUME CalmInv, NEW d \in walk.todo, WalkList(d)
  PROVE  TableInv'
<1>1. /\ UNCHANGED <<host, ino, ops, kino, queue, nwd, kpath, watches, roots, calls, gen, rest>>
      /\ UNCHANGED closed
      /\ Busy /\ walk.cur = NoDir /\ d \in Ahead /\ d \in Path
  BY TypeFacts DEF WalkList, fs, kernel, Ahead, CalmInv, BaseInv
<1>2. walk.kids = {} /\ ~IsIgnored(d) /\ UnderRoot(d) /\ d # <<>> /\ d # NoDir
  BY <1>1 DEF CalmInv, TableInv, WalkShape, NoDir
<1>3. CASE Exists(d)
  <2> DEFINE kids == {c \in Children(d) : Last(c) \notin host.ignored}
  <2>1. /\ walk'.by = walk.by /\ walk'.cur = d /\ walk'.kids = kids /\ walk'.todo = walk.todo \ {d}
    BY <1>2, <1>3 DEF WalkList, CalmInv, BaseInv, TypeInv, TypeOK
  <2>2. \A c \in kids : ~IsIgnored(c) /\ UnderRoot(c) /\ c # <<>> /\ (Below(d) => Below(c))
    <3> SUFFICES ASSUME NEW c \in kids
                 PROVE  ~IsIgnored(c) /\ UnderRoot(c) /\ c # <<>> /\ (Below(d) => Below(c))
      OBVIOUS
    <3>1. d \in Dir /\ c \in Children(d) /\ Last(c) \notin host.ignored
      BY <1>3 DEF Exists
    <3>2. c \in Path /\ c # <<>> /\ Front(c) = d /\ Under(c, d) /\ c # d
      BY <3>1, ChildrenAre DEF CalmInv, BaseInv
    <3>3. ~IsIgnored(c)
      BY <1>2, <3>1, <3>2, IgnoredLast
    <3>4. \A r \in roots : Under(d, r) => Under(c, r)
      BY <1>1, <3>2, RootsAre, UnderTrans
    <3>5. \A r \in roots : Under(d, r) => r # c
      BY <1>1, <3>2, UnderBoth
    <3> QED
      BY <1>2, <3>2, <3>3, <3>4, <3>5 DEF UnderRoot, Below
  <2> HIDE DEF kids
  <2>3. Ahead' = (walk.todo \ {d}) \cup kids \cup {d}
    BY <1>2, <2>1 DEF Ahead
  <2>4. \A x \in Ahead' : ~IsIgnored(x) /\ UnderRoot(x) /\ x # <<>>
    BY <1>2, <2>2, <2>3 DEF Ahead, CalmInv, TableInv, WalkShape
  <2>5. walk.by = "events" => \A x \in Ahead' : Below(x)
    BY <1>1, <2>2, <2>3 DEF Ahead, CalmInv, TableInv, WalkShape
  <2>6. Exists(d)' /\ kids = {c \in Children(d) : Last(c) \notin host.ignored}'
    BY <1>1, <1>3 DEF Exists, Children, kids
  <2>7. WalkShape'
    BY <1>1, <1>2, <2>1, <2>4, <2>5, <2>6
       DEF CalmInv, TableInv, WalkShape, Busy, Below, UnderRoot, IsIgnored
  <2> QED
    BY <1>1, <2>7, SameTables
       DEF CalmInv, TableInv, FirstCall, QueueInv, GoodQueue, Busy
<1>4. CASE ~Exists(d)
  <2>1. /\ walk'.by = walk.by /\ walk'.cur = walk.cur /\ walk'.kids = walk.kids
        /\ walk'.todo = walk.todo \ {d}
    BY <1>4 DEF WalkList, CalmInv, BaseInv, TypeInv, TypeOK
  <2>2. Ahead' \subseteq Ahead
    BY <2>1 DEF Ahead
  <2>3. WalkShape'
    BY <1>1, <2>1, <2>2
       DEF CalmInv, TableInv, WalkShape, Busy, Below, UnderRoot, IsIgnored
  <2> QED
    BY <1>1, <2>1, <2>3, SameTables
       DEF CalmInv, TableInv, FirstCall, QueueInv, GoodQueue, Busy
<1> QED
  BY <1>3, <1>4

LEMMA DoneTables ==
  ASSUME CalmInv, WalkDone
  PROVE  TableInv'
<1>1. /\ UNCHANGED <<host, ino, ops, kino, queue, nwd, kpath, watches, roots, calls, rest, closed>>
      /\ Busy /\ walk' = NoWalk /\ gen' = IF walk.by = "events" THEN "yield" ELSE gen
  BY DEF WalkDone, fs, kernel
<1>2. rest = {} /\ calls # 0 /\ Ahead' = {} /\ ~Busy' /\ walk'.by = "nobody" /\ walk'.cur = NoDir
      /\ walk'.kids = {}
  BY <1>1 DEF CalmInv, TableInv, WalkShape, FirstCall, Ahead, NoWalk, Busy
<1>3. WalkShape'
  <2>1. gen' # "walk"
    BY <1>1 DEF CalmInv, TableInv, WalkShape
  <2> QED
    BY <1>1, <1>2, <2>1 DEF WalkShape
<1> QED
  BY <1>1, <1>2, <1>3, SameTables DEF CalmInv, TableInv, FirstCall, QueueInv, GoodQueue

LEMMA IdleShape ==
  ASSUME CalmInv, ~Busy, UNCHANGED <<host, roots, walk>>, calls' # 0, rest' = {},
         gen' \in {"get", "yield"}
  PROVE  WalkShape' /\ FirstCall'
<1>1. walk = NoWalk /\ Ahead' = {}
  BY DEF CalmInv, TableInv, WalkShape, NoWalk, Ahead, NoDir
<1> QED
  BY <1>1 DEF CalmInv, TableInv, WalkShape, FirstCall, NoWalk, Busy, Ahead

LEMMA SkippedTables ==
  ASSUME CalmInv, ReadSkipped
  PROVE  TableInv'
<1>1. rest = {} /\ gen = "get" /\ ~Busy /\ queue # <<>> /\ queue' = Tail(queue)
      /\ UNCHANGED <<host, ino, ops, kino, nwd, kpath, watches, roots, calls, gen, rest, walk>>
      /\ UNCHANGED closed
  BY DEF ReadSkipped, fs, CalmInv, TableInv, WalkShape
<1>2. QueueInv' /\ calls # 0
  BY <1>1, TailGood
<1> QED
  BY <1>1, <1>2, SameTables, IdleShape DEF TableInv

LEMMA AppearedTables ==
  ASSUME CalmInv, ReadAppeared
  PROVE  TableInv'
<1>1. gen = "get" /\ ~Busy /\ queue # <<>> /\ queue' = Tail(queue)
      /\ ~Unresolved(Head(queue)) /\ gen' = "yield" /\ rest' = {PathOf(Head(queue))}
      /\ UNCHANGED <<host, ino, ops, kino, nwd, kpath, watches, roots, calls, walk, closed>>
  BY DEF ReadAppeared, fs
<1>2. QueueInv' /\ calls # 0 /\ Head(queue) = queue[1] /\ 1 \in 1 .. Len(queue)
  BY <1>1, TailGood
<1>3. ~IsIgnored(PathOf(queue[1])) /\ Below(PathOf(queue[1]))
  BY <1>1, <1>2, PathOfIs DEF Unresolved
<1>4. walk = NoWalk /\ Ahead' = {} /\ rest' = {PathOf(queue[1])}
  BY <1>1, <1>2 DEF CalmInv, TableInv, WalkShape, NoWalk, Ahead, NoDir
<1>5. WalkShape' /\ FirstCall'
  BY <1>1, <1>2, <1>3, <1>4
     DEF CalmInv, TableInv, WalkShape, FirstCall, NoWalk, Busy, Ahead, Below, IsIgnored
<1> QED
  BY <1>1, <1>2, <1>5, SameTables DEF TableInv

LEMMA VanishedTables ==
  ASSUME CalmInv, ReadVanished
  PROVE  TableInv'
<1>1. gen = "get" /\ ~Busy /\ queue # <<>> /\ queue' = Tail(queue)
      /\ RemoveTrees({PathOf(Head(queue))}) /\ gen' = "yield" /\ rest' = {}
      /\ UNCHANGED <<host, ino, ops, nwd, roots, calls, walk, closed>>
  BY DEF ReadVanished, fs
<1>2. QueueInv' /\ calls # 0
  BY <1>1, TailGood
<1>3. OneWatch' /\ Attributed' /\ HandedOut' /\ EntriesWanted' /\ Placed'
  BY <1>1, RemoveTables
<1> QED
  BY <1>1, <1>2, <1>3, IdleShape DEF TableInv

\* A yield leaves nothing to walk, or one directory.
LEMMA ResumeIs ==
  ASSUME CalmInv, Resume
  PROVE  /\ UNCHANGED <<host, ino, ops, kino, queue, nwd, kpath, watches, roots, calls, closed>>
         /\ ~Busy /\ walk = NoWalk /\ gen = "yield" /\ rest' = {}
         /\ \/ rest = {} /\ gen' = "get" /\ walk' = walk
            \/ \E q \in rest : rest = {q} /\ gen' = "walk" /\ walk' = StartWalk("events", {q})
<1>1. /\ UNCHANGED <<host, ino, ops, kino, queue, nwd, kpath, watches, roots, calls, closed>>
      /\ ~Busy /\ walk = NoWalk /\ gen = "yield" /\ Proceed(rest)
      /\ \A x, y \in rest : x = y
  BY DEF Resume, fs, kernel, CalmInv, TableInv, WalkShape
<1>2. CASE rest = {} /\ gen' = "get" /\ rest' = {} /\ UNCHANGED walk
  BY <1>1, <1>2
<1>3. ASSUME NEW q \in rest, walk' = StartWalk("events", {q}), gen' = "walk", rest' = rest \ {q}
      PROVE  rest = {q} /\ rest' = {}
  BY <1>1, <1>3
<1> QED
  BY <1>1, <1>2, <1>3 DEF Proceed

LEMMA ResumeTables ==
  ASSUME CalmInv, Resume
  PROVE  TableInv'
<1>1. /\ UNCHANGED <<host, ino, ops, kino, queue, nwd, kpath, watches, roots, calls, closed>>
      /\ ~Busy /\ walk = NoWalk /\ gen = "yield" /\ rest' = {} /\ calls # 0
  BY ResumeIs DEF CalmInv, TableInv, FirstCall
<1>2. QueueInv'
  BY <1>1 DEF CalmInv, TableInv, QueueInv, GoodQueue
<1>3. CASE gen' = "get" /\ walk' = walk
  BY <1>1, <1>2, <1>3, SameTables, IdleShape DEF TableInv
<1>4. ASSUME NEW q \in rest, gen' = "walk", walk' = StartWalk("events", {q})
      PROVE  TableInv'
  <2>1. ~IsIgnored(q) /\ Below(q) /\ q \in Path
    BY TypeFacts DEF CalmInv, BaseInv, TableInv, WalkShape
  <2>2. UnderRoot(q) /\ q # <<>>
    <3>1. PICK r \in roots : Under(q, r) /\ r # q
      BY <2>1 DEF Below
    <3>2. r \in Path /\ r # <<>>
      BY RootsAre, DirIsPath
    <3> QED
      BY <2>1, <3>1, <3>2, UnderMeans, PathIsSeq DEF UnderRoot
  <2>3. /\ walk'.by = "events" /\ walk'.cur = NoDir /\ walk'.kids = {} /\ walk'.todo = {q}
    BY <1>4 DEF StartWalk
  <2>4. Ahead' = {q}
    BY <2>3 DEF Ahead
  <2>5. FirstCall'
    BY <1>1 DEF CalmInv, TableInv, FirstCall
  <2>6. ~IsIgnored(q)' /\ Below(q)' /\ UnderRoot(q)'
    BY <1>1, <2>1, <2>2 DEF Below, UnderRoot, IsIgnored
  <2>7. Busy'
    BY <2>3 DEF Busy
  <2>8. \A x \in Ahead' : ~IsIgnored(x)' /\ Below(x)' /\ UnderRoot(x)' /\ x # <<>>
    BY <2>2, <2>4, <2>6
  <2>9. walk'.by # "set_roots"
    BY <2>3
  <2>10. WalkShape'
    BY <1>1, <1>4, <2>3, <2>7, <2>8, <2>9 DEF WalkShape
  <2> QED
    BY <1>1, <1>2, <2>5, <2>10, SameTables DEF TableInv
<1> QED
  BY <1>3, <1>4, ResumeIs

\* set_roots() finds nothing watched, and the walk it starts is of the roots that are there.
LEMMA SetRootsTables ==
  ASSUME CalmInv, NEW new \in host.rootSets, SetRoots(new)
  PROVE  TableInv'
<1>1. /\ ~Busy /\ calls < 1 /\ RemoveTrees(roots \ new) /\ roots' = new /\ calls' = calls + 1
      /\ walk' = StartWalk("set_roots", {r \in new \ roots : Exists(r) /\ ~IsIgnored(r)})
      /\ UNCHANGED <<host, ino, ops, queue, nwd, gen, rest, closed>>
  BY CalmIs DEF SetRoots, fs, CalmInv
<1>2. calls = 0 /\ calls' = 1
  BY <1>1, TypeFacts DEF CalmInv, BaseInv
<1>3. /\ roots = {} /\ rest = {} /\ gen = "get" /\ queue = <<>>
      /\ \A d \in Dir : watches[d] = NoWd
  BY <1>2 DEF CalmInv, TableInv, FirstCall, QueueInv, GoodQueue
<1>4. \A w \in Wd : kino[w] = Absent /\ kpath[w] = NoDir
  <2>1. \A w \in Wd : kino[w] = Absent
    BY <1>3, NoWdIsNone DEF CalmInv, BaseInv, IInv, NoOrphanWatch
  <2>2. ASSUME NEW w \in Wd PROVE kpath[w] = NoDir
    <3>1. kpath[w] \in Dir \cup {NoDir}
      BY TypeFacts DEF CalmInv, BaseInv
    <3> QED
      BY <1>3, <3>1, NoWdIsNone DEF CalmInv, TableInv, Attributed
  <2> QED
    BY <2>1, <2>2
<1>5. /\ \A d \in Dir : watches'[d] = NoWd
      /\ \A w \in Wd : kino'[w] = Absent /\ kpath'[w] = NoDir
  BY <1>1, <1>3, <1>4, RemoveIs DEF CalmInv, BaseInv
<1>6. OneWatch' /\ Attributed' /\ EntriesWanted' /\ Placed'
  BY <1>5 DEF OneWatch, Attributed, EntriesWanted, Placed
<1>7. HandedOut'
  BY <1>1, <1>5, TypeFacts DEF HandedOut, Absent, NoWd, CalmInv, BaseInv
<1>8. QueueInv'
  <2>1. GoodQueue(queue, 2 * ops)
    BY DEF CalmInv, TableInv, QueueInv
  <2> QED
    BY <1>1, <1>2, <2>1 DEF QueueInv, GoodQueue
<1>9. FirstCall'
  BY <1>1, <1>2 DEF FirstCall
<1>10. WalkShape'
  <2> DEFINE todo == {r \in new \ roots : Exists(r) /\ ~IsIgnored(r)}
  <2>1. walk'.by = "set_roots" /\ walk'.todo = todo /\ walk'.cur = NoDir /\ walk'.kids = {}
    BY <1>1 DEF StartWalk
  <2>2. Ahead' = todo /\ Busy'
    BY <2>1 DEF Ahead, Busy
  <2>3. \A x \in todo : ~IsIgnored(x)' /\ UnderRoot(x)' /\ x # <<>>
    <3> SUFFICES ASSUME NEW x \in todo PROVE ~IsIgnored(x)' /\ UnderRoot(x)' /\ x # <<>>
      OBVIOUS
    <3>1. x \in new /\ x \in Dir /\ ~IsIgnored(x)
      BY DEF Exists
    <3>2. x # <<>> /\ Under(x, x)
      BY <3>1, DirIsPath, UnderSelf
    <3> QED
      BY <1>1, <3>1, <3>2 DEF UnderRoot, IsIgnored
  <2> HIDE DEF todo
  <2>4. \A x \in Ahead' : ~IsIgnored(x)' /\ UnderRoot(x)' /\ x # <<>>
    BY <2>2, <2>3
  <2> QED
    BY <1>1, <1>2, <1>3, <2>1, <2>2, <2>4 DEF WalkShape
<1> QED
  BY <1>6, <1>7, <1>8, <1>9, <1>10 DEF TableInv

LEMMA InitTables == Init => TableInv
<1> SUFFICES ASSUME Init PROVE TableInv
  OBVIOUS
<1>1. TypeInv
  BY InitType
<1>2. /\ kino = [w \in Wd |-> Absent] /\ kpath = [w \in Wd |-> NoDir]
      /\ queue = <<>> /\ nwd = 0 /\ watches = [d \in Dir |-> NoWd]
      /\ roots = {} /\ calls = 0 /\ gen = "get" /\ rest = {} /\ walk = NoWalk
  BY DEF Init
<1>3. OneWatch /\ Attributed /\ EntriesWanted /\ Placed
  BY <1>2 DEF OneWatch, Attributed, EntriesWanted, Placed
<1>4. HandedOut
  BY <1>1, <1>2, TypeFacts DEF HandedOut, Absent, NoWd
<1>5. QueueInv
  <2>1. queue \in Seq(Event) /\ Len(queue) = 0
    BY <1>1, <1>2 DEF TypeInv, TypeOK
  <2>2. 2 * ops \in Nat
    BY <1>1, TypeFacts
  <2> QED
    BY <1>2, <2>1, <2>2 DEF QueueInv, GoodQueue
<1>6. ~Busy /\ Ahead = {} /\ walk.cur = NoDir /\ walk.kids = {} /\ walk.by = "nobody"
  BY <1>2 DEF Busy, Ahead, NoWalk
<1>7. FirstCall /\ WalkShape
  BY <1>2, <1>6 DEF FirstCall, WalkShape
<1> QED
  BY <1>3, <1>4, <1>5, <1>7 DEF TableInv

\* Every step of a calm host keeps the tables, until aclose().
LEMMA StepTables ==
  ASSUME CalmInv, [Next]_vars, ~closed'
  PROVE  TableInv'
<1>1. CASE UNCHANGED vars
  BY <1>1 DEF vars, fs, kernel, CalmInv, TableInv, OneWatch, Attributed, HandedOut, EntriesWanted,
       QueueInv, GoodQueue, FirstCall, WalkShape, Placed, UnderRoot, Below, TameNames, IsIgnored,
       Busy, Ahead, Exists, Children
<1>2. CASE FileSystem
  <2>1. TreeInv'
    BY StepTree DEF CalmInv, BaseInv
  <2> QED
    BY <1>2, <2>1, MkdirTables, RmdirTables, RenameTables DEF FileSystem
<1>3. CASE Walking
  BY <1>3, ListTables, WatchTables, DoneTables DEF Walking
<1>4. ~ReadOverflow
  <2> SUFFICES ASSUME ReadOverflow PROVE FALSE
    OBVIOUS
  <2>1. queue # <<>> /\ Head(queue) = Overflow
    BY DEF ReadOverflow
  <2>2. queue \in Seq(Event) /\ \A i \in 1 .. Len(queue) : queue[i] # Overflow
    BY DEF CalmInv, TableInv, QueueInv, GoodQueue
  <2>3. Head(queue) = queue[1] /\ 1 \in 1 .. Len(queue)
    BY <2>1, <2>2
  <2> QED
    BY <2>1, <2>2, <2>3
<1>5. CASE Reading
  BY <1>4, <1>5, SkippedTables, AppearedTables, VanishedTables DEF Reading
<1>6. ~Aclose /\ ~End
  BY DEF Aclose, End, CalmInv
<1> QED
  BY <1>1, <1>2, <1>3, <1>5, <1>6, ResumeTables, SetRootsTables DEF Next

-----------------------------------------------------------------------------
\* What a calm host keeps for as long as it is not closed.
TablesInv == TypeInv /\ IInv /\ (Calm => TreeInv) /\ (Calm /\ ~closed => TableInv)

LEMMA CalmStays == [Next]_vars => (Calm' <=> Calm) /\ (closed => closed')
<1>1. [Next]_vars => (Calm' <=> Calm)
  BY HostStays DEF Calm
<1>2. [Next]_vars => (closed => closed')
  BY DEF Next, FileSystem, Walking, Reading, Mkdir, Rmdir, Rename, WalkList, WalkWatch, WalkDone,
         ReadOverflow, ReadSkipped, ReadAppeared, ReadVanished, Resume, SetRoots, Aclose, End, vars
<1> QED
  BY <1>1, <1>2

LEMMA InitTablesInv == Init => TablesInv
BY InitType, InitInv, InitTree, InitTables DEF TablesInv

LEMMA StepTablesInv == TablesInv /\ [Next]_vars => TablesInv'
<1> SUFFICES ASSUME TablesInv, [Next]_vars PROVE TablesInv'
  OBVIOUS
<1>1. TypeInv' /\ IInv'
  BY StepType, StepInv DEF TablesInv
<1>2. Calm' => TreeInv'
  BY CalmStays, StepTree DEF TablesInv
<1>3. Calm' /\ ~closed' => TableInv'
  BY CalmStays, StepTables DEF TablesInv, CalmInv, BaseInv
<1> QED
  BY <1>1, <1>2, <1>3 DEF TablesInv

\* On a calm host whose directories are never renamed to an ignored name, each watch is on a
\* directory that count_dirs() counts: the measured limit covers what the walks and the events
\* have attached, at any moment.
THEOREM AllCounted == Spec => []EveryWatchCounted
<1>1. TablesInv => EveryWatchCounted
  <2> SUFFICES ASSUME TablesInv, Calm, TameNames, NEW w \in Wd, kino[w] # Absent
               PROVE  \E r \in roots, d \in Dir : Counted(r, d) /\ ino[d] = kino[w]
    BY DEF EveryWatchCounted, TameNames
  <2>1. ~closed /\ CalmInv
    BY DEF TablesInv, IInv, CalmInv, BaseInv
  <2>2. PICK d \in Dir : ino[d] = kino[w] /\ UnderRoot(d) /\ ~IsIgnored(d)
    BY <2>1 DEF CalmInv, TableInv, Placed
  <2>3. PICK r \in roots : Under(d, r)
    BY <2>2 DEF UnderRoot
  <2>4. Exists(d) /\ r \in Dir
    BY <2>1, <2>2, RootsAre DEF Exists
  <2>5. Exists(r)
    BY <2>1, <2>3, <2>4 DEF CalmInv, BaseInv, TreeInv, TreeClosed
  <2>6. \A i \in Len(r) + 1 .. Len(d) : d[i] \notin host.ignored
    <3>1. Len(r) \in Nat /\ Len(d) \in Nat /\ DOMAIN d = 1 .. Len(d)
      BY <2>4, DirIsPath, PathIsSeq
    <3>2. \A i \in Len(r) + 1 .. Len(d) : i \in 1 .. Len(d)
      BY <3>1
    <3> QED
      BY <2>2, <3>1, <3>2 DEF IsIgnored
  <2> QED
    BY <2>2, <2>3, <2>4, <2>5, <2>6 DEF Counted
<1> QED
  BY <1>1, InitTablesInv, StepTablesInv, PTL DEF Spec

-----------------------------------------------------------------------------
(* What a calm reader still has to learn *)

\* A root that is not below another one.
Top(r) == r \in roots /\ ~Below(r)

\* Where the walk under way goes on.
Heads == walk.todo \cup ({walk.cur} \ {NoDir})

\* Position i of what the reader has ahead: directory x appeared, or went away.  Position 0 is
\* the event it has yielded and not yet walked.
In(q, i, x, k) == /\ i \in 1 .. Len(q) /\ q[i].kind = k
                  /\ kpath[q[i].wd] # NoDir /\ PathOf(q[i]) = x

At(i, x, k) == (i = 0 /\ k = "in" /\ x \in rest) \/ In(queue, i, x, k)

Told(x) == \E i \in Nat, k \in {"in", "out"} : At(i, x, k)

\* No event about d or a directory above is ahead; only about d itself.
Sure(d) == \A x \in Path : Told(x) => ~Under(d, x)
SureAbove(d) == \A x \in Path : Told(x) /\ Under(d, x) => x = d

\* The walk under way does not come to d any more.
Walked(d) == \A x \in Heads : ~Under(d, x)

Entry(d) == d \in Dir /\ watches[d] # NoWd
Live(d) == Entry(d) /\ Exists(d) /\ kino[watches[d]] = ino[d]
Own(d) == /\ kpath[watches[d]] = d
          /\ \A e \in Dir : watches[e] = watches[d] => e = d
TopLive(d) == \E r \in roots : Top(r) /\ Under(d, r) /\ Live(r)
Real(d) == Exists(d) /\ TopLive(d)
NoneUnder(d) == \A e \in Dir : Under(e, d) => watches[e] = NoWd

\* The first event about d says that it appeared.
FirstIn(d) == \E i \in Nat : At(i, d, "in") /\ \A k \in Nat : At(k, d, "out") => i < k

-----------------------------------------------------------------------------
(* The invariant of the watched tree *)

\* Where the reader is up to date, an entry is the only one of its watch, which is on its
\* directory; a root may have been removed, or replaced.
SureWatches ==
  \A d \in Dir : Sure(d) /\ Entry(d) =>
    Own(d) /\ (Live(d) \/ (Top(d) /\ Walked(d) /\ kino[watches[d]] = Absent))

\* There and where the walk is over, what exists is in the table, and nothing else.
Complete ==
  \A d \in Dir : Sure(d) /\ Walked(d) /\ Below(d) =>
    /\ Real(d) /\ ~IsIgnored(d) => Entry(d)
    /\ ~Real(d) \/ IsIgnored(d) => NoneUnder(d)

\* What is about to appear is not in the table yet.
NothingYet == \A d \in Path : SureAbove(d) /\ Below(d) /\ FirstIn(d) => NoneUnder(d)

ParentsKnown == /\ \A q \in rest : Entry(Front(q))
                /\ walk.by = "events" => \A q \in Heads : Entry(Front(q))

\* What appears twice goes away in between.
Alternate ==
  \A d \in Path : SureAbove(d) =>
    \A i, j \in Nat : At(i, d, "in") /\ At(j, d, "in") /\ i < j =>
      \E k \in Nat : i < k /\ k < j /\ At(k, d, "out")

\* The last event about a directory tells whether it is there.
LastTells ==
  \A d \in Path : SureAbove(d) /\ Below(d) =>
    \A i \in Nat : /\ At(i, d, "in") /\ ~Real(d) => \E k \in Nat : i < k /\ At(k, d, "out")
                   /\ At(i, d, "out") /\ Real(d) => \E k \in Nat : i < k /\ At(k, d, "in")

\* A walk starts where something appeared, and finds it unless it is gone again.
HeadsTold == \A q \in Heads : SureAbove(q) => ~FirstIn(q)
HeadsReal == \A q \in Heads : /\ Sure(q) /\ Below(q)
                              /\ \A x \in Heads : Under(q, x) => x = q
                              => Real(q)
FirstWalk == walk.by = "set_roots" => \A x \in Heads : Exists(x)
LaterWalk == walk.by = "events" =>
               /\ walk.cur \notin walk.todo
               /\ \A x, y \in Heads : Under(x, y) => x = y
               /\ \A x \in Heads : SureAbove(x) => NoneUnder(x)

\* The watch w of directory d is in the table at a place the reader knows to be gone when it has
\* read event j; if d is still below a root that is there, a later event makes it walk there.
Doomed(w, d, c, q, j) ==
  /\ watches[c] = w /\ Under(c, q) /\ Below(q) /\ SureAbove(q) /\ At(j, q, "out")
  /\ Under(d, Front(q))
  /\ TopLive(d) => \E z \in Path, i \in Nat :
       i > j /\ Under(d, z) /\ Below(z) /\ SureAbove(z) /\ At(i, z, "in")

Kept(w, d) == \/ watches[d] = w /\ Sure(d)
              \/ \E c \in Dir, q \in Path, j \in Nat : Doomed(w, d, c, q, j)

WatchesKept ==
  \A w \in Wd : kino[w] # Absent => \E d \in Dir : ino[d] = kino[w] /\ UnderRoot(d) /\ Kept(w, d)

RootsKept ==
  \A r \in roots : /\ Top(r) /\ ~IsIgnored(r) /\ Walked(r)
                   /\ \E f \in roots \ host.mutable : Under(f, r)
                   => Live(r)

CoverInv == /\ SureWatches /\ Complete /\ NothingYet /\ ParentsKnown /\ Alternate /\ LastTells
            /\ HeadsTold /\ HeadsReal /\ FirstWalk /\ LaterWalk /\ WatchesKept /\ RootsKept

Covered == CalmInv /\ CoverInv

-----------------------------------------------------------------------------
(* Orders *)

\* Of the members of S above d one has no other of them above it.
LEMMA Highest ==
  ASSUME NEW S, S \subseteq Path, NEW d \in Path, NEW x \in S, Under(d, x)
  PROVE  \E y \in S : Under(d, y) /\ Under(x, y) /\ \A z \in S : Under(y, z) => z = y
<1> DEFINE U == {Len(y) : y \in {y \in S : Under(x, y)}}
<1>1. U \subseteq Nat /\ Len(x) \in U
  BY UnderSelf, PathIsSeq
<1> DEFINE R == OpToRel(<, Nat)
<1>2. IsWellFoundedOn(R, Nat)
  BY NatLessThanWellFounded
<1>3. \A m, n \in Nat : m < n => <<m, n>> \in R
  BY DEF OpToRel
<1> HIDE DEF R
<1>4. PICK m \in U : \A n \in U : <<n, m>> \notin R
  BY <1>1, <1>2, WFMin
<1>5. PICK y \in S : Under(x, y) /\ m = Len(y)
  OBVIOUS
<1>6. ASSUME NEW z \in S, Under(y, z) PROVE z = y
  <2>1. Under(x, z)
    BY <1>5, <1>6, UnderTrans
  <2>2. Len(z) \in U /\ Len(z) \in Nat /\ Len(y) \in Nat /\ Len(z) <= Len(y)
    BY <1>6, <2>1, UnderMeans, PathIsSeq
  <2>3. ~(Len(z) < Len(y))
    BY <1>3, <1>4, <1>5, <2>2
  <2>4. Len(z) = Len(y)
    BY <2>2, <2>3
  <2> QED
    BY <1>6, <2>4, UnderMeans, SamePath
<1>7. Under(d, y)
  BY <1>5, UnderTrans
<1> QED
  BY <1>5, <1>6, <1>7

LEMMA HighestTold ==
  ASSUME NEW d \in Path, NEW x \in Path, Told(x), Under(d, x)
  PROVE  \E y \in Path : Told(y) /\ Under(d, y) /\ Under(x, y) /\ SureAbove(y)
<1> DEFINE S == {u \in Path : Told(u)}
<1>1. PICK y \in S : Under(d, y) /\ Under(x, y) /\ \A z \in S : Under(y, z) => z = y
  BY Highest
<1> QED
  BY <1>1 DEF SureAbove

LEMMA SureUp ==
  ASSUME NEW d \in Path, NEW e \in Path, Under(d, e), Sure(d)
  PROVE  Sure(e)
BY UnderTrans DEF Sure

LEMMA SureAboveUp ==
  ASSUME NEW d \in Path, NEW e \in Path, Under(d, e), SureAbove(d), d # e
  PROVE  Sure(e) /\ SureAbove(e)
BY UnderTrans, UnderBoth DEF Sure, SureAbove

LEMMA SureFront ==
  ASSUME NEW d \in Path, d # <<>>, SureAbove(d)
  PROVE  Sure(Front(d)) /\ Front(d) \in Path /\ Under(d, Front(d)) /\ Front(d) # d
BY FrontIs, SureAboveUp

LEMMA SureIs ==
  ASSUME NEW d \in Path
  PROVE  /\ Sure(d) => SureAbove(d) /\ ~Told(d)
         /\ SureAbove(d) /\ ~Told(d) => Sure(d)
BY UnderSelf DEF Sure, SureAbove

\* A member of S above d, and one that no other of S is above: for roots.
LEMMA TopAbove ==
  ASSUME CalmInv, NEW d \in Path, UnderRoot(d)
  PROVE  \E r \in roots : Top(r) /\ Under(d, r)
<1>1. roots \subseteq Path
  BY RootsAre
<1>2. PICK x \in roots : Under(d, x)
  BY DEF UnderRoot
<1>3. PICK y \in roots : Under(d, y) /\ \A z \in roots : Under(y, z) => z = y
  BY <1>1, <1>2, Highest
<1> QED
  BY <1>3 DEF Top, Below

\* The roots above two directories of which one is above the other are the same.
LEMMA SameTops ==
  ASSUME CalmInv, NEW d \in Path, NEW e \in Path, Under(d, e), UnderRoot(e)
  PROVE  /\ \A r \in roots : Top(r) => (Under(d, r) <=> Under(e, r))
         /\ TopLive(d) <=> TopLive(e)
<1>1. roots \subseteq Path
  BY RootsAre
<1>2. ASSUME NEW r \in roots, Top(r) PROVE Under(d, r) <=> Under(e, r)
  <2>1. Under(e, r) => Under(d, r)
    BY <1>1, UnderTrans
  <2>2. ASSUME Under(d, r) PROVE Under(e, r)
    <3>1. CASE Under(r, e)
      <4>1. PICK s \in roots : Under(e, s)
        BY DEF UnderRoot
      <4>2. Under(r, s)
        BY <1>1, <3>1, <4>1, UnderTrans
      <4>3. s = r
        BY <1>2, <4>2 DEF Top, Below
      <4> QED
        BY <4>1, <4>3
    <3>2. CASE Under(e, r)
      BY <3>2
    <3> QED
      BY <1>1, <2>2, <3>1, <3>2, UnderChain
  <2> QED
    BY <2>1, <2>2
<1> QED
  BY <1>2 DEF TopLive

LEMMA BelowIs ==
  ASSUME CalmInv, NEW d \in Path, NEW e \in Path, Under(d, e)
  PROVE  /\ UnderRoot(e) => UnderRoot(d)
         /\ UnderRoot(e) /\ d # e => Below(d)
         /\ Below(e) => Below(d)
         /\ Below(d) => UnderRoot(d) /\ ~Top(d)
         /\ UnderRoot(d) => Below(d) \/ Top(d)
         /\ Top(d) => UnderRoot(d)
<1>1. roots \subseteq Path
  BY RootsAre
<1>2. \A r \in roots : Under(e, r) => Under(d, r) /\ (r # e => r # d) /\ (d # e => r # d)
  BY <1>1, UnderTrans, UnderBoth
<1> QED
  BY <1>1, <1>2, UnderSelf DEF UnderRoot, Below, Top

-----------------------------------------------------------------------------
(* What events tell *)

\* Events are about entries of directories in the table.
LEMMA TellsAbout ==
  ASSUME CalmInv, ParentsKnown, NEW i, NEW x, NEW k, At(i, x, k)
  PROVE  /\ x \in Path /\ x # <<>> /\ Front(x) \in Dir /\ Front(x) \in Path
         /\ Entry(Front(x)) /\ ~IsIgnored(Front(x)) /\ Below(x)
         /\ UnderRoot(Front(x)) /\ k \in {"in", "out"} /\ i \in Nat /\ i <= Len(queue)
         /\ k = "out" => i > 0
         /\ i > 0 => /\ i \in 1 .. Len(queue) /\ queue[i].wd \in Wd
                     /\ watches[Front(x)] = queue[i].wd
                     /\ kpath[queue[i].wd] = Front(x) /\ queue[i].name = Last(x)
                     /\ queue[i].wd <= nwd
         /\ Told(x)
<1>1. Len(queue) \in Nat /\ rest \subseteq Path
  BY TypeFacts DEF CalmInv, BaseInv, TableInv, QueueInv, GoodQueue
<1>2. CASE i = 0 /\ k = "in" /\ x \in rest
  <2>1. x \in Path /\ Below(x) /\ Entry(Front(x))
    BY <1>1, <1>2 DEF CalmInv, TableInv, WalkShape, ParentsKnown
  <2>2. Front(x) \in Dir /\ ~IsIgnored(Front(x)) /\ UnderRoot(Front(x)) /\ Front(x) \in Path
    BY <2>1, DirIsPath DEF Entry, CalmInv, TableInv, EntriesWanted
  <2>3. x # <<>>
    <3>1. PICK r \in roots : Under(x, r) /\ r # x
      BY <2>1 DEF Below
    <3> QED
      BY <2>1, <3>1, RootsAre, FrontUnder
  <2> QED
    BY <1>1, <1>2, <2>1, <2>2, <2>3 DEF Told
<1>3. CASE /\ i \in 1 .. Len(queue) /\ queue[i].kind = k
           /\ kpath[queue[i].wd] # NoDir /\ PathOf(queue[i]) = x
  <2> DEFINE e == queue[i]
  <2>1. /\ e.wd \in Wd /\ e.wd <= nwd /\ e.kind \in {"in", "out"} /\ x \in Path
        /\ kpath[e.wd] \in Dir /\ watches[kpath[e.wd]] = e.wd
        /\ UnderRoot(kpath[e.wd]) /\ ~IsIgnored(kpath[e.wd])
        /\ x # <<>> /\ Front(x) = kpath[e.wd] /\ Last(x) = e.name /\ Below(x)
    BY <1>3, PathOfIs
  <2>2. Entry(Front(x)) /\ Front(x) \in Path
    BY <2>1, NoWdIsNone, DirIsPath DEF Entry
  <2>3. i \in Nat /\ i <= Len(queue) /\ i > 0
    BY <1>1, <1>3
  <2> QED
    BY <1>3, <2>1, <2>2, <2>3 DEF Told
<1> QED
  BY <1>2, <1>3 DEF At, In

\* A root that is not below another is never in doubt.
LEMMA TopSure ==
  ASSUME CalmInv, ParentsKnown, NEW r, Top(r)
  PROVE  Sure(r) /\ r \in Path /\ r \in Dir /\ r \in roots
<1>1. r \in roots /\ r \in Dir /\ r \in Path
  BY RootsAre DEF Top
<1>2. ASSUME NEW x \in Path, Told(x), Under(r, x) PROVE FALSE
  <2>1. Below(x)
    BY <1>2, TellsAbout DEF Told
  <2> QED
    BY <1>1, <1>2, <2>1, BelowIs DEF Top
<1> QED
  BY <1>1, <1>2 DEF Sure

\* Where nothing is ahead, a wanted directory is watched under its name.
LEMMA Watched ==
  ASSUME Covered, NEW d \in Dir, Sure(d), Walked(d), UnderRoot(d), Real(d), ~IsIgnored(d)
  PROVE  Entry(d) /\ Live(d) /\ Own(d) /\ watches[d] \in Wd /\ WatchOn(d) = watches[d]
<1>0. d \in Path
  BY DirIsPath
<1>1. Entry(d) /\ Live(d)
  <2>1. CASE Top(d)
    <3>1. PICK r \in roots : Top(r) /\ Under(d, r) /\ Live(r)
      BY DEF Real, TopLive
    <3>2. r = d
      BY <2>1, <3>1 DEF Top, Below
    <3> QED
      BY <3>1, <3>2 DEF Live
  <2>2. CASE Below(d)
    <3>1. Entry(d)
      BY <2>2 DEF Covered, CoverInv, Complete
    <3>2. ~Top(d)
      BY <2>2 DEF Top
    <3> QED
      BY <3>1, <3>2 DEF Covered, CoverInv, SureWatches
  <2> QED
    BY <1>0, <2>1, <2>2, BelowIs, UnderSelf DEF Covered
<1>2. Own(d)
  BY <1>1 DEF Covered, CoverInv, SureWatches
<1>3. watches[d] \in Wd
  BY <1>1, TypeFacts DEF Entry, Covered, CalmInv, BaseInv
<1>4. WatchOn(d) = watches[d]
  <2>1. kino[watches[d]] = ino[d] /\ Exists(d) /\ ino[d] # Absent
    BY <1>1 DEF Live, Exists
  <2>2. WatchOn(d) \in Wd /\ kino[WatchOn(d)] = ino[d]
    BY <1>3, <2>1, WatchOnIs
  <2> QED
    BY <1>3, <2>1, <2>2 DEF Covered, CalmInv, TableInv, OneWatch
<1> QED
  BY <1>1, <1>2, <1>3, <1>4

\* And what is in the table and lives there, is below a root that lives.
LEMMA EntryReal ==
  ASSUME Covered, NEW d \in Dir, Sure(d), Walked(d), Entry(d), Live(d) \/ Below(d)
  PROVE  Real(d) /\ ~IsIgnored(d) /\ UnderRoot(d)
<1>0. d \in Path /\ Under(d, d)
  BY DirIsPath, UnderSelf
<1>1. ~IsIgnored(d) /\ UnderRoot(d)
  BY DEF Entry, Covered, CalmInv, TableInv, EntriesWanted
<1>2. CASE Top(d)
  <2>1. Live(d)
    BY <1>2 DEF Top
  <2> QED
    BY <1>0, <1>1, <1>2, <2>1 DEF Real, TopLive, Live, Top
<1>3. CASE Below(d)
  <2>1. ~NoneUnder(d)
    BY <1>0 DEF NoneUnder, Entry
  <2> QED
    BY <1>1, <1>3, <2>1 DEF Covered, CoverInv, Complete
<1> QED
  BY <1>0, <1>1, <1>2, <1>3, BelowIs DEF Covered

-----------------------------------------------------------------------------
(* Other processes change the tree *)

\* The reader hears of the entries of p, and takes them for entries of Src(p).
Heard(p) == WatchOn(p) # NoWd /\ kpath[WatchOn(p)] # NoDir
Src(p) == kpath[WatchOn(p)]

\* In directory p the entries of gone go away with all that is under them, and those of born
\* appear; the queue tells the former at position m and the latter at n.
Change(p, gone, born, m, n) ==
  /\ ~Busy /\ UNCHANGED <<host, kpath, watches, roots, rest, walk>>
  /\ \A x \in gone \cup born : x \in Dir /\ Front(x) = p
  /\ m \in Nat /\ n \in Nat /\ (gone # {} /\ born # {} => m < n)
  /\ \A i, x, k : At(i, x, k) => i < m /\ i < n
  /\ \A i, x, k : At(i, x, k)' <=>
       \/ At(i, x, k)
       \/ Heard(p) /\ i = m /\ k = "out" /\ \E a \in gone : x = Append(Src(p), Last(a))
       \/ Heard(p) /\ i = n /\ k = "in" /\ \E b \in born : x = Append(Src(p), Last(b))
  /\ \A x \in Dir : (\A g \in gone \cup born : ~Under(x, g)) => ino'[x] = ino[x]
  /\ \A x \in Dir, a \in gone : Under(x, a) => ~Exists(x)'
  /\ \A x \in Dir, b \in born : Under(x, b) => ~Exists(x)
  /\ \A a \in gone : Exists(a)
  /\ \A b \in born : Exists(b)'

\* What happens to the inodes and watches of what goes away: they are dropped, or what moves
\* has no root in it, and is found again under an entry of born.
Inherits(gone, born) ==
  /\ \A w \in Wd : \/ kino'[w] = kino[w]
                   \/ kino'[w] = Absent /\ \E a \in gone : kino[w] = ino[a]
  /\ \A a \in gone :
       \/ \A r \in roots : ~Under(r, a)
       \/ /\ \A x \in Dir : Under(x, a) /\ Exists(x) => x = a
          /\ \A w \in Wd : kino[w] = ino[a] => kino'[w] = Absent
  /\ \A x \in Dir, b \in born, w \in Wd :
       Under(x, b) /\ kino[w] # Absent /\ kino[w] = ino'[x] =>
         \E a \in gone, y \in Dir : /\ Under(y, a) /\ ino[y] = kino[w]
                                    /\ \A r \in roots : ~Under(r, a)
  /\ \A y \in Dir, a \in gone, w \in Wd :
       Under(y, a) /\ ino[y] = kino[w] /\ kino'[w] # Absent =>
         /\ \A r \in roots : ~Under(r, a)
         /\ \E x \in Dir, b \in born : ino'[x] = kino[w] /\ Under(x, b)

LEMMA PushTells ==
  ASSUME CalmInv, NEW n \in Nat, n < host.queue, NEW q, GoodQueue(q, n),
         NEW d \in Dir, NEW kind \in {"in", "out"}
  PROVE  /\ \A i, x, k : In(Push(q, d, kind), i, x, k) <=>
              \/ In(q, i, x, k)
              \/ Heard(Front(d)) /\ i = Len(q) + 1 /\ k = kind /\ x = Append(Src(Front(d)), Last(d))
         /\ GoodQueue(Push(q, d, kind), n + 1) /\ Len(q) \in Nat
         /\ Heard(Front(d)) => Len(Push(q, d, kind)) = Len(q) + 1
<1> DEFINE p == Front(d)
           e == [wd |-> WatchOn(p), name |-> Last(d), kind |-> kind]
<1>1. /\ Push(q, d, kind) = IF WatchOn(p) = NoWd THEN q ELSE Append(q, e)
      /\ GoodQueue(Push(q, d, kind), n + 1)
      /\ WatchOn(p) # NoWd => e \in Event
  BY PushIs DEF Parent
<1>2. q \in Seq(Event) /\ Len(q) \in Nat
  BY DEF GoodQueue
<1>3. CASE WatchOn(p) = NoWd
  BY <1>1, <1>2, <1>3 DEF Heard
<1>4. CASE WatchOn(p) # NoWd
  <2>1. /\ Len(Append(q, e)) = Len(q) + 1
        /\ \A i \in 1 .. Len(q) : Append(q, e)[i] = q[i]
        /\ Append(q, e)[Len(q) + 1] = e
    <3> HIDE DEF e
    <3> QED
      BY <1>1, <1>2, <1>4, AppendProperties
  <2> DEFINE Q == Append(q, e)
  <2>2. e.kind = kind /\ e.wd = WatchOn(p) /\ PathOf(e) = Append(kpath[WatchOn(p)], Last(d))
    BY DEF PathOf
  <2> HIDE DEF Q, e
  <2>3. ASSUME NEW i, NEW x, NEW k
        PROVE  In(Q, i, x, k) <=>
                 \/ In(q, i, x, k)
                 \/ Heard(p) /\ i = Len(q) + 1 /\ k = kind /\ x = Append(Src(p), Last(d))
    <3>1. CASE i \in 1 .. Len(q)
      <4>1. i \in 1 .. Len(q) + 1 /\ i # Len(q) + 1 /\ Q[i] = q[i] /\ Len(Q) = Len(q) + 1
        BY <1>2, <2>1, <3>1 DEF Q
      <4> QED
        BY <3>1, <4>1 DEF In
    <3>2. CASE i = Len(q) + 1
      <4>1. i \notin 1 .. Len(q) /\ i \in 1 .. Len(Q) /\ Q[i] = e
        BY <1>2, <2>1, <3>2 DEF Q
      <4> QED
        BY <1>4, <2>2, <3>2, <4>1 DEF In, Heard, Src
    <3>3. CASE i \notin 1 .. Len(q) /\ i # Len(q) + 1
      <4>1. i \notin 1 .. Len(Q)
        BY <1>2, <2>1, <3>3 DEF Q
      <4> QED
        BY <3>3, <4>1 DEF In
    <3> QED
      BY <3>1, <3>2, <3>3
  <2> QED
    BY <1>1, <1>2, <1>4, <2>1, <2>3 DEF Q
<1> QED
  BY <1>3, <1>4

\* If the reader does not mistake the directory it hears of, it is told the truth.
LEMMA SourceIs ==
  ASSUME Covered, NEW p \in Path, Heard(p)
  PROVE  /\ Src(p) \in Dir /\ Entry(Src(p)) /\ watches[Src(p)] = WatchOn(p) /\ WatchOn(p) \in Wd
         /\ UnderRoot(p) /\ Exists(p) /\ p \in Dir /\ kino[WatchOn(p)] = ino[p]
         /\ Sure(Src(p)) => Src(p) = p
<1>1. /\ WatchOn(p) \in Wd /\ kino[WatchOn(p)] = ino[p] /\ Exists(p) /\ UnderRoot(p)
      /\ kino[WatchOn(p)] # Absent
  BY WatchOnKnown DEF Heard, Covered
<1>2. Src(p) \in Dir /\ watches[Src(p)] = WatchOn(p)
  <2>1. kpath[WatchOn(p)] \in Dir
    BY <1>1, TypeFacts DEF Heard, Covered, CalmInv, BaseInv
  <2> QED
    BY <1>1, <2>1 DEF Heard, Src, Covered, CalmInv, TableInv, Attributed
<1>3. Entry(Src(p))
  BY <1>1, <1>2, NoWdIsNone DEF Entry
<1>4. ASSUME Sure(Src(p)) PROVE Src(p) = p
  <2>1. Live(Src(p))
    BY <1>1, <1>2, <1>3, <1>4 DEF Covered, CoverInv, SureWatches
  <2> QED
    BY <1>1, <1>2, <2>1 DEF Live, Covered, CalmInv, BaseInv, TreeInv, Inodes, Exists
<1> QED
  BY <1>1, <1>2, <1>3, <1>4 DEF Exists

LEMMA ChangeSees ==
  ASSUME Covered, NEW p \in Path, NEW gone, NEW born, NEW m, NEW n,
         Change(p, gone, born, m, n)
  PROVE  /\ \A x \in Path : Told(x) => Told(x)'
         /\ \A x \in Path : (Sure(x)' => Sure(x)) /\ (SureAbove(x)' => SureAbove(x))
         /\ \A i, x, k : At(i, x, k)' /\ ~At(i, x, k) =>
              /\ Heard(p) /\ UnderRoot(p) /\ x \in Path /\ Front(x) = Src(p) /\ x # <<>>
              /\ i \in Nat /\ k \in {"in", "out"}
              /\ Sure(Front(x)) => /\ Src(p) = p
                                   /\ \/ k = "out" /\ i = m /\ x \in gone
                                      \/ k = "in" /\ i = n /\ x \in born
<1>1. \A i, x, k : At(i, x, k) => At(i, x, k)'
  BY DEF Change
<1>2. \A x \in Path : Told(x) => Told(x)'
  BY <1>1 DEF Told
<1>3. \A x \in Path : (Sure(x)' => Sure(x)) /\ (SureAbove(x)' => SureAbove(x))
  BY <1>2 DEF Sure, SureAbove
<1>4. \A x \in gone \cup born : x \in Dir /\ x \in Path /\ x # <<>> /\ Front(x) = p
                               /\ Last(x) \in Name /\ x = Append(p, Last(x))
  BY DirIsPath, FrontIs DEF Change
<1>5. ASSUME NEW i, NEW x, NEW k, At(i, x, k)', ~At(i, x, k)
      PROVE  /\ Heard(p) /\ UnderRoot(p) /\ x \in Path /\ Front(x) = Src(p) /\ x # <<>>
             /\ i \in Nat /\ k \in {"in", "out"}
             /\ Sure(Front(x)) => /\ Src(p) = p
                                  /\ \/ k = "out" /\ i = m /\ x \in gone
                                     \/ k = "in" /\ i = n /\ x \in born
  <2>1. /\ Heard(p) /\ m \in Nat /\ n \in Nat
        /\ \/ i = m /\ k = "out" /\ \E a \in gone : x = Append(Src(p), Last(a))
           \/ i = n /\ k = "in" /\ \E b \in born : x = Append(Src(p), Last(b))
    BY <1>5 DEF Change
  <2>2. /\ Src(p) \in Path /\ UnderRoot(p) /\ (Sure(Src(p)) => Src(p) = p)
    BY <2>1, SourceIs, DirIsPath
  <2>3. PICK g \in gone \cup born : /\ x = Append(Src(p), Last(g))
                                    /\ \/ i = m /\ k = "out" /\ g \in gone
                                       \/ i = n /\ k = "in" /\ g \in born
    BY <2>1
  <2>4. x \in Path /\ Front(x) = Src(p) /\ x # <<>>
    BY <1>4, <2>2, <2>3, AppendIs
  <2>5. Src(p) = p => x = g
    BY <1>4, <2>3
  <2> QED
    BY <2>1, <2>2, <2>3, <2>4, <2>5
<1> QED
  BY <1>2, <1>3, <1>5

\* Where nothing is ahead of p, and p is watched, the reader is told.
LEMMA ChangeTells ==
  ASSUME Covered, NEW p \in Path, NEW gone, NEW born, NEW m, NEW n,
         Change(p, gone, born, m, n)
  PROVE  /\ Heard(p) /\ Src(p) = p =>
              /\ \A a \in gone : At(m, a, "out")' /\ Told(a)'
              /\ \A b \in born : At(n, b, "in")' /\ Told(b)'
         /\ p \in Dir /\ Sure(p) /\ UnderRoot(p) /\ Real(p) /\ ~IsIgnored(p) =>
              Heard(p) /\ Src(p) = p
<1>1. \A x \in gone \cup born : x \in Dir /\ x = Append(p, Last(x))
  BY DirIsPath, FrontIs DEF Change
<1>2. m \in Nat /\ n \in Nat
  BY DEF Change
<1>3. ASSUME Heard(p), Src(p) = p
      PROVE  /\ \A a \in gone : At(m, a, "out")' /\ Told(a)'
             /\ \A b \in born : At(n, b, "in")' /\ Told(b)'
  <2>1. \A a \in gone : At(m, a, "out")'
    BY <1>1, <1>3 DEF Change
  <2>2. \A b \in born : At(n, b, "in")'
    BY <1>1, <1>3 DEF Change
  <2> QED
    BY <1>2, <2>1, <2>2 DEF Told
<1>4. ASSUME p \in Dir, Sure(p), UnderRoot(p), Real(p), ~IsIgnored(p)
      PROVE  Heard(p) /\ Src(p) = p
  <2>1. Walked(p)
    BY DEF Walked, Heads, Change, NoWalk, Covered, CalmInv, TableInv, WalkShape
  <2>2. Own(p) /\ watches[p] \in Wd /\ WatchOn(p) = watches[p]
    BY <1>4, <2>1, Watched
  <2> QED
    BY <1>4, <2>2, NoWdIsNone, DirIsPath DEF Own, Heard, Src
<1> QED
  BY <1>3, <1>4

LEMMA ChangeFamily ==
  ASSUME NEW p \in Path, NEW gone, NEW born, NEW m, NEW n, Change(p, gone, born, m, n),
         NEW g \in gone \cup born
  PROVE  /\ g \in Dir /\ g \in Path /\ g # <<>> /\ Front(g) = p /\ Under(g, p) /\ g # p
         /\ ~Under(p, g)
         /\ \A r \in Path : Under(g, r) /\ ~Under(r, g) => Under(p, r)
         /\ \A x \in Path : Under(x, g) => Under(x, p) /\ x # p /\ x # <<>>
         /\ \A x \in Path : Under(x, g) /\ x # g => Under(Front(x), g)
         /\ \A x \in Path : Under(x, g) => Under(Front(x), p)
<1>1. g \in Dir /\ g \in Path /\ g # <<>> /\ Front(g) = p
  BY DirIsPath DEF Change
<1>2. Under(g, p) /\ g # p /\ Under(g, g)
  BY <1>1, FrontIs, UnderSelf
<1>3. ~Under(p, g)
  BY <1>1, <1>2, UnderBoth
<1>4. \A r \in Path : Under(g, r) /\ ~Under(r, g) => Under(p, r)
  BY <1>1, <1>2, FrontUnder
<1>5. \A x \in Path : Under(x, g) => Under(x, p)
  BY <1>1, <1>2, UnderTrans
<1>6. \A x \in Path : Under(x, g) => x # p /\ x # <<>>
  BY <1>1, <1>2, <1>3, FrontUnder
<1>7. \A x \in Path : Under(x, g) /\ x # g => Under(Front(x), g)
  BY <1>1, FrontUnder
<1>8. \A x \in Path : Under(x, g) => Under(Front(x), p)
  BY <1>5, <1>6, FrontUnder
<1> QED
  BY <1>1, <1>2, <1>3, <1>4, <1>5, <1>6, <1>7, <1>8

\* What is below a root that lives comes and goes only in the directories of the change, and then
\* their parent is such a directory itself.
LEMMA ChangeReal ==
  ASSUME Covered, CalmInv', NEW p \in Path, NEW gone, NEW born, NEW m, NEW n,
         Change(p, gone, born, m, n), Inherits(gone, born), NEW x \in Path
  PROVE  /\ TopLive(x)' => TopLive(x)
         /\ Exists(x)' /\ TopLive(x) => TopLive(x)'
         /\ Below(x) /\ Real(x) /\ ~Real(x)' =>
              /\ \E a \in gone : Under(x, a)
              /\ UnderRoot(p) /\ Real(p) /\ p \in Dir
         /\ Real(x)' /\ ~Real(x) =>
              /\ \E b \in born : Under(x, b)
              /\ UnderRoot(p) /\ Real(p) /\ p \in Dir
<1>0. /\ UNCHANGED <<roots, watches>> /\ roots \subseteq Path /\ roots \subseteq Dir
      /\ \A y \in Dir : (\A g \in gone \cup born : ~Under(y, g)) => ino'[y] = ino[y]
      /\ \A y \in Dir, a \in gone : Under(y, a) => ~Exists(y)'
      /\ \A y \in Dir, b \in born : Under(y, b) => ~Exists(y)
      /\ \A a \in gone : Exists(a)
      /\ \A b \in born : Exists(b)'
  BY RootsAre DEF Change, Covered
<1>1. /\ \A w \in Wd : \/ kino'[w] = kino[w]
                       \/ kino'[w] = Absent /\ \E a \in gone : kino[w] = ino[a]
      /\ \A y \in Dir : watches[y] # NoWd => watches[y] \in Wd
  BY TypeFacts DEF Inherits, Covered, CalmInv, BaseInv
<1>2. ASSUME NEW r \in roots, Top(r), Live(r)' PROVE Live(r)
  <2>1. /\ watches[r] # NoWd /\ Exists(r)' /\ kino'[watches[r]] = ino'[r] /\ ino'[r] # Absent
        /\ watches[r] \in Wd
    BY <1>0, <1>1, <1>2 DEF Live, Entry, Exists
  <2>2. kino'[watches[r]] = kino[watches[r]]
    BY <1>1, <2>1
  <2>3. CASE \A g \in gone \cup born : ~Under(r, g)
    <3>1. ino'[r] = ino[r]
      BY <1>0, <2>3
    <3> QED
      BY <1>0, <2>1, <2>2, <3>1 DEF Live, Entry, Exists
  <2>4. ASSUME NEW b \in born, Under(r, b) PROVE FALSE
    <3>1. PICK a \in gone, y \in Dir : /\ Under(y, a) /\ ino[y] = kino[watches[r]]
                                       /\ \A s \in roots : ~Under(s, a)
      <4>1. r \in Dir /\ Under(r, b)
        BY <1>0, <2>4
      <4>2. watches[r] \in Wd /\ kino[watches[r]] # Absent /\ kino[watches[r]] = ino'[r]
        BY <2>1, <2>2
      <4>3. \A w \in Wd : kino[w] # Absent /\ kino[w] = ino'[r] =>
              \E a \in gone, y \in Dir : /\ Under(y, a) /\ ino[y] = kino[w]
                                         /\ \A s \in roots : ~Under(s, a)
        BY <4>1 DEF Inherits
      <4> QED
        BY <4>2, <4>3
    <3>2. UnderRoot(y)
      <4>1. PICK d \in Dir : ino[d] = kino[watches[r]] /\ UnderRoot(d)
        BY <2>1, <2>2 DEF Covered, CalmInv, TableInv, Placed
      <4>2. y = d
        BY <2>1, <2>2, <3>1, <4>1 DEF Covered, CalmInv, BaseInv, TreeInv, Inodes, Exists
      <4> QED
        BY <4>1, <4>2
    <3>3. PICK s \in roots : Under(y, s)
      BY <3>2 DEF UnderRoot
    <3>4. Under(a, s) /\ ~Under(s, a) /\ a \in Path
      BY <1>0, <3>1, <3>3, DirIsPath, UnderChain, ChangeFamily
    <3>5. Under(p, s) /\ Under(r, p) /\ ~Under(p, b) /\ Under(r, s)
      BY <1>0, <2>4, <3>4, ChangeFamily, UnderTrans
    <3>6. s = r
      BY <1>2, <3>5 DEF Top, Below
    <3> QED
      BY <1>0, <2>4, <3>5, <3>6, ChangeFamily, UnderBoth
  <2>5. \A a \in gone : ~Under(r, a)
    BY <1>0, <2>1
  <2> QED
    BY <2>3, <2>4, <2>5
<1>3. TopLive(x)' => TopLive(x)
  BY <1>0, <1>2 DEF TopLive, Top, Below
<1>4. ASSUME Exists(x)', NEW r \in roots, Top(r), Under(x, r), Live(r) PROVE Live(r)'
  <2>1. /\ watches[r] # NoWd /\ Exists(r) /\ kino[watches[r]] = ino[r] /\ watches[r] \in Wd
        /\ x \in Dir
    BY <1>1, <1>4 DEF Live, Entry, Exists
  <2>2. \A a \in gone : ~Under(r, a)
    <3> SUFFICES ASSUME NEW a \in gone, Under(r, a) PROVE FALSE
      OBVIOUS
    <3>1. Under(x, a)
      BY <1>0, <1>4, ChangeFamily, UnderTrans
    <3> QED
      BY <1>0, <1>4, <2>1, <3>1
  <2>3. \A b \in born : ~Under(r, b)
    BY <1>0, <2>1
  <2>4. ino'[r] = ino[r]
    BY <1>0, <2>2, <2>3
  <2>5. kino'[watches[r]] = kino[watches[r]]
    <3> SUFFICES ASSUME NEW a \in gone, kino[watches[r]] = ino[a] PROVE FALSE
      BY <1>1, <2>1
    <3>1. r = a
      <4>1. a \in Dir /\ Exists(a) /\ r \in Dir /\ ino[r] = ino[a]
        BY <1>0, <2>1, ChangeFamily
      <4> QED
        BY <4>1 DEF Covered, CalmInv, BaseInv, TreeInv, Inodes
    <3> QED
      BY <1>0, <2>2, <3>1, UnderSelf
  <2> QED
    BY <1>0, <2>1, <2>4, <2>5 DEF Live, Entry, Exists
<1>5. Exists(x)' /\ TopLive(x) => TopLive(x)'
  BY <1>0, <1>4 DEF TopLive, Top, Below
<1>6. ASSUME NEW g \in gone \cup born, NEW r \in roots, Top(r), Under(x, g), Under(x, r), Live(r),
             ~Under(r, g), Exists(g) \/ Exists(g)'
      PROVE  UnderRoot(p) /\ Real(p) /\ p \in Dir
  <2>1. Under(g, r) /\ g \in Path /\ g \in Dir
    BY <1>0, <1>6, ChangeFamily, UnderChain
  <2>2. Under(p, r)
    BY <1>0, <1>6, <2>1, ChangeFamily
  <2>3. p # <<>>
    <3>1. r # <<>> /\ r \in Path
      BY <1>0, DirIsPath
    <3> QED
      BY <2>2, <3>1, UnderMeans, PathIsSeq
  <2>4. p \in Dir
    BY <2>1, <2>3, ChangeFamily, DirPrefix
  <2>5. Exists(p)
    <3>1. CASE Exists(g)
      BY <2>1, <2>4, <3>1, ChangeFamily DEF Covered, CalmInv, BaseInv, TreeInv, TreeClosed
    <3>2. CASE Exists(g)'
      <4>1. Exists(p)'
        BY <2>1, <2>4, <3>2, ChangeFamily DEF CalmInv, BaseInv, TreeInv, TreeClosed
      <4>2. ino'[p] = ino[p]
        BY <1>0, <2>4, ChangeFamily
      <4> QED
        BY <4>1, <4>2 DEF Exists
    <3> QED
      BY <1>6, <3>1, <3>2
  <2> QED
    BY <1>6, <2>2, <2>4, <2>5 DEF UnderRoot, Real, TopLive
<1>7. ASSUME Below(x), Real(x), ~Real(x)'
      PROVE  /\ \E a \in gone : Under(x, a)
             /\ UnderRoot(p) /\ Real(p) /\ p \in Dir
  <2>1. Exists(x) /\ ~Exists(x)' /\ x \in Dir
    BY <1>5, <1>7 DEF Real, Exists
  <2>2. PICK a \in gone : Under(x, a)
    BY <1>0, <2>1 DEF Exists
  <2>3. PICK r \in roots : Top(r) /\ Under(x, r) /\ Live(r)
    BY <1>7 DEF Real, TopLive
  <2>4. ~Under(r, a)
    <3> SUFFICES ASSUME Under(r, a) PROVE FALSE
      OBVIOUS
    <3>1. x = a
      BY <2>1, <2>2 DEF Inherits
    <3>2. x = r
      BY <1>0, <2>3, <3>1, UnderBoth
    <3> QED
      BY <1>7, <2>3, <3>2 DEF Top
  <2> QED
    BY <1>0, <1>6, <2>2, <2>3, <2>4
<1>8. ASSUME Real(x)', ~Real(x)
      PROVE  /\ \E b \in born : Under(x, b)
             /\ UnderRoot(p) /\ Real(p) /\ p \in Dir
  <2>1. ~Exists(x) /\ Exists(x)' /\ x \in Dir
    BY <1>3, <1>8 DEF Real, Exists
  <2>2. PICK b \in born : Under(x, b)
    BY <1>0, <2>1 DEF Exists
  <2>3. PICK r \in roots : Top(r) /\ Under(x, r) /\ Live(r)
    BY <1>3, <1>8 DEF Real, TopLive
  <2>4. ~Under(r, b)
    BY <1>0, <2>3 DEF Live
  <2> QED
    BY <1>0, <1>6, <2>2, <2>3, <2>4
<1> QED
  BY <1>3, <1>5, <1>7, <1>8

-----------------------------------------------------------------------------
(* ... and the invariant of the watched tree is kept *)

Happens(p, gone, born, m, n) ==
  Covered /\ CalmInv' /\ p \in Path /\ Change(p, gone, born, m, n) /\ Inherits(gone, born)

LEMMA SameView ==
  ASSUME NEW p, NEW gone, NEW born, NEW m, NEW n, Happens(p, gone, born, m, n)
  PROVE  /\ Heads = {} /\ Heads' = {} /\ walk.by = "nobody" /\ walk'.by = "nobody"
         /\ \A x : Walked(x) /\ Walked(x)'
         /\ \A x : (Entry(x)' <=> Entry(x)) /\ (NoneUnder(x)' <=> NoneUnder(x))
         /\ \A x : (Below(x)' <=> Below(x)) /\ (Top(x)' <=> Top(x))
         /\ \A x : UnderRoot(x)' <=> UnderRoot(x)
         /\ \A x : (IsIgnored(x)' <=> IsIgnored(x)) /\ (Own(x)' <=> Own(x))
         /\ \A i, x, k : At(i, x, k) => At(i, x, k)'
<1>1. UNCHANGED <<host, kpath, watches, roots, rest, walk>> /\ walk = NoWalk
  BY DEF Happens, Change, Covered, CalmInv, TableInv, WalkShape
<1>2. Heads = {} /\ Heads' = {} /\ walk.by = "nobody" /\ walk'.by = "nobody"
  BY <1>1 DEF NoWalk, Heads
<1>3. \A x : Walked(x) /\ Walked(x)'
  BY <1>2 DEF Walked
<1>4. \A x : (Entry(x)' <=> Entry(x)) /\ (NoneUnder(x)' <=> NoneUnder(x))
  BY <1>1 DEF Entry, NoneUnder
<1>5. \A x : (Below(x)' <=> Below(x)) /\ (Top(x)' <=> Top(x)) /\ (UnderRoot(x)' <=> UnderRoot(x))
  BY <1>1 DEF Below, Top, UnderRoot
<1>6. \A x : (IsIgnored(x)' <=> IsIgnored(x)) /\ (Own(x)' <=> Own(x))
  BY <1>1 DEF IsIgnored, Own
<1>7. \A i, x, k : At(i, x, k) => At(i, x, k)'
  BY DEF Happens, Change
<1> QED
  BY <1>2, <1>3, <1>4, <1>5, <1>6, <1>7

LEMMA ChangeKeepsSure ==
  ASSUME NEW p, NEW gone, NEW born, NEW m, NEW n, Happens(p, gone, born, m, n),
         NEW x \in Path
  PROVE  /\ Sure(x) /\ (\A g \in gone \cup born : ~Under(x, g)) => Sure(x)'
         /\ SureAbove(x) /\ (\A g \in gone \cup born : Under(x, g) => x = g) => SureAbove(x)'
<1>1. ASSUME NEW y \in Path, Told(y)', ~Told(y), Sure(Front(y))
      PROVE  y \in gone \cup born
  <2>1. PICK i \in Nat, k \in {"in", "out"} : At(i, y, k)' /\ ~At(i, y, k)
    BY <1>1 DEF Told
  <2> QED
    BY <1>1, <2>1, ChangeSees DEF Happens
<1>2. ASSUME NEW y \in Path, Told(y)', ~Told(y)
      PROVE  y # <<>> /\ Under(y, Front(y)) /\ Front(y) # y /\ Front(y) \in Path
  <2>1. PICK i \in Nat, k \in {"in", "out"} : At(i, y, k)' /\ ~At(i, y, k)
    BY <1>2 DEF Told
  <2>2. y # <<>>
    BY <2>1, ChangeSees DEF Happens
  <2> QED
    BY <2>2, FrontIs
<1>3. ASSUME Sure(x), \A g \in gone \cup born : ~Under(x, g), NEW y \in Path, Told(y)', Under(x, y)
      PROVE  FALSE
  <2>1. ~Told(y)
    BY <1>3 DEF Sure
  <2>2. Under(x, Front(y)) /\ Front(y) \in Path
    BY <1>2, <1>3, <2>1, UnderTrans
  <2>3. Sure(Front(y))
    BY <1>3, <2>2, SureUp
  <2> QED
    BY <1>1, <1>3, <2>1, <2>3
<1>4. ASSUME SureAbove(x), \A g \in gone \cup born : Under(x, g) => x = g,
             NEW y \in Path, Told(y)', Under(x, y), x # y
      PROVE  FALSE
  <2>1. ~Told(y)
    BY <1>4 DEF SureAbove
  <2>2. Under(x, Front(y)) /\ Front(y) \in Path /\ Front(y) # x
    BY <1>2, <1>4, <2>1, UnderTrans, UnderBoth
  <2>3. Sure(Front(y))
    BY <1>4, <2>2, SureAboveUp
  <2> QED
    BY <1>1, <1>4, <2>1, <2>3
<1>5. Sure(x) /\ (\A g \in gone \cup born : ~Under(x, g)) => Sure(x)'
  BY <1>3 DEF Sure
<1>6. SureAbove(x) /\ (\A g \in gone \cup born : Under(x, g) => x = g) => SureAbove(x)'
  BY <1>4 DEF SureAbove
<1> QED
  BY <1>5, <1>6

\* Where nothing else is ahead, the reader is told when a directory comes or goes.
LEMMA RealChanges ==
  ASSUME NEW p, NEW gone, NEW born, NEW m, NEW n, Happens(p, gone, born, m, n),
         NEW x \in Path, x # <<>>, Below(x), SureAbove(x)', ~IsIgnored(Front(x))
  PROVE  /\ Real(x) /\ ~Real(x)' => x \in gone /\ At(m, x, "out")' /\ Told(x)'
         /\ Real(x)' /\ ~Real(x) => x \in born /\ At(n, x, "in")' /\ Told(x)'
         /\ Sure(x)' => (Real(x)' <=> Real(x))
<1>0. Covered /\ CalmInv' /\ p \in Path /\ Change(p, gone, born, m, n) /\ Inherits(gone, born)
  BY DEF Happens
<1>1. SureAbove(x) /\ Sure(Front(x)) /\ Front(x) \in Path
  BY <1>0, ChangeSees, SureFront
<1>2. ASSUME NEW g \in gone \cup born, Under(x, g), UnderRoot(p), Real(p), p \in Dir
      PROVE  /\ x = g
             /\ g \in gone => At(m, x, "out")' /\ Told(x)'
             /\ g \in born => At(n, x, "in")' /\ Told(x)'
             /\ ~Sure(x)'
  <2>1. Under(Front(x), p) /\ g \in Path
    BY <1>0, <1>2, ChangeFamily
  <2>2. Sure(p) /\ ~IsIgnored(p)
    BY <1>0, <1>1, <2>1, SureUp, IgnoredBelow
  <2>3. /\ g \in gone => At(m, g, "out")' /\ Told(g)'
        /\ g \in born => At(n, g, "in")' /\ Told(g)'
    BY <1>0, <1>2, <2>2, ChangeTells
  <2>4. x = g
    BY <1>2, <2>1, <2>3 DEF SureAbove
  <2> QED
    BY <1>2, <2>1, <2>3, <2>4 DEF Sure
<1>3. ASSUME Real(x), ~Real(x)' PROVE x \in gone /\ At(m, x, "out")' /\ Told(x)' /\ ~Sure(x)'
  <2>1. PICK a \in gone : Under(x, a) /\ UnderRoot(p) /\ Real(p) /\ p \in Dir
    BY <1>0, <1>3, ChangeReal
  <2> QED
    BY <1>2, <2>1
<1>4. ASSUME Real(x)', ~Real(x) PROVE x \in born /\ At(n, x, "in")' /\ Told(x)' /\ ~Sure(x)'
  <2>1. PICK b \in born : Under(x, b) /\ UnderRoot(p) /\ Real(p) /\ p \in Dir
    BY <1>0, <1>4, ChangeReal
  <2> QED
    BY <1>2, <2>1
<1> QED
  BY <1>3, <1>4

LEMMA FrontWanted ==
  ASSUME NEW x \in Path, x # <<>>, ~IsIgnored(x)
  PROVE  ~IsIgnored(Front(x))
BY FrontIs, IgnoredBelow

LEMMA BelowPath ==
  ASSUME CalmInv, NEW x \in Path, Below(x)
  PROVE  x # <<>>
<1>1. PICK r \in roots : Under(x, r) /\ r # x
  BY DEF Below
<1> QED
  BY <1>1, RootsAre, FrontUnder

LEMMA ChangeWatches ==
  ASSUME NEW p, NEW gone, NEW born, NEW m, NEW n, Happens(p, gone, born, m, n)
  PROVE  SureWatches'
<1>0. Covered /\ CalmInv' /\ p \in Path /\ Change(p, gone, born, m, n) /\ Inherits(gone, born)
  BY DEF Happens
<1> SUFFICES ASSUME NEW d \in Dir, Sure(d)', Entry(d)'
             PROVE  Own(d)' /\ (Live(d)' \/ (Top(d)' /\ kino'[watches'[d]] = Absent))
  BY SameView DEF SureWatches
<1>1. /\ d \in Path /\ d # <<>> /\ Sure(d) /\ Entry(d) /\ Walked(d) /\ UNCHANGED watches
      /\ watches[d] \in Wd
  <2>1. d \in Path /\ d # <<>> /\ Entry(d) /\ Walked(d) /\ UNCHANGED watches
    BY <1>0, DirIsPath, SameView DEF Change
  <2>2. Sure(d)
    BY <1>0, <2>1, ChangeSees
  <2>3. watches[d] \in Wd
    BY <1>0, <2>1, TypeFacts DEF Entry, Covered, CalmInv, BaseInv
  <2> QED
    BY <2>1, <2>2, <2>3
<1>2. Own(d)' /\ (Live(d) \/ (Top(d) /\ kino[watches[d]] = Absent))
  BY <1>0, <1>1, SameView DEF Covered, CoverInv, SureWatches
<1>3. CASE Top(d) /\ kino[watches[d]] = Absent
  BY <1>1, <1>2, <1>3, SameView DEF Happens, Inherits
<1>4. CASE Live(d)
  <2>1. Exists(d) /\ kino[watches[d]] = ino[d] /\ ~IsIgnored(d) /\ UnderRoot(d)
    BY <1>1, <1>4 DEF Live, Entry, Covered, CalmInv, Happens, TableInv, EntriesWanted
  <2>2. CASE \A a \in gone : ~Under(d, a)
    <3>1. \A b \in born : ~Under(d, b)
      BY <1>0, <2>1 DEF Change
    <3>2. ino'[d] = ino[d]
      BY <1>0, <2>2, <3>1 DEF Change
    <3>3. kino'[watches[d]] = kino[watches[d]]
      <4> SUFFICES ASSUME NEW a \in gone, kino[watches[d]] = ino[a] PROVE FALSE
        BY <1>0, <1>1 DEF Inherits
      <4>1. a \in Dir /\ ino[a] = ino[d]
        BY <1>0, <2>1 DEF Change
      <4>2. a = d
        BY <1>0, <2>1, <4>1 DEF Covered, CalmInv, BaseInv, TreeInv, Inodes
      <4> QED
        BY <1>1, <2>2, <4>2, UnderSelf
    <3> QED
      BY <1>1, <1>2, <2>1, <3>2, <3>3 DEF Live, Entry, Exists
  <2>3. ASSUME NEW a \in gone, Under(d, a) PROVE Top(d) /\ kino'[watches[d]] = Absent
    <3>1. ~Exists(d)' /\ ~Real(d)'
      BY <1>0, <2>3 DEF Change, Real
    <3>2. ~Below(d)
      <4> SUFFICES ASSUME Below(d) PROVE FALSE
        OBVIOUS
      <4>1. Real(d)
        BY <1>0, <1>1, <1>4, EntryReal
      <4>2. SureAbove(d)' /\ ~IsIgnored(Front(d))
        BY <1>1, <2>1, FrontWanted DEF Sure, SureAbove
      <4> QED
        BY <1>1, <3>1, <4>1, <4>2, RealChanges
    <3>3. Top(d) /\ d \in roots
      BY <1>0, <1>1, <2>1, <3>2, BelowIs, UnderSelf DEF Covered, Top
    <3>4. \A x \in Dir : Under(x, a) /\ Exists(x) => x = a
      BY <1>0, <2>3, <3>3 DEF Inherits
    <3>5. d = a
      BY <2>1, <2>3, <3>4
    <3> QED
      BY <1>0, <1>1, <2>1, <2>3, <3>3, <3>5 DEF Inherits
  <2> QED
    BY <1>1, <1>2, <2>2, <2>3, SameView
<1> QED
  BY <1>2, <1>3, <1>4

LEMMA ChangeComplete ==
  ASSUME NEW p, NEW gone, NEW born, NEW m, NEW n, Happens(p, gone, born, m, n)
  PROVE  Complete' /\ NothingYet' /\ ParentsKnown'
<1>0. Covered /\ CalmInv' /\ p \in Path /\ Change(p, gone, born, m, n) /\ Inherits(gone, born)
  BY DEF Happens
<1>1. Complete'
  <2> SUFFICES ASSUME NEW d \in Dir, Sure(d)', Below(d)
               PROVE  /\ Real(d)' /\ ~IsIgnored(d) => Entry(d)
                      /\ ~Real(d)' \/ IsIgnored(d) => NoneUnder(d)
    BY SameView DEF Complete
  <2>1. /\ d \in Path /\ d # <<>>
        /\ Real(d) /\ ~IsIgnored(d) => Entry(d)
        /\ ~Real(d) \/ IsIgnored(d) => NoneUnder(d)
    BY <1>0, DirIsPath, SameView, ChangeSees DEF Covered, CoverInv, Complete
  <2>2. CASE ~IsIgnored(d)
    <3>1. SureAbove(d)' /\ ~IsIgnored(Front(d))
      BY <2>1, <2>2, FrontWanted DEF Sure, SureAbove
    <3>2. Real(d)' <=> Real(d)
      BY <2>1, <3>1, RealChanges
    <3> QED
      BY <2>1, <3>2
  <2> QED
    BY <2>1, <2>2
<1>2. NothingYet'
  <2> SUFFICES ASSUME NEW d \in Path, SureAbove(d)', Below(d), FirstIn(d)' PROVE NoneUnder(d)
    BY SameView DEF NothingYet
  <2>1. SureAbove(d) /\ (FirstIn(d) => NoneUnder(d))
    BY <1>0, ChangeSees DEF Covered, CoverInv, NothingYet
  <2>2. PICK i \in Nat : At(i, d, "in")' /\ \A k \in Nat : At(k, d, "out")' => i < k
    BY DEF FirstIn
  <2>3. \A k \in Nat : At(k, d, "out") => i < k
    BY <2>2, SameView
  <2>4. CASE At(i, d, "in")
    BY <2>1, <2>3, <2>4 DEF FirstIn
  <2>5. CASE ~At(i, d, "in")
    <3>1. d # <<>>
      BY <1>0, BelowPath DEF Covered
    <3>2. Sure(Front(d))
      BY <2>1, <3>1, SureFront
    <3>3. i = n /\ d \in born
      BY <1>0, <2>2, <2>5, <3>2, ChangeSees
    <3>4. ASSUME NEW k \in Nat, At(k, d, "out") PROVE FALSE
      <4>1. k < n /\ n \in Nat
        BY <1>0, <3>4 DEF Change
      <4>2. i < k
        BY <2>3, <3>4
      <4> QED
        BY <3>3, <4>1, <4>2
    <3>5. CASE \E j \in Nat : At(j, d, "in")
      BY <2>1, <3>4, <3>5 DEF FirstIn
    <3>6. CASE ~\E j \in Nat : At(j, d, "in")
      <4>1. Sure(d)
        BY <2>1, <3>4, <3>6, SureIs DEF Told
      <4>2. d \in Dir /\ ~Real(d)
        BY <1>0, <3>3, DirIsPath, UnderSelf DEF Change, Real
      <4> QED
        BY <1>0, <4>1, <4>2, SameView DEF Covered, CoverInv, Complete
    <3> QED
      BY <3>5, <3>6
  <2> QED
    BY <2>4, <2>5
<1>3. ParentsKnown'
  <2>1. rest' = rest /\ \A q \in rest : Entry(Front(q))
    BY <1>0 DEF Change, Covered, CoverInv, ParentsKnown
  <2> QED
    BY <2>1, SameView DEF ParentsKnown
<1> QED
  BY <1>1, <1>2, <1>3

LEMMA ChangeAlternates ==
  ASSUME NEW p, NEW gone, NEW born, NEW m, NEW n, Happens(p, gone, born, m, n)
  PROVE  Alternate' /\ LastTells'
<1>0. Covered /\ CalmInv' /\ p \in Path /\ Change(p, gone, born, m, n) /\ Inherits(gone, born)
  BY DEF Happens
<1>1. /\ m \in Nat /\ n \in Nat /\ \A i, x, k : At(i, x, k) => i < m /\ i < n
      /\ \A x \in gone : ~Exists(x)' /\ x \in Dir
      /\ \A x \in born : Exists(x)' /\ ~Exists(x) /\ x \in Dir
  BY <1>0, DirIsPath, UnderSelf DEF Change
<1>2. ASSUME NEW d \in Path, SureAbove(d)', NEW i, NEW k, At(i, d, k)', ~At(i, d, k)
      PROVE  /\ Src(p) = p /\ Heard(p) /\ d # <<>> /\ Front(d) = p
             /\ \/ k = "out" /\ i = m /\ d \in gone
                \/ k = "in" /\ i = n /\ d \in born
  <2>1. d # <<>> /\ Front(d) = Src(p) /\ Heard(p)
    BY <1>0, <1>2, ChangeSees
  <2>2. Sure(Front(d))
    BY <1>0, <1>2, <2>1, ChangeSees, SureFront
  <2> QED
    BY <1>0, <1>2, <2>1, <2>2, ChangeSees
<1>3. Alternate'
  <2> SUFFICES ASSUME NEW d \in Path, SureAbove(d)', NEW i \in Nat, NEW j \in Nat,
                      At(i, d, "in")', At(j, d, "in")', i < j
               PROVE  \E k \in Nat : i < k /\ k < j /\ At(k, d, "out")'
    BY DEF Alternate
  <2>1. SureAbove(d)
    BY <1>0, ChangeSees
  <2>2. CASE At(i, d, "in") /\ At(j, d, "in")
    BY <1>0, <2>1, <2>2, SameView DEF Covered, CoverInv, Alternate
  <2>3. CASE ~At(j, d, "in")
    <3>1. j = n /\ d \in born
      BY <1>2, <2>3
    <3>2. At(i, d, "in")
      <4> SUFFICES ASSUME ~At(i, d, "in") PROVE FALSE
        OBVIOUS
      <4>1. i = n
        BY <1>2
      <4> QED
        BY <3>1, <4>1
    <3>3. Below(d) /\ ~Real(d)
      BY <1>0, <1>1, <3>1, <3>2, TellsAbout DEF Covered, CoverInv, Real
    <3>4. PICK k \in Nat : i < k /\ At(k, d, "out")
      BY <1>0, <2>1, <3>2, <3>3 DEF Covered, CoverInv, LastTells
    <3> QED
      BY <1>1, <3>1, <3>4, SameView
  <2>4. CASE ~At(i, d, "in") /\ At(j, d, "in")
    <3>1. i = n /\ j < n
      BY <1>1, <1>2, <2>4
    <3> QED
      BY <1>1, <3>1
  <2> QED
    BY <2>2, <2>3, <2>4
<1>4. LastTells'
  <2> SUFFICES ASSUME NEW d \in Path, SureAbove(d)', Below(d), NEW i \in Nat
               PROVE  /\ At(i, d, "in")' /\ ~Real(d)' => \E k \in Nat : i < k /\ At(k, d, "out")'
                      /\ At(i, d, "out")' /\ Real(d)' => \E k \in Nat : i < k /\ At(k, d, "in")'
    BY SameView DEF LastTells
  <2>1. /\ SureAbove(d) /\ d # <<>>
        /\ At(i, d, "in") /\ ~Real(d) => \E k \in Nat : i < k /\ At(k, d, "out")
        /\ At(i, d, "out") /\ Real(d) => \E k \in Nat : i < k /\ At(k, d, "in")
    BY <1>0, ChangeSees, BelowPath DEF Covered, CoverInv, LastTells
  <2>2. ASSUME NEW k, At(i, d, k)
        PROVE  /\ Real(d) /\ ~Real(d)' => At(m, d, "out")' /\ i < m
               /\ Real(d)' /\ ~Real(d) => At(n, d, "in")' /\ i < n
    <3>1. ~IsIgnored(Front(d))
      BY <1>0, <2>2, TellsAbout DEF Covered, CoverInv
    <3> QED
      BY <1>1, <2>1, <2>2, <3>1, RealChanges
  <2>3. ASSUME At(i, d, "in")', ~Real(d)' PROVE \E k \in Nat : i < k /\ At(k, d, "out")'
    <3>1. CASE At(i, d, "in")
      BY <1>1, <2>1, <2>2, <2>3, <3>1, SameView
    <3>2. CASE ~At(i, d, "in")
      <4>1. Src(p) = p /\ Heard(p) /\ Front(d) = p /\ d \in born
        BY <1>2, <2>3, <3>2
      <4>2. Sure(p) /\ Under(d, p)
        BY <2>1, <4>1, SureFront
      <4>3. Entry(p) /\ Live(p) /\ p \in Dir
        BY <1>0, <4>1, SourceIs DEF Live
      <4>4. Real(p) /\ UnderRoot(p)
        BY <1>0, <4>2, <4>3, EntryReal, SameView
      <4>5. TopLive(d)
        BY <1>0, <4>2, <4>4, SameTops DEF Covered, Real
      <4>6. Exists(d)'
        BY <1>1, <4>1
      <4>7. TopLive(d)'
        BY <1>0, <4>5, <4>6, ChangeReal
      <4> QED
        BY <2>3, <4>6, <4>7 DEF Real
    <3> QED
      BY <3>1, <3>2
  <2>4. ASSUME At(i, d, "out")', Real(d)' PROVE \E k \in Nat : i < k /\ At(k, d, "in")'
    <3>1. CASE At(i, d, "out")
      BY <1>1, <2>1, <2>2, <2>4, <3>1, SameView
    <3>2. CASE ~At(i, d, "out")
      <4>1. d \in gone
        BY <1>2, <2>4, <3>2
      <4> QED
        BY <1>1, <2>4, <4>1 DEF Real
    <3> QED
      BY <3>1, <3>2
  <2> QED
    BY <2>3, <2>4
<1> QED
  BY <1>3, <1>4

LEMMA ChangeRoots ==
  ASSUME NEW p, NEW gone, NEW born, NEW m, NEW n, Happens(p, gone, born, m, n)
  PROVE  HeadsTold' /\ HeadsReal' /\ FirstWalk' /\ LaterWalk' /\ RootsKept'
<1>0. Covered /\ CalmInv' /\ p \in Path /\ Change(p, gone, born, m, n) /\ Inherits(gone, born)
  BY DEF Happens
<1>1. HeadsTold' /\ HeadsReal' /\ FirstWalk' /\ LaterWalk'
  BY SameView DEF HeadsTold, HeadsReal, FirstWalk, LaterWalk
<1>2. ASSUME NEW r \in roots, Top(r), ~IsIgnored(r), NEW f \in roots \ host.mutable, Under(f, r)
      PROVE  Live(r)'
  <2>1. Live(r) /\ r \in Dir /\ r \in Path /\ f \in Dir
    BY <1>0, <1>2, SameView, RootsAre DEF Covered, CoverInv, RootsKept
  <2>2. UNCHANGED <<roots, host>>
    BY <1>0 DEF Change
  <2>3. roots # {}
    OBVIOUS
  <2>4. Exists(f)'
    <3>1. roots \in host.rootSets
      BY <1>0, <2>3 DEF Covered, CalmInv, TableInv, FirstCall
    <3> QED
      BY <1>0, <2>2, <3>1 DEF CalmInv, BaseInv, TreeInv, FirmRoots
  <2>5. Exists(r)'
    BY <1>0, <1>2, <2>1, <2>4 DEF CalmInv, BaseInv, TreeInv, TreeClosed
  <2>6. TopLive(r)
    BY <1>2, <2>1, UnderSelf DEF TopLive
  <2>7. TopLive(r)'
    BY <1>0, <2>1, <2>5, <2>6, ChangeReal
  <2>8. PICK s \in roots : Under(r, s) /\ Live(s)'
    BY <2>2, <2>7 DEF TopLive
  <2>9. s = r
    BY <1>2, <2>8 DEF Top, Below
  <2> QED
    BY <2>8, <2>9
<1>3. UNCHANGED <<roots, host>>
  BY <1>0 DEF Change
<1>4. RootsKept'
  BY <1>2, <1>3, SameView DEF RootsKept
<1> QED
  BY <1>1, <1>4

LEMMA ChangeKept ==
  ASSUME NEW p, NEW gone, NEW born, NEW m, NEW n, Happens(p, gone, born, m, n),
         NEW w \in Wd, NEW d \in Dir, kino[w] # Absent, ino[d] = kino[w], UnderRoot(d), Kept(w, d),
         \A a \in gone : ~Under(d, a)
  PROVE  ino'[d] = ino[d] /\ Kept(w, d)'
<1>0. Covered /\ CalmInv' /\ p \in Path /\ Change(p, gone, born, m, n) /\ Inherits(gone, born)
  BY DEF Happens
<1>1. UNCHANGED watches /\ d \in Path /\ \A b \in born : ~Under(d, b)
  BY <1>0, DirIsPath DEF Change, Exists
<1>2. ino'[d] = ino[d]
  BY <1>0, <1>1 DEF Change
<1>3. ASSUME NEW z \in Path, Under(d, z), SureAbove(z) PROVE SureAbove(z)'
  <2>1. ASSUME NEW g \in gone \cup born, Under(z, g) PROVE FALSE
    BY <1>0, <1>1, <1>3, <2>1, ChangeFamily, UnderTrans
  <2> QED
    BY <1>3, <2>1, ChangeKeepsSure
<1>4. CASE watches[d] = w /\ Sure(d)
  <2>1. Sure(d)'
    BY <1>1, <1>4, ChangeKeepsSure
  <2> QED
    BY <1>1, <1>2, <1>4, <2>1 DEF Kept
<1>5. ASSUME NEW c \in Dir, NEW q \in Path, NEW j \in Nat, Doomed(w, d, c, q, j)
      PROVE  Kept(w, d)'
  <2>1. watches[c] = w /\ Under(c, q) /\ Below(q) /\ SureAbove(q) /\ At(j, q, "out")
        /\ Under(d, Front(q))
    BY <1>5 DEF Doomed
  <2>2. q # <<>> /\ Front(q) \in Path /\ Under(q, Front(q)) /\ q # Front(q)
    BY <1>0, <2>1, BelowPath, FrontIs DEF Covered
  <2>3. SureAbove(q)'
    <3>1. ASSUME NEW g \in gone \cup born, Under(q, g), q # g PROVE FALSE
      <4>1. g \in Path /\ Under(Front(q), g)
        BY <1>0, <3>1, ChangeFamily, FrontUnder
      <4>2. Under(d, g)
        BY <1>1, <2>1, <2>2, <4>1, UnderTrans
      <4> QED
        BY <1>1, <4>2
    <3> QED
      BY <2>1, <3>1, ChangeKeepsSure
  <2>4. ASSUME TopLive(d)'
        PROVE  \E z \in Path, i \in Nat :
                 i > j /\ Under(d, z) /\ Below(z)' /\ SureAbove(z)' /\ At(i, z, "in")'
    <3>1. TopLive(d)
      BY <1>0, <1>1, <2>4, ChangeReal
    <3>2. PICK z \in Path, i \in Nat :
            i > j /\ Under(d, z) /\ Below(z) /\ SureAbove(z) /\ At(i, z, "in")
      BY <1>5, <3>1 DEF Doomed
    <3> QED
      BY <1>3, <3>2, SameView
  <2>5. Doomed(w, d, c, q, j)'
    BY <1>1, <2>1, <2>3, <2>4, SameView DEF Doomed
  <2> QED
    BY <1>2, <2>5 DEF Kept
<1> QED
  BY <1>2, <1>4, <1>5 DEF Kept

\* Where a directory moves to, and why its watch is not forgotten.
LEMMA ChangeMoves ==
  ASSUME NEW p, NEW gone, NEW born, NEW m, NEW n, Happens(p, gone, born, m, n),
         NEW w \in Wd, NEW d \in Dir, kino[w] # Absent, ino[d] = kino[w], UnderRoot(d), Kept(w, d),
         NEW a \in gone, Under(d, a), \A r \in roots : ~Under(r, a),
         NEW e \in Dir, NEW b \in born, Under(e, b)
  PROVE  UnderRoot(e) /\ Kept(w, e)'
<1>0. Covered /\ CalmInv' /\ p \in Path /\ Change(p, gone, born, m, n) /\ Inherits(gone, born)
  BY DEF Happens
<1>1. /\ UNCHANGED watches /\ d \in Path /\ e \in Path /\ Exists(d) /\ ~Exists(d)' /\ Exists(a)
      /\ a \in Dir /\ a \in Path /\ b \in Path /\ m \in Nat /\ n \in Nat /\ m < n
      /\ \A i, x, k : At(i, x, k) => i < m /\ i < n
  BY <1>0, DirIsPath DEF Change, Exists
<1>2. /\ Under(d, p) /\ Under(e, p) /\ d # p /\ Under(a, p) /\ Under(b, p) /\ a # p /\ b # p
      /\ Front(a) = p /\ ~Under(p, a) /\ ~Under(p, b) /\ a # <<>> /\ b # <<>>
  BY <1>0, <1>1, ChangeFamily
<1>3. /\ UnderRoot(p) /\ UnderRoot(e) /\ Below(a) /\ Below(b) /\ Below(d) /\ p # <<>> /\ p \in Dir
      /\ Exists(p)
  <2>1. PICK r \in roots : Under(d, r)
    BY DEF UnderRoot
  <2>2. r \in Path /\ r # <<>> /\ Under(a, r)
    BY <1>0, <1>1, <2>1, RootsAre, DirIsPath, UnderChain DEF Covered
  <2>3. Under(p, r)
    BY <1>0, <2>2, ChangeFamily
  <2>4. p # <<>>
    BY <1>0, <2>2, <2>3, FrontUnder
  <2>5. p \in Dir /\ Exists(p)
    BY <1>0, <1>1, <1>2, <2>4, DirPrefix DEF Covered, CalmInv, BaseInv, TreeInv, TreeClosed
  <2> QED
    BY <1>0, <1>1, <1>2, <2>3, <2>4, <2>5, BelowIs DEF Covered, UnderRoot
<1>4. TopLive(e)' => TopLive(d) /\ TopLive(p)
  BY <1>0, <1>1, <1>2, <1>3, SameTops, ChangeReal DEF Covered
<1>5. ASSUME NEW x \in Path, SureAbove(x),
             Under(p, x) \/ x \in gone \cup born \/ Under(p, Front(x))
      PROVE  SureAbove(x)'
  <2>1. ASSUME NEW g \in gone \cup born, Under(x, g), x # g PROVE FALSE
    <3>1. g \in Path /\ ~Under(p, g) /\ g # <<>> /\ Front(g) = p
      BY <1>0, ChangeFamily
    <3>2. x # <<>> /\ Under(Front(x), g) /\ Front(x) \in Path
      BY <2>1, <3>1, FrontUnder, FrontIs
    <3>3. CASE Under(p, x)
      BY <1>0, <2>1, <3>1, <3>3, UnderTrans
    <3>4. CASE x \in gone \cup born
      BY <1>0, <2>1, <3>1, <3>2, <3>4, ChangeFamily
    <3>5. CASE Under(p, Front(x))
      BY <1>0, <3>1, <3>2, <3>5, UnderTrans
    <3> QED
      BY <1>5, <3>3, <3>4, <3>5
  <2> QED
    BY <1>5, <2>1, ChangeKeepsSure
<1>6. ASSUME Sure(p), Real(p), ~IsIgnored(p)
      PROVE  /\ SureAbove(a)' /\ SureAbove(b)' /\ At(m, a, "out")' /\ At(n, b, "in")'
             /\ Below(a)' /\ Below(b)' /\ Under(e, Front(a))
  <2>1. At(m, a, "out")' /\ At(n, b, "in")'
    BY <1>0, <1>3, <1>6, ChangeTells
  <2>2. SureAbove(a) /\ SureAbove(b)
    <3>1. \A x \in Path : Under(a, x) /\ x # a => Under(p, x)
      BY <1>1, <1>2, FrontUnder
    <3>2. \A x \in Path : Under(b, x) /\ x # b => Under(p, x)
      BY <1>0, <1>1, <1>2, FrontUnder, ChangeFamily
    <3> QED
      BY <1>6, <3>1, <3>2 DEF Sure, SureAbove
  <2>3. SureAbove(a)' /\ SureAbove(b)'
    <3>1. a \in gone \cup born /\ b \in gone \cup born
      OBVIOUS
    <3> QED
      BY <1>1, <1>5, <2>2, <3>1
  <2> QED
    BY <1>2, <1>3, <2>1, <2>3, SameView
<1>7. ASSUME NEW c \in Dir, watches[c] = w, Under(c, a), Sure(p), Real(p), ~IsIgnored(p)
      PROVE  Kept(w, e)'
  <2>1. Doomed(w, e, c, a, m)'
    BY <1>1, <1>6, <1>7 DEF Doomed
  <2> QED
    BY <1>1, <2>1 DEF Kept
<1>8. CASE watches[d] = w /\ Sure(d)
  <2>1. Entry(d) /\ Live(d)
    BY <1>1, <1>8, NoWdIsNone DEF Entry, Live
  <2>2. Real(d) /\ ~IsIgnored(d)
    BY <1>0, <1>8, <2>1, EntryReal, SameView
  <2>3. Sure(p) /\ Real(p) /\ ~IsIgnored(p)
    BY <1>0, <1>1, <1>2, <1>3, <1>8, <2>2, SureUp, SameTops, IgnoredBelow DEF Covered, Real
  <2> QED
    BY <1>3, <1>7, <1>8, <2>3
<1>9. ASSUME NEW c \in Dir, NEW q \in Path, NEW j \in Nat, Doomed(w, d, c, q, j)
      PROVE  Kept(w, e)'
  <2>1. /\ watches[c] = w /\ Under(c, q) /\ Below(q) /\ SureAbove(q) /\ At(j, q, "out")
        /\ Under(d, Front(q))
    BY <1>9 DEF Doomed
  <2>2. /\ q # <<>> /\ Front(q) \in Path /\ Front(q) \in Dir /\ Entry(Front(q)) /\ Sure(Front(q))
        /\ ~IsIgnored(Front(q)) /\ UnderRoot(Front(q)) /\ Under(q, Front(q)) /\ q # Front(q)
    BY <1>0, <2>1, TellsAbout, SureFront DEF Covered, CoverInv
  <2>3. CASE Under(Front(q), a)
    <3>1. Under(q, a) /\ Under(c, a) /\ Under(Front(q), p)
      BY <1>0, <1>1, <2>1, <2>2, <2>3, UnderTrans, DirIsPath, ChangeFamily
    <3>2. Live(Front(q))
      <4>1. ~Top(Front(q))
        BY <2>3 DEF Top
      <4> QED
        BY <1>0, <2>2, <4>1 DEF Covered, CoverInv, SureWatches
    <3>3. Real(Front(q))
      BY <1>0, <2>2, <3>2, EntryReal, SameView
    <3>4. Sure(p) /\ Real(p) /\ ~IsIgnored(p)
      BY <1>0, <1>3, <2>2, <3>1, <3>3, SureUp, SameTops, IgnoredBelow DEF Covered, Real
    <3> QED
      BY <1>3, <1>7, <2>1, <3>1, <3>4
  <2>4. CASE ~Under(Front(q), a)
    <3>1. Under(a, Front(q)) /\ Front(q) # a
      BY <1>1, <2>1, <2>2, <2>4, UnderChain, UnderSelf
    <3>2. Under(p, Front(q))
      BY <1>1, <1>2, <2>2, <3>1, FrontUnder
    <3>3. Under(e, Front(q)) /\ SureAbove(q)' /\ At(j, q, "out")'
      BY <1>0, <1>1, <1>2, <1>5, <2>1, <2>2, <3>2, UnderTrans, SameView
    <3>4. ASSUME TopLive(e)'
          PROVE  \E z \in Path, i \in Nat :
                   i > j /\ Under(e, z) /\ Below(z)' /\ SureAbove(z)' /\ At(i, z, "in")'
      <4>1. PICK z \in Path, i \in Nat :
              i > j /\ Under(d, z) /\ Below(z) /\ SureAbove(z) /\ At(i, z, "in")
        BY <1>4, <1>9, <3>4 DEF Doomed
      <4>2. CASE Under(z, a)
        <5>1. z # <<>> /\ Sure(Front(z)) /\ ~IsIgnored(Front(z)) /\ Front(z) \in Path
          BY <1>0, <4>1, TellsAbout, SureFront DEF Covered, CoverInv
        <5>2. Under(Front(z), p)
          BY <1>0, <4>2, ChangeFamily
        <5>3. Sure(p) /\ ~IsIgnored(p) /\ Real(p)
          BY <1>0, <1>3, <1>4, <3>4, <5>1, <5>2, SureUp, IgnoredBelow DEF Real
        <5>4. n > j
          BY <1>1, <2>1
        <5> QED
          BY <1>1, <1>6, <5>3, <5>4
      <4>3. CASE ~Under(z, a)
        <5>1. Under(a, z) /\ a # z
          BY <1>1, <4>1, <4>3, UnderChain, UnderSelf
        <5>2. Under(p, z)
          BY <1>1, <1>2, <5>1, FrontUnder
        <5>3. Under(e, z) /\ SureAbove(z)' /\ Below(z)' /\ At(i, z, "in")'
          <6>1. Under(e, z)
            BY <1>0, <1>1, <1>2, <4>1, <5>2, UnderTrans
          <6>2. SureAbove(z)'
            BY <1>5, <4>1, <5>2
          <6> QED
            BY <4>1, <6>1, <6>2, SameView
        <5> QED
          BY <4>1, <5>3
      <4> QED
        BY <4>2, <4>3
    <3>5. Doomed(w, e, c, q, j)'
      BY <1>1, <2>1, <3>3, <3>4, SameView DEF Doomed
    <3> QED
      BY <3>5 DEF Kept
  <2> QED
    BY <2>3, <2>4
<1>10. Kept(w, e)'
  BY <1>8, <1>9 DEF Kept
<1> QED
  BY <1>3, <1>10

LEMMA ChangeCovered ==
  ASSUME NEW p, NEW gone, NEW born, NEW m, NEW n, Happens(p, gone, born, m, n)
  PROVE  CoverInv'
<1>0. Covered /\ CalmInv' /\ p \in Path /\ Change(p, gone, born, m, n) /\ Inherits(gone, born)
  BY DEF Happens
<1>1. ASSUME NEW w \in Wd, kino'[w] # Absent
      PROVE  \E d \in Dir : ino'[d] = kino'[w] /\ UnderRoot(d) /\ Kept(w, d)'
  <2>1. kino'[w] = kino[w]
    BY <1>0, <1>1 DEF Inherits
  <2>2. PICK d \in Dir : ino[d] = kino[w] /\ UnderRoot(d) /\ Kept(w, d)
    BY <1>0, <1>1, <2>1 DEF Covered, CoverInv, WatchesKept
  <2>3. CASE \A a \in gone : ~Under(d, a)
    BY <1>1, <2>1, <2>2, <2>3, ChangeKept
  <2>4. ASSUME NEW a \in gone, Under(d, a)
        PROVE  \E e \in Dir : ino'[e] = kino'[w] /\ UnderRoot(e) /\ Kept(w, e)'
    <3>1. /\ \A r \in roots : ~Under(r, a)
          /\ \E x \in Dir, b \in born : ino'[x] = kino[w] /\ Under(x, b)
      BY <1>0, <1>1, <2>2, <2>4 DEF Inherits
    <3>2. PICK x \in Dir, b \in born : ino'[x] = kino[w] /\ Under(x, b)
      BY <3>1
    <3>3. UnderRoot(x) /\ Kept(w, x)'
      BY <1>1, <2>1, <2>2, <2>4, <3>1, <3>2, ChangeMoves
    <3> QED
      BY <2>1, <3>2, <3>3
  <2> QED
    BY <2>3, <2>4
<1>2. WatchesKept'
  BY <1>1, SameView DEF WatchesKept
<1> QED
  BY <1>2, ChangeWatches, ChangeComplete, ChangeAlternates, ChangeRoots DEF CoverInv

\* The events ahead, when only the queue changes.
LEMMA QueueTells ==
  ASSUME NEW q, queue' = q, UNCHANGED <<kpath, rest>>
  PROVE  \A i, x, k : At(i, x, k)' <=> (i = 0 /\ k = "in" /\ x \in rest) \/ In(q, i, x, k)
BY DEF At, In, PathOf

LEMMA MkdirCovered ==
  ASSUME Covered, CalmInv', NEW d \in Dir, Mkdir(d)
  PROVE  CoverInv'
<1> DEFINE p == Front(d)
           n == Len(queue) + 1
<1>1. /\ TypeInv /\ TreeInv /\ CalmInv /\ ParentsKnown /\ MayChange /\ d \in Path /\ d # <<>>
      /\ HandedOut
  BY DirIsPath DEF Covered, CoverInv, CalmInv, BaseInv, TableInv, Mkdir
<1>2. /\ ~Busy /\ p \in Path
      /\ \E l \in Nat : l < host.queue /\ GoodQueue(queue, l)
  BY <1>1, ChangeIs, FrontIs
<1>3. /\ ~Exists(d) /\ ops \in Nat /\ ino'[d] = ops + 1 /\ Exists(d)'
      /\ \A e \in Dir : e # d => ino'[e] = ino[e]
  BY <1>1, MkdirTree
<1>4. \A x \in Dir : Under(x, d) => ~Exists(x)
  BY <1>1, <1>3 DEF TreeInv, TreeClosed
<1>5. /\ UNCHANGED <<host, kino, kpath, watches, roots, rest, walk>>
      /\ queue' = Push(queue, d, "in")
  BY DEF Mkdir
<1>6. /\ \A i, x, k : In(Push(queue, d, "in"), i, x, k) <=>
           \/ In(queue, i, x, k)
           \/ Heard(p) /\ i = n /\ k = "in" /\ x = Append(Src(p), Last(d))
      /\ Len(queue) \in Nat
  BY <1>1, <1>2, PushTells
<1>7. \A i, x, k : At(i, x, k) => i < n
  BY <1>1, <1>6, TellsAbout
<1>8. \A i, x, k : At(i, x, k)' <=>
        \/ At(i, x, k)
        \/ Heard(p) /\ i = n /\ k = "in" /\ x = Append(Src(p), Last(d))
  BY <1>5, <1>6, QueueTells DEF At
<1>9. n \in Nat
  BY <1>6
<1> HIDE DEF n, p
<1>10. Change(p, {}, {d}, n, n)
  <2>1. \A x \in {} \cup {d} : x \in Dir /\ Front(x) = p
    BY DEF p
  <2>2. \A x \in Dir : (\A g \in {} \cup {d} : ~Under(x, g)) => ino'[x] = ino[x]
    BY <1>1, <1>3, UnderSelf
  <2> QED
    BY <1>2, <1>3, <1>4, <1>5, <1>7, <1>8, <1>9, <2>1, <2>2 DEF Change
<1>11. Inherits({}, {d})
  <2>1. ASSUME NEW x \in Dir, NEW w \in Wd, Under(x, d), kino[w] # Absent, kino[w] = ino'[x]
        PROVE  FALSE
    <3>1. x = d
      BY <1>3, <1>4, <2>1 DEF Exists
    <3>2. kino[w] <= ops
      BY <1>1 DEF HandedOut
    <3> QED
      BY <1>3, <2>1, <3>1, <3>2
  <2> QED
    BY <1>5, <2>1 DEF Inherits
<1> QED
  BY <1>2, <1>10, <1>11, ChangeCovered DEF Happens

LEMMA RmdirCovered ==
  ASSUME Covered, CalmInv', NEW d \in Dir, Rmdir(d)
  PROVE  CoverInv'
<1> DEFINE p == Front(d)
           n == Len(queue) + 1
<1>1. TypeInv /\ TreeInv /\ CalmInv /\ ParentsKnown /\ MayChange /\ d \in Path /\ d # <<>>
  BY DirIsPath DEF Covered, CoverInv, CalmInv, BaseInv, TableInv, Rmdir
<1>2. /\ ~Busy /\ p \in Path
      /\ \E l \in Nat : l < host.queue /\ GoodQueue(queue, l)
  BY <1>1, ChangeIs, FrontIs
<1>3. /\ Exists(d) /\ ~Exists(d)'
      /\ \A e \in Dir : e # d => ino'[e] = ino[e]
      /\ \A e \in Dir : Under(e, d) /\ Exists(e) => e = d
  BY <1>1, RmdirTree
<1>4. \A x \in Dir : Under(x, d) => ~Exists(x)'
  BY <1>3 DEF Exists
<1>5. /\ UNCHANGED <<host, kpath, watches, roots, rest, walk>>
      /\ queue' = Push(queue, d, "out")
      /\ \A w \in Wd : kino'[w] = IF kino[w] = ino[d] THEN Absent ELSE kino[w]
  BY DEF Rmdir
<1>6. /\ \A i, x, k : In(Push(queue, d, "out"), i, x, k) <=>
           \/ In(queue, i, x, k)
           \/ Heard(p) /\ i = n /\ k = "out" /\ x = Append(Src(p), Last(d))
      /\ Len(queue) \in Nat
  BY <1>1, <1>2, PushTells
<1>7. \A i, x, k : At(i, x, k) => i < n
  BY <1>1, <1>6, TellsAbout
<1>8. \A i, x, k : At(i, x, k)' <=>
        \/ At(i, x, k)
        \/ Heard(p) /\ i = n /\ k = "out" /\ x = Append(Src(p), Last(d))
  BY <1>5, <1>6, QueueTells DEF At
<1>9. n \in Nat
  BY <1>6
<1> HIDE DEF n, p
<1>10. Change(p, {d}, {}, n, n)
  <2>1. \A x \in {d} \cup {} : x \in Dir /\ Front(x) = p
    BY DEF p
  <2>2. \A x \in Dir : (\A g \in {d} \cup {} : ~Under(x, g)) => ino'[x] = ino[x]
    BY <1>1, <1>3, UnderSelf
  <2> QED
    BY <1>2, <1>3, <1>4, <1>5, <1>7, <1>8, <1>9, <2>1, <2>2 DEF Change
<1>11. Inherits({d}, {})
  <2>1. ASSUME NEW y \in Dir, NEW w \in Wd, Under(y, d), ino[y] = kino[w], kino'[w] # Absent
        PROVE  FALSE
    <3>1. y = d
      BY <1>3, <1>5, <2>1 DEF Exists
    <3> QED
      BY <1>5, <2>1, <3>1
  <2> QED
    BY <1>3, <1>5, <2>1 DEF Inherits
<1> QED
  BY <1>2, <1>10, <1>11, ChangeCovered DEF Happens

LEMMA RenameCovered ==
  ASSUME Covered, CalmInv', NEW a \in Dir, NEW b \in Dir, Rename(a, b)
  PROVE  CoverInv'
<1> DEFINE p == Front(a)
           m == Len(queue) + 1
           n == Len(queue) + 2
           q == Push(queue, a, "out")
<1>1. /\ TypeInv /\ TreeInv /\ CalmInv /\ ParentsKnown /\ MayChange /\ a \in Path /\ a # <<>>
      /\ b \in Path /\ b # <<>> /\ TreeClosed /\ Calm
  BY DirIsPath DEF Covered, CoverInv, CalmInv, BaseInv, TableInv, TreeInv, Rename
<1>2. /\ ~Busy /\ p \in Path
      /\ \E l \in Nat : l < host.queue /\ l + 1 < host.queue /\ GoodQueue(queue, l)
  BY <1>1, ChangeIs, FrontIs
<1>3. /\ p = Front(b) /\ Len(a) = Len(b) /\ Exists(a)
      /\ \A d \in Dir : ~Under(d, a) /\ ~Under(d, b) => ino'[d] = ino[d]
      /\ \A d \in Dir : Under(d, a) => ino'[d] = Absent
      /\ \A d \in Dir : Exists(d) /\ Under(d, a) =>
           Moved(d, a, b) \in Dir /\ ino'[Moved(d, a, b)] = ino[d]
      /\ \A d \in Dir : ino'[d] # Absent /\ Under(d, b) =>
           Moved(d, b, a) \in Dir /\ ino[Moved(d, b, a)] = ino'[d]
      /\ \A d \in Dir : Under(d, b) => ~Exists(d)
  BY <1>1, RenameIs DEF Rename
<1>4. \A r \in roots : ~Under(r, a)
  BY <1>1, RootsAre
<1>5. /\ UNCHANGED <<host, kino, kpath, watches, roots, rest, walk>>
      /\ queue' = Push(q, b, "in")
  BY DEF Rename
<1>6. /\ \A i, x, k : In(q, i, x, k) <=>
           \/ In(queue, i, x, k)
           \/ Heard(p) /\ i = m /\ k = "out" /\ x = Append(Src(p), Last(a))
      /\ Len(queue) \in Nat /\ (Heard(p) => Len(q) = m)
      /\ \A i, x, k : In(Push(q, b, "in"), i, x, k) <=>
           \/ In(q, i, x, k)
           \/ Heard(p) /\ i = Len(q) + 1 /\ k = "in" /\ x = Append(Src(p), Last(b))
  <2>1. PICK l \in Nat : l < host.queue /\ l + 1 < host.queue /\ GoodQueue(queue, l)
    BY <1>2
  <2>2. /\ \A i, x, k : In(q, i, x, k) <=>
             \/ In(queue, i, x, k)
             \/ Heard(p) /\ i = m /\ k = "out" /\ x = Append(Src(p), Last(a))
        /\ GoodQueue(q, l + 1) /\ Len(queue) \in Nat /\ (Heard(p) => Len(q) = m)
    BY <1>1, <2>1, PushTells
  <2> HIDE DEF q
  <2>3. l + 1 \in Nat
    OBVIOUS
  <2>4. \A i, x, k : In(Push(q, b, "in"), i, x, k) <=>
             \/ In(q, i, x, k)
             \/ Heard(p) /\ i = Len(q) + 1 /\ k = "in" /\ x = Append(Src(p), Last(b))
    BY <1>1, <1>3, <2>1, <2>2, <2>3, PushTells
  <2> QED
    BY <2>2, <2>4
<1>7. \A i, x, k : At(i, x, k) => i < m /\ i < n
  BY <1>1, <1>6, TellsAbout
<1>8. Heard(p) => Len(q) + 1 = n
  BY <1>6
<1>9. \A i, x, k : At(i, x, k)' <=>
        \/ At(i, x, k)
        \/ Heard(p) /\ i = m /\ k = "out" /\ x = Append(Src(p), Last(a))
        \/ Heard(p) /\ i = n /\ k = "in" /\ x = Append(Src(p), Last(b))
  <2> HIDE DEF q, m, n
  <2>1. \A i, x, k : At(i, x, k)' <=>
          (i = 0 /\ k = "in" /\ x \in rest) \/ In(Push(q, b, "in"), i, x, k)
    BY <1>5, QueueTells
  <2> QED
    BY <1>6, <1>8, <2>1 DEF At
<1>10. m \in Nat /\ n \in Nat /\ m < n
  BY <1>6
<1>11. Exists(b)'
  <2>1. Moved(a, a, b) \in Dir /\ ino'[Moved(a, a, b)] = ino[a] /\ Under(Moved(a, a, b), b)
    BY <1>1, <1>3, MovedIs, UnderSelf
  <2>2. Exists(Moved(a, a, b))'
    BY <1>3, <2>1 DEF Exists
  <2> QED
    BY <2>1, <2>2 DEF CalmInv, BaseInv, TreeInv, TreeClosed
<1> HIDE DEF n, m, p, q
<1>12. Change(p, {a}, {b}, m, n)
  <2>1. \A x \in {a} \cup {b} : x \in Dir /\ Front(x) = p
    BY <1>3 DEF p
  <2>2. \A x \in Dir : Under(x, a) => ~Exists(x)'
    BY <1>3 DEF Exists
  <2> QED
    BY <1>2, <1>3, <1>5, <1>7, <1>9, <1>10, <1>11, <2>1, <2>2 DEF Change
<1>13. Inherits({a}, {b})
  <2>1. ASSUME NEW x \in Dir, NEW w \in Wd, Under(x, b), kino[w] # Absent, kino[w] = ino'[x]
        PROVE  \E y \in Dir : Under(y, a) /\ ino[y] = kino[w]
    BY <1>1, <1>3, <2>1, MovedIs, DirIsPath
  <2>2. ASSUME NEW y \in Dir, NEW w \in Wd, Under(y, a), ino[y] = kino[w], kino'[w] # Absent
        PROVE  \E x \in Dir : ino'[x] = kino[w] /\ Under(x, b)
    <3>1. Exists(y)
      BY <1>5, <2>2 DEF Exists
    <3> QED
      BY <1>1, <1>3, <2>2, <3>1, MovedIs, DirIsPath
  <2> QED
    BY <1>4, <1>5, <2>1, <2>2 DEF Inherits
<1> QED
  BY <1>2, <1>12, <1>13, ChangeCovered DEF Happens

LEMMA FileSystemCovered ==
  ASSUME Covered, CalmInv', FileSystem
  PROVE  CoverInv'
BY MkdirCovered, RmdirCovered, RenameCovered DEF FileSystem

-----------------------------------------------------------------------------
(* The reader reads *)

LEMMA Idle ==
  ASSUME CalmInv, ~Busy
  PROVE  walk = NoWalk /\ walk.by = "nobody" /\ Heads = {} /\ \A x : Walked(x)
<1>1. walk = NoWalk
  BY DEF CalmInv, TableInv, WalkShape
<1> QED
  BY <1>1 DEF NoWalk, Heads, Walked

\* An event moves up, and nothing else happens.
LEMMA ShiftKeeps ==
  ASSUME Covered, CalmInv', ~Busy,
         UNCHANGED <<host, ino, kino, kpath, watches, roots, walk>>,
         \A x, k : ~At(0, x, k),
         \A i \in Nat : \A x, k : At(i, x, k)' <=> At(i + 1, x, k)
  PROVE  CoverInv'
<1>1. Covered /\ CoverInv /\ CalmInv /\ ParentsKnown /\ walk = NoWalk
  BY Idle DEF Covered, CoverInv
<1>2. /\ \A x : Walked(x) /\ Walked(x)'
      /\ Heads = {} /\ Heads' = {} /\ walk'.by = "nobody"
  BY <1>1 DEF NoWalk, Heads, Walked
<1>3. /\ \A x : (Entry(x)' <=> Entry(x)) /\ (NoneUnder(x)' <=> NoneUnder(x))
      /\ \A x : /\ (Below(x)' <=> Below(x)) /\ (Top(x)' <=> Top(x))
                /\ (UnderRoot(x)' <=> UnderRoot(x))
      /\ \A x : (IsIgnored(x)' <=> IsIgnored(x)) /\ (Own(x)' <=> Own(x))
  BY DEF Entry, NoneUnder, Below, Top, UnderRoot, IsIgnored, Own
<1>4. \A x : (Live(x)' <=> Live(x)) /\ (TopLive(x)' <=> TopLive(x)) /\ (Real(x)' <=> Real(x))
  BY DEF Live, TopLive, Real, Entry, Exists, Top, Below
<1>5. \A i \in Nat : \A x, k : At(i, x, k) => i > 0 /\ i - 1 \in Nat /\ At(i - 1, x, k)'
  <2> SUFFICES ASSUME NEW i \in Nat, NEW x, NEW k, At(i, x, k)
               PROVE  i > 0 /\ i - 1 \in Nat /\ At(i - 1, x, k)'
    OBVIOUS
  <2>1. i > 0
    OBVIOUS
  <2>2. i - 1 \in Nat /\ (i - 1) + 1 = i
    BY <2>1
  <2>3. At(i - 1, x, k)' <=> At((i - 1) + 1, x, k)
    BY <2>2
  <2> QED
    BY <2>1, <2>2, <2>3
<1>6. \A x : Told(x)' <=> Told(x)
  <2>1. \A x : Told(x)' => Told(x)
    BY DEF Told
  <2>2. \A x : Told(x) => Told(x)'
    BY <1>5 DEF Told
  <2> QED
    BY <2>1, <2>2
<1>7. \A x : (Sure(x)' <=> Sure(x)) /\ (SureAbove(x)' <=> SureAbove(x))
  BY <1>6 DEF Sure, SureAbove
<1>8. SureWatches'
  BY <1>1, <1>2, <1>3, <1>4, <1>7 DEF CoverInv, SureWatches
<1>9. Complete'
  BY <1>1, <1>2, <1>3, <1>4, <1>7 DEF CoverInv, Complete
<1>10. ASSUME NEW d \in Path, FirstIn(d)' PROVE FirstIn(d)
  <2>1. PICK i \in Nat : At(i, d, "in")' /\ \A k \in Nat : At(k, d, "out")' => i < k
    BY <1>10 DEF FirstIn
  <2>2. At(i + 1, d, "in") /\ i + 1 \in Nat
    BY <2>1
  <2>3. ASSUME NEW k \in Nat, At(k, d, "out") PROVE i + 1 < k
    <3>1. k - 1 \in Nat /\ At(k - 1, d, "out")'
      BY <1>5, <2>3
    <3>2. i < k - 1
      BY <2>1, <3>1
    <3> QED
      BY <3>2
  <2> QED
    BY <2>2, <2>3 DEF FirstIn
<1>11. NothingYet'
  BY <1>1, <1>3, <1>7, <1>10 DEF CoverInv, NothingYet
<1>12. ParentsKnown'
  <2>1. ASSUME NEW q \in rest' PROVE Entry(Front(q))
    <3>1. At(0, q, "in")'
      BY DEF At
    <3>2. At(0 + 1, q, "in")
      BY <3>1
    <3> QED
      BY <1>1, <3>2, TellsAbout
  <2> QED
    BY <1>2, <1>3, <2>1 DEF ParentsKnown
<1>13. Alternate'
  <2> SUFFICES ASSUME NEW d \in Path, SureAbove(d)', NEW i \in Nat, NEW j \in Nat,
                      At(i, d, "in")', At(j, d, "in")', i < j
               PROVE  \E k \in Nat : i < k /\ k < j /\ At(k, d, "out")'
    BY DEF Alternate
  <2>1. At(i + 1, d, "in") /\ At(j + 1, d, "in") /\ i + 1 < j + 1 /\ i + 1 \in Nat /\ j + 1 \in Nat
    OBVIOUS
  <2>2. PICK k \in Nat : i + 1 < k /\ k < j + 1 /\ At(k, d, "out")
    BY <1>1, <1>7, <2>1 DEF CoverInv, Alternate
  <2>3. k - 1 \in Nat /\ At(k - 1, d, "out")' /\ i < k - 1 /\ k - 1 < j
    BY <1>5, <2>2
  <2> QED
    BY <2>3
<1>14. LastTells'
  <2> SUFFICES ASSUME NEW d \in Path, SureAbove(d), Below(d), NEW i \in Nat
               PROVE  /\ At(i, d, "in")' /\ ~Real(d) => \E k \in Nat : i < k /\ At(k, d, "out")'
                      /\ At(i, d, "out")' /\ Real(d) => \E k \in Nat : i < k /\ At(k, d, "in")'
    BY <1>3, <1>4, <1>7 DEF LastTells
  <2>1. i + 1 \in Nat /\ \A k : At(i, d, k)' <=> At(i + 1, d, k)
    OBVIOUS
  <2>2. /\ At(i + 1, d, "in") /\ ~Real(d) => \E k \in Nat : i + 1 < k /\ At(k, d, "out")
        /\ At(i + 1, d, "out") /\ Real(d) => \E k \in Nat : i + 1 < k /\ At(k, d, "in")
    BY <1>1, <2>1 DEF CoverInv, LastTells
  <2>3. \A k \in Nat : i + 1 < k => i < k - 1
    OBVIOUS
  <2> QED
    BY <1>5, <2>1, <2>2, <2>3
<1>15. HeadsTold' /\ HeadsReal' /\ FirstWalk' /\ LaterWalk'
  BY <1>2 DEF HeadsTold, HeadsReal, FirstWalk, LaterWalk
<1>16. ASSUME NEW w \in Wd, NEW d \in Dir, Kept(w, d) PROVE Kept(w, d)'
  <2>1. CASE watches[d] = w /\ Sure(d)
    BY <1>7, <2>1 DEF Kept
  <2>2. ASSUME NEW c \in Dir, NEW q \in Path, NEW j \in Nat, Doomed(w, d, c, q, j)
        PROVE  Kept(w, d)'
    <3>1. j - 1 \in Nat /\ At(j - 1, q, "out")'
      BY <1>5, <2>2 DEF Doomed
    <3>2. ASSUME TopLive(d)'
          PROVE  \E z \in Path, i \in Nat :
                   i > j - 1 /\ Under(d, z) /\ Below(z)' /\ SureAbove(z)' /\ At(i, z, "in")'
      <4>1. PICK z \in Path, i \in Nat :
              i > j /\ Under(d, z) /\ Below(z) /\ SureAbove(z) /\ At(i, z, "in")
        BY <1>4, <2>2, <3>2 DEF Doomed
      <4>2. i - 1 \in Nat /\ At(i - 1, z, "in")' /\ i - 1 > j - 1
        BY <1>5, <4>1
      <4> QED
        BY <1>3, <1>7, <4>1, <4>2
    <3>3. Doomed(w, d, c, q, j - 1)'
      BY <1>3, <1>7, <2>2, <3>1, <3>2 DEF Doomed
    <3> QED
      BY <3>1, <3>3 DEF Kept
  <2> QED
    BY <1>16, <2>1, <2>2 DEF Kept
<1>17. WatchesKept'
  BY <1>1, <1>3, <1>16 DEF CoverInv, WatchesKept
<1>18. RootsKept'
  BY <1>1, <1>2, <1>3, <1>4 DEF CoverInv, RootsKept
<1> QED
  BY <1>8, <1>9, <1>11, <1>12, <1>13, <1>14, <1>15, <1>17, <1>18 DEF CoverInv

Lost(w, y) == \E d \in Dir : watches[d] = w /\ Under(d, y)

\* The first event is about y, which is ignored or gone: the entries under y are dropped.
Forget(y) ==
  /\ ~Busy /\ rest = {} /\ queue # <<>> /\ queue' = Tail(queue)
  /\ UNCHANGED <<host, ino, ops, nwd, calls, roots, walk, rest>>
  /\ \E k : In(queue, 1, y, k) /\ (IsIgnored(y) \/ k = "out")
  /\ \A d \in Dir : watches'[d] = IF Under(d, y) THEN NoWd ELSE watches[d]
  /\ \A w \in Wd : kino'[w] = IF Lost(w, y) THEN Absent ELSE kino[w]
  /\ \A w \in Wd : kpath'[w] = IF Lost(w, y) THEN NoDir ELSE kpath[w]

\* What is ahead afterwards, and what was before.
LEMMA ForgetSees ==
  ASSUME Covered, CalmInv', NEW y, Forget(y)
  PROVE  /\ y \in Path /\ Below(y) /\ Told(y) /\ y # <<>>
         /\ \A i \in Nat : \A x, k : At(i, x, k)' =>
              At(i + 1, x, k) /\ i > 0 /\ i + 1 \in Nat /\ ~Under(Front(x), y)
         /\ \A i \in Nat : \A x, k : At(i, x, k) =>
              /\ i > 0 /\ i - 1 \in Nat /\ x \in Path /\ (x # y => i > 1)
              /\ SureAbove(x) /\ i > 1 => At(i - 1, x, k)'
         /\ \A k : At(1, y, k) => IsIgnored(y) \/ k = "out"
         /\ At(1, y, "in") \/ At(1, y, "out")
<1>0. /\ CalmInv /\ ParentsKnown /\ rest = {} /\ rest' = {} /\ walk' = walk /\ walk = NoWalk
      /\ CoverInv
  BY Idle DEF Covered, CoverInv, Forget
<1>1. /\ Len(queue') = Len(queue) - 1 /\ Len(queue) \in Nat \ {0}
      /\ \A i \in 1 .. Len(queue') : queue'[i] = queue[i + 1]
  BY <1>0, TailGood DEF Forget
<1>2. PICK kk : In(queue, 1, y, kk) /\ (IsIgnored(y) \/ kk = "out")
  BY DEF Forget
<1>3. \A x, k : ~At(0, x, k)
  BY <1>0 DEF At, In
<1>4. At(1, y, kk) /\ kk = queue[1].kind
  BY <1>2 DEF At, In
<1>5. y \in Path /\ Below(y) /\ Told(y) /\ y # <<>> /\ kk \in {"in", "out"}
  BY <1>0, <1>4, TellsAbout
<1>6. \A k : At(1, y, k) => IsIgnored(y) \/ k = "out"
  BY <1>2 DEF At, In
<1>8. ASSUME NEW i \in Nat, NEW x, NEW k, At(i, x, k)'
      PROVE  At(i + 1, x, k) /\ i > 0 /\ ~Under(Front(x), y)
  <2>1. In(queue, i, x, k)' /\ i \in 1 .. Len(queue')
    BY <1>0, <1>8 DEF At, In
  <2>2. /\ i > 0 /\ i + 1 \in 1 .. Len(queue) /\ queue'[i] = queue[i + 1]
    BY <1>1, <2>1
  <2> DEFINE e == queue[i + 1]
  <2>3. e.wd \in Wd
    BY <1>0, <2>2, PathOfIs
  <2>4. e.kind = k /\ kpath'[e.wd] # NoDir /\ Append(kpath'[e.wd], e.name) = x
    BY <2>1, <2>2 DEF In, PathOf
  <2>5. kpath'[e.wd] = kpath[e.wd]
    BY <2>3, <2>4 DEF Forget
  <2>6. At(i + 1, x, k)
    BY <2>2, <2>4, <2>5 DEF At, In, PathOf
  <2>7. Front(x) \in Dir /\ watches'[Front(x)] # NoWd
    <3>1. kpath[e.wd] \in Dir /\ e.name \in Name /\ x = PathOf(e) /\ Front(x) = kpath[e.wd]
      BY <1>0, <2>2, <2>4, <2>5, PathOfIs DEF PathOf
    <3>2. watches'[kpath'[e.wd]] = e.wd
      BY <2>3, <2>4 DEF CalmInv, TableInv, Attributed
    <3> QED
      BY <2>3, <2>5, <3>1, <3>2, NoWdIsNone
  <2>8. ~Under(Front(x), y)
    BY <2>7 DEF Forget
  <2> QED
    BY <2>2, <2>6, <2>8
<1>9. ASSUME NEW i \in Nat, NEW x, NEW k, At(i, x, k)
      PROVE  /\ i > 0 /\ i - 1 \in Nat /\ x \in Path /\ (x # y => i > 1)
             /\ SureAbove(x) /\ i > 1 => At(i - 1, x, k)'
  <2>1. /\ i > 0 /\ x \in Path /\ x # <<>> /\ Front(x) \in Dir /\ Entry(Front(x))
        /\ i \in 1 .. Len(queue) /\ queue[i].wd \in Wd /\ watches[Front(x)] = queue[i].wd
        /\ kpath[queue[i].wd] = Front(x)
    <3>1. i # 0
      BY <1>3, <1>9
    <3>2. i > 0
      BY <3>1
    <3> QED
      BY <1>0, <1>9, <3>2, TellsAbout
  <2>2. In(queue, i, x, k)
    BY <1>9, <2>1 DEF At
  <2>3. x # y => i > 1
    <3>1. x # y => i # 1
      BY <1>2, <2>2 DEF In
    <3> QED
      BY <2>1, <3>1
  <2>4. ASSUME SureAbove(x), i > 1 PROVE At(i - 1, x, k)'
    <3>2. i - 1 \in 1 .. Len(queue') /\ queue'[i - 1] = queue[i]
      <4>1. i - 1 \in 1 .. Len(queue')
        BY <1>1, <2>1, <2>4
      <4>2. queue'[i - 1] = queue[(i - 1) + 1]
        BY <1>1, <4>1
      <4> QED
        BY <4>1, <4>2
    <3>3. Sure(Front(x)) /\ Front(x) \in Path /\ Under(x, Front(x))
      BY <2>1, <2>4, SureFront
    <3>4. Own(Front(x))
      BY <1>0, <2>1, <3>3 DEF CoverInv, SureWatches
    <3>5. ~Lost(queue[i].wd, y)
      <4> SUFFICES ASSUME NEW d \in Dir, watches[d] = queue[i].wd, Under(d, y) PROVE FALSE
        BY DEF Lost
      <4>1. d = Front(x)
        BY <2>1, <3>4 DEF Own
      <4> QED
        BY <1>5, <3>3, <4>1 DEF Sure
    <3>6. kpath'[queue[i].wd] = kpath[queue[i].wd]
      BY <2>1, <3>5 DEF Forget
    <3>7. In(queue, i - 1, x, k)'
      BY <2>2, <3>2, <3>6 DEF In, PathOf
    <3> QED
      BY <3>2, <3>7 DEF At
  <2> QED
    BY <2>1, <2>3, <2>4
<1>10. At(1, y, "in") \/ At(1, y, "out")
  BY <1>4, <1>5
<1> QED
  BY <1>5, <1>6, <1>8, <1>9, <1>10

LEMMA ForgetSure ==
  ASSUME Covered, CalmInv', NEW y, Forget(y), NEW x \in Path
  PROVE  /\ Sure(x) => Sure(x)'
         /\ SureAbove(x) => SureAbove(x)'
         /\ Sure(x)' /\ ~Under(x, y) => Sure(x)
         /\ SureAbove(x)' /\ (Under(x, y) => x = y) => SureAbove(x)
<1>1. \A z \in Path : Told(z)' => Told(z)
  BY ForgetSees DEF Told
<1>2. ASSUME NEW z \in Path, Told(z), SureAbove(z), z # y PROVE Told(z)'
  <2>1. PICK i \in Nat, k \in {"in", "out"} : At(i, z, k)
    BY <1>2 DEF Told
  <2>2. i - 1 \in Nat /\ At(i - 1, z, k)'
    BY <1>2, <2>1, ForgetSees
  <2> QED
    BY <2>2 DEF Told
<1>3. (Sure(x) => Sure(x)') /\ (SureAbove(x) => SureAbove(x)')
  BY <1>1 DEF Sure, SureAbove
<1>4. ASSUME NEW z \in Path, Told(z), Under(x, z)
      PROVE  \E u \in Path : /\ Told(u) /\ Under(x, u) /\ Under(z, u) /\ SureAbove(u)
                             /\ u = y \/ Told(u)'
  BY <1>2, <1>4, HighestTold
<1>5. Sure(x)' /\ ~Under(x, y) => Sure(x)
  BY <1>4 DEF Sure
<1>6. ASSUME SureAbove(x)', Under(x, y) => x = y, NEW z \in Path, Told(z), Under(x, z)
      PROVE  z = x
  <2>1. PICK u \in Path : Told(u) /\ Under(x, u) /\ Under(z, u) /\ (u = y \/ Told(u)')
    BY <1>4, <1>6
  <2>2. u = x
    BY <1>6, <2>1 DEF SureAbove
  <2> QED
    BY <1>6, <2>1, <2>2, UnderBoth
<1> QED
  BY <1>3, <1>5, <1>6 DEF SureAbove

LEMMA ForgetSame ==
  ASSUME Covered, CalmInv', NEW y, Forget(y)
  PROVE  /\ Heads = {} /\ Heads' = {} /\ walk'.by = "nobody" /\ \A x : Walked(x) /\ Walked(x)'
         /\ \A x : (Below(x)' <=> Below(x)) /\ (Top(x)' <=> Top(x))
         /\ \A x : (UnderRoot(x)' <=> UnderRoot(x)) /\ (IsIgnored(x)' <=> IsIgnored(x))
         /\ \A x : Entry(x)' <=> Entry(x) /\ ~Under(x, y)
         /\ \A x \in Path : NoneUnder(x) \/ Under(x, y) => NoneUnder(x)'
         /\ \A r : Top(r) => (Live(r)' <=> Live(r))
         /\ \A x : (TopLive(x)' <=> TopLive(x)) /\ (Real(x)' <=> Real(x))
<1>0. /\ CalmInv /\ ParentsKnown /\ walk' = walk /\ walk = NoWalk /\ y \in Path /\ Below(y)
      /\ UNCHANGED <<roots, host, ino>> /\ CoverInv
  BY Idle, ForgetSees DEF Covered, CoverInv, Forget
<1>1. Heads = {} /\ Heads' = {} /\ walk'.by = "nobody" /\ \A x : Walked(x) /\ Walked(x)'
  BY <1>0 DEF NoWalk, Heads, Walked
<1>2. /\ \A x : (Below(x)' <=> Below(x)) /\ (Top(x)' <=> Top(x))
      /\ \A x : (UnderRoot(x)' <=> UnderRoot(x)) /\ (IsIgnored(x)' <=> IsIgnored(x))
  BY <1>0 DEF Below, Top, UnderRoot, IsIgnored
<1>3. \A x : Entry(x)' <=> Entry(x) /\ ~Under(x, y)
  BY DEF Entry, Forget
<1>4. \A x \in Path : NoneUnder(x) \/ Under(x, y) => NoneUnder(x)'
  <2> SUFFICES ASSUME NEW x \in Path, NoneUnder(x) \/ Under(x, y), NEW e \in Dir, Under(e, x)
               PROVE  watches'[e] = NoWd
    BY DEF NoneUnder
  <2>1. CASE NoneUnder(x)
    BY <2>1 DEF Forget, NoneUnder
  <2>2. CASE Under(x, y)
    <3>1. Under(e, y)
      BY <1>0, <2>2, DirIsPath, UnderTrans
    <3> QED
      BY <3>1 DEF Forget
  <2> QED
    BY <2>1, <2>2
<1>5. ASSUME NEW r, Top(r) PROVE Live(r)' <=> Live(r)
  <2>1. r \in Dir /\ r \in Path /\ Sure(r)
    BY <1>0, <1>5, TopSure
  <2>2. ~Under(r, y)
    BY <1>0, <1>5, <2>1, BelowIs DEF Top
  <2>3. watches'[r] = watches[r]
    BY <2>1, <2>2 DEF Forget
  <2>4. ASSUME Entry(r) PROVE kino'[watches[r]] = kino[watches[r]]
    <3>1. Own(r)
      BY <1>0, <2>1, <2>4 DEF CoverInv, SureWatches
    <3>2. ~Lost(watches[r], y)
      BY <2>2, <3>1 DEF Lost, Own
    <3>3. watches[r] \in Wd
      BY <1>0, <2>1, <2>4, TypeFacts DEF Entry, CalmInv, BaseInv
    <3> QED
      BY <3>2, <3>3 DEF Forget
  <2>5. ino' = ino
    BY <1>0
  <2> QED
    BY <2>3, <2>4, <2>5 DEF Live, Entry, Exists
<1>6. \A x : TopLive(x)' <=> TopLive(x)
  BY <1>0, <1>2, <1>5 DEF TopLive
<1>7. \A x : Real(x)' <=> Real(x)
  BY <1>0, <1>6 DEF Real, Exists
<1> QED
  BY <1>1, <1>2, <1>3, <1>4, <1>5, <1>6, <1>7

LEMMA ForgetKeeps ==
  ASSUME Covered, CalmInv', NEW y, Forget(y)
  PROVE  CoverInv'
<1>0. /\ CalmInv /\ ParentsKnown /\ CoverInv /\ y \in Path /\ Below(y) /\ y # <<>>
      /\ UNCHANGED <<roots, host, ino, rest>> /\ rest = {}
  BY ForgetSees DEF Covered, CoverInv, Forget
<1>1. ASSUME NEW x \in Path, Sure(x)', Under(x, y), x \in Dir PROVE ~Real(x) \/ IsIgnored(x)
  <2> SUFFICES ASSUME Real(x), ~IsIgnored(x) PROVE FALSE
    OBVIOUS
  <2>1. ~IsIgnored(y)
    BY <1>0, <1>1, IgnoredBelow
  <2>2. At(1, y, "out")
    BY <2>1, ForgetSees
  <2>3. Real(y)
    <3>1. UnderRoot(y)
      BY <1>0, BelowIs, UnderSelf
    <3>2. y \in Dir
      BY <1>0, <1>1, DirPrefix
    <3>3. Exists(y)
      BY <1>0, <1>1, <3>2 DEF CalmInv, BaseInv, TreeInv, TreeClosed, Real
    <3>4. TopLive(y)
      BY <1>0, <1>1, <3>1, SameTops DEF Real
    <3> QED
      BY <3>3, <3>4 DEF Real
  <2>4. ~Told(y)' /\ SureAbove(y)'
    BY <1>0, <1>1, UnderTrans DEF Sure, SureAbove
  <2>5. SureAbove(y)
    BY <1>0, <2>4, ForgetSure
  <2>6. PICK k \in Nat : 1 < k /\ At(k, y, "in")
    BY <1>0, <2>2, <2>3, <2>5 DEF CoverInv, LastTells
  <2>7. At(k - 1, y, "in")' /\ k - 1 \in Nat
    BY <2>5, <2>6, ForgetSees
  <2> QED
    BY <2>4, <2>7 DEF Told
<1>2. SureWatches'
  <2> SUFFICES ASSUME NEW d \in Dir, Sure(d)', Entry(d)'
               PROVE  Own(d)' /\ (Live(d)' \/ (Top(d) /\ kino'[watches'[d]] = Absent))
    BY ForgetSame DEF SureWatches
  <2>1. /\ d \in Path /\ Entry(d) /\ ~Under(d, y) /\ watches'[d] = watches[d] /\ watches[d] \in Wd
    BY <1>0, ForgetSame, DirIsPath, TypeFacts DEF Entry, Forget, CalmInv, BaseInv
  <2>2. Sure(d)
    BY <2>1, ForgetSure
  <2>3. Own(d) /\ (Live(d) \/ (Top(d) /\ kino[watches[d]] = Absent))
    BY <1>0, <2>1, <2>2 DEF CoverInv, SureWatches
  <2>4. ~Lost(watches[d], y)
    BY <2>1, <2>3 DEF Lost, Own
  <2>5. kino'[watches[d]] = kino[watches[d]] /\ kpath'[watches[d]] = kpath[watches[d]]
    BY <2>1, <2>4 DEF Forget
  <2>6. Own(d)'
    <3>1. \A e \in Dir : watches'[e] = watches[d] => watches[e] = watches[d]
      BY <2>1, NoWdIsNone DEF Forget
    <3> QED
      BY <2>1, <2>3, <2>5, <3>1 DEF Own
  <2>7. Live(d)' <=> Live(d)
    BY <1>0, <2>1, <2>5 DEF Live, Entry, Exists
  <2> QED
    BY <2>1, <2>3, <2>5, <2>6, <2>7
<1>3. Complete'
  <2> SUFFICES ASSUME NEW d \in Dir, Sure(d)', Below(d)
               PROVE  /\ Real(d) /\ ~IsIgnored(d) => Entry(d)'
                      /\ ~Real(d) \/ IsIgnored(d) => NoneUnder(d)'
    BY ForgetSame DEF Complete
  <2>1. d \in Path
    BY DirIsPath
  <2>2. CASE Under(d, y)
    BY <1>1, <2>1, <2>2, ForgetSame
  <2>3. CASE ~Under(d, y)
    <3>1. Sure(d) /\ Walked(d)
      BY <2>1, <2>3, ForgetSure, ForgetSame
    <3> QED
      BY <1>0, <2>1, <2>3, <3>1, ForgetSame DEF CoverInv, Complete
  <2> QED
    BY <2>2, <2>3
<1>4. NothingYet'
  <2> SUFFICES ASSUME NEW d \in Path, SureAbove(d)', Below(d), FirstIn(d)' PROVE NoneUnder(d)'
    BY ForgetSame DEF NothingYet
  <2>1. CASE Under(d, y)
    BY <2>1, ForgetSame
  <2>2. CASE ~Under(d, y)
    <3>1. PICK i \in Nat : At(i, d, "in")' /\ \A k \in Nat : At(k, d, "out")' => i < k
      BY DEF FirstIn
    <3>2. SureAbove(d) /\ d # y
      BY <1>0, <2>2, ForgetSure, UnderSelf
    <3>3. At(i + 1, d, "in") /\ i + 1 \in Nat
      BY <3>1, ForgetSees
    <3>4. ASSUME NEW k \in Nat, At(k, d, "out") PROVE i + 1 < k
      <4>1. k - 1 \in Nat /\ At(k - 1, d, "out")'
        BY <3>2, <3>4, ForgetSees
      <4>2. i < k - 1
        BY <3>1, <4>1
      <4> QED
        BY <4>2
    <3>5. NoneUnder(d)
      BY <1>0, <3>2, <3>3, <3>4 DEF CoverInv, NothingYet, FirstIn
    <3> QED
      BY <3>5, ForgetSame
  <2> QED
    BY <2>1, <2>2
<1>5. ParentsKnown'
  BY <1>0, ForgetSame DEF ParentsKnown
<1>6. ASSUME NEW d \in Path, SureAbove(d)', NEW i \in Nat, NEW k, At(i, d, k)' PROVE SureAbove(d)
  <2>1. Under(d, y) => d = y
    BY <1>0, <1>6, ForgetSees, FrontUnder
  <2> QED
    BY <1>6, <2>1, ForgetSure
<1>7. Alternate'
  <2> SUFFICES ASSUME NEW d \in Path, SureAbove(d)', NEW i \in Nat, NEW j \in Nat,
                      At(i, d, "in")', At(j, d, "in")', i < j
               PROVE  \E k \in Nat : i < k /\ k < j /\ At(k, d, "out")'
    BY DEF Alternate
  <2>1. SureAbove(d)
    BY <1>6
  <2>2. At(i + 1, d, "in") /\ At(j + 1, d, "in") /\ i + 1 < j + 1 /\ i + 1 \in Nat /\ j + 1 \in Nat
    BY ForgetSees
  <2>3. PICK k \in Nat : i + 1 < k /\ k < j + 1 /\ At(k, d, "out")
    BY <1>0, <2>1, <2>2 DEF CoverInv, Alternate
  <2>4. k > 1 /\ i < k - 1 /\ k - 1 < j
    BY <2>3
  <2>5. k - 1 \in Nat /\ At(k - 1, d, "out")'
    BY <2>1, <2>3, <2>4, ForgetSees
  <2> QED
    BY <2>4, <2>5
<1>8. LastTells'
  <2> SUFFICES ASSUME NEW d \in Path, SureAbove(d)', Below(d), NEW i \in Nat
               PROVE  /\ At(i, d, "in")' /\ ~Real(d) => \E k \in Nat : i < k /\ At(k, d, "out")'
                      /\ At(i, d, "out")' /\ Real(d) => \E k \in Nat : i < k /\ At(k, d, "in")'
    BY ForgetSame DEF LastTells
  <2>1. ASSUME SureAbove(d), NEW k \in Nat, NEW l, At(k, d, l), i + 1 < k
        PROVE  \E h \in Nat : i < h /\ At(h, d, l)'
    <3>1. k > 1 /\ i < k - 1
      BY <2>1
    <3>2. k - 1 \in Nat /\ At(k - 1, d, l)'
      BY <2>1, <3>1, ForgetSees
    <3> QED
      BY <3>1, <3>2
  <2>2. \A l : At(i, d, l)' => SureAbove(d) /\ At(i + 1, d, l) /\ i + 1 \in Nat
    BY <1>6, ForgetSees
  <2>3. i + 1 \in Nat
    OBVIOUS
  <2>4. /\ SureAbove(d) /\ At(i + 1, d, "in") /\ ~Real(d) =>
             \E k \in Nat : i + 1 < k /\ At(k, d, "out")
        /\ SureAbove(d) /\ At(i + 1, d, "out") /\ Real(d) =>
             \E k \in Nat : i + 1 < k /\ At(k, d, "in")
    BY <1>0, <2>3 DEF CoverInv, LastTells
  <2> QED
    BY <2>1, <2>2, <2>4
<1>9. HeadsTold' /\ HeadsReal' /\ FirstWalk' /\ LaterWalk'
  BY ForgetSame DEF HeadsTold, HeadsReal, FirstWalk, LaterWalk
<1>10. ASSUME NEW w \in Wd, NEW d \in Dir, Kept(w, d), ~Lost(w, y) PROVE Kept(w, d)'
  <2>1. CASE watches[d] = w /\ Sure(d)
    <3>1. ~Under(d, y)
      BY <1>10, <2>1 DEF Lost
    <3>2. watches'[d] = w /\ Sure(d)'
      BY <2>1, <3>1, ForgetSure, DirIsPath DEF Forget
    <3> QED
      BY <3>2 DEF Kept
  <2>2. ASSUME NEW c \in Dir, NEW q \in Path, NEW j \in Nat, Doomed(w, d, c, q, j)
        PROVE  Kept(w, d)'
    <3>1. /\ watches[c] = w /\ Under(c, q) /\ Below(q) /\ SureAbove(q) /\ At(j, q, "out")
          /\ Under(d, Front(q))
      BY <2>2 DEF Doomed
    <3>2. ~Under(c, y) /\ q # y /\ watches'[c] = w
      BY <1>10, <3>1 DEF Lost, Forget
    <3>3. j > 1 /\ j - 1 \in Nat /\ At(j - 1, q, "out")' /\ SureAbove(q)'
      BY <3>1, <3>2, ForgetSees, ForgetSure
    <3>4. ASSUME TopLive(d)'
          PROVE  \E z \in Path, i \in Nat :
                   i > j - 1 /\ Under(d, z) /\ Below(z)' /\ SureAbove(z)' /\ At(i, z, "in")'
      <4>1. PICK z \in Path, i \in Nat :
              i > j /\ Under(d, z) /\ Below(z) /\ SureAbove(z) /\ At(i, z, "in")
        BY <2>2, <3>4, ForgetSame DEF Doomed
      <4>2. i > 1 /\ i - 1 > j - 1
        BY <3>3, <4>1
      <4>3. i - 1 \in Nat /\ At(i - 1, z, "in")' /\ SureAbove(z)'
        BY <4>1, <4>2, ForgetSees, ForgetSure
      <4> QED
        BY <4>1, <4>2, <4>3, ForgetSame
    <3>5. Doomed(w, d, c, q, j - 1)'
      BY <3>1, <3>2, <3>3, <3>4, ForgetSame DEF Doomed
    <3> QED
      BY <3>3, <3>5 DEF Kept
  <2> QED
    BY <1>10, <2>1, <2>2 DEF Kept
<1>11. WatchesKept'
  <2> SUFFICES ASSUME NEW w \in Wd, kino'[w] # Absent
               PROVE  \E d \in Dir : ino'[d] = kino'[w] /\ UnderRoot(d) /\ Kept(w, d)'
    BY ForgetSame DEF WatchesKept
  <2>1. ~Lost(w, y) /\ kino'[w] = kino[w]
    BY DEF Forget
  <2>2. PICK d \in Dir : ino[d] = kino[w] /\ UnderRoot(d) /\ Kept(w, d)
    BY <1>0, <2>1 DEF CoverInv, WatchesKept
  <2> QED
    BY <1>0, <1>10, <2>1, <2>2
<1>12. RootsKept'
  BY <1>0, ForgetSame DEF CoverInv, RootsKept
<1> QED
  BY <1>2, <1>3, <1>4, <1>5, <1>7, <1>8, <1>9, <1>11, <1>12 DEF CoverInv

\* When an event is read, those behind it move up.
LEMMA TailTells ==
  ASSUME CalmInv, queue # <<>>, queue' = Tail(queue), UNCHANGED <<ops, nwd, calls, kpath>>
  PROVE  \A i \in Nat : \A x, k : In(queue, i, x, k)' <=> i > 0 /\ In(queue, i + 1, x, k)
<1>1. /\ Len(queue') = Len(queue) - 1 /\ Len(queue) \in Nat \ {0}
      /\ \A i \in 1 .. Len(queue') : queue'[i] = queue[i + 1]
  BY TailGood
<1> SUFFICES ASSUME NEW i \in Nat, NEW x, NEW k
             PROVE  In(queue, i, x, k)' <=> i > 0 /\ In(queue, i + 1, x, k)
  OBVIOUS
<1>2. CASE i \in 1 .. Len(queue')
  <2>1. i + 1 \in 1 .. Len(queue) /\ i > 0 /\ queue'[i] = queue[i + 1]
    BY <1>1, <1>2
  <2> QED
    BY <1>2, <2>1 DEF In, PathOf
<1>3. CASE i \notin 1 .. Len(queue')
  <2>1. i = 0 \/ i + 1 \notin 1 .. Len(queue)
    BY <1>1, <1>3
  <2>2. ~In(queue, i, x, k)'
    BY <1>3 DEF In
  <2> QED
    BY <2>1, <2>2 DEF In
<1> QED
  BY <1>2, <1>3

LEMMA ReadIdle ==
  ASSUME CalmInv, gen = "get"
  PROVE  rest = {} /\ \A x, k : ~At(0, x, k)
<1>1. rest = {}
  BY DEF CalmInv, TableInv, WalkShape
<1> QED
  BY <1>1 DEF At, In

LEMMA SkippedCovered ==
  ASSUME Covered, CalmInv', ReadSkipped
  PROVE  CoverInv'
<1>1. /\ CalmInv /\ ~Busy /\ rest = {} /\ queue # <<>> /\ queue' = Tail(queue)
      /\ UNCHANGED <<host, ino, ops, kino, nwd, kpath, watches, roots, calls, rest, walk>>
      /\ \A x, k : ~At(0, x, k)
      /\ Head(queue) = queue[1] /\ 1 \in 1 .. Len(queue)
  BY ReadIdle, TailGood DEF ReadSkipped, Covered, fs
<1> DEFINE e == queue[1]
<1>2. CASE kpath[e.wd] = NoDir
  <2>1. \A x, k : ~In(queue, 1, x, k)
    BY <1>2 DEF In
  <2>2. \A i \in Nat : \A x, k : At(i, x, k)' <=> At(i + 1, x, k)
    <3> SUFFICES ASSUME NEW i \in Nat, NEW x, NEW k PROVE At(i, x, k)' <=> At(i + 1, x, k)
      OBVIOUS
    <3>1. At(i, x, k)' <=> In(queue, i, x, k)'
      BY <1>1 DEF At
    <3>2. At(i + 1, x, k) <=> In(queue, i + 1, x, k)
      BY <1>1 DEF At
    <3>3. In(queue, i, x, k)' <=> i > 0 /\ In(queue, i + 1, x, k)
      BY <1>1, TailTells
    <3>4. i = 0 => ~In(queue, i + 1, x, k)
      BY <2>1
    <3> QED
      BY <3>1, <3>2, <3>3, <3>4
  <2> QED
    BY <1>1, <2>2, ShiftKeeps
<1>3. CASE kpath[e.wd] # NoDir
  <2> DEFINE y == PathOf(e)
  <2>1. IsIgnored(y) /\ In(queue, 1, y, e.kind)
    BY <1>1, <1>3 DEF ReadSkipped, Unresolved, In
  <2>2. y \in Path
    BY <1>1, PathOfIs
  <2> HIDE DEF y
  <2>3. \A d \in Dir : Under(d, y) => watches[d] = NoWd
    BY <1>1, <2>1, <2>2, IgnoredBelow, DirIsPath DEF CalmInv, TableInv, EntriesWanted
  <2>4. \A w \in Wd : ~Lost(w, y)
    BY <2>3, NoWdIsNone DEF Lost
  <2>5. Forget(y)
    BY <1>1, <2>1, <2>3, <2>4 DEF Forget
  <2> QED
    BY <2>5, ForgetKeeps
<1> QED
  BY <1>2, <1>3

LEMMA AppearedCovered ==
  ASSUME Covered, CalmInv', ReadAppeared
  PROVE  CoverInv'
<1> DEFINE e == Head(queue)
           y == PathOf(e)
<1>1. /\ CalmInv /\ ~Busy /\ rest = {} /\ rest' = {y} /\ queue # <<>> /\ queue' = Tail(queue)
      /\ UNCHANGED <<host, ino, ops, kino, nwd, kpath, watches, roots, calls, walk>>
      /\ \A x, k : ~At(0, x, k)
      /\ e = queue[1] /\ 1 \in 1 .. Len(queue) /\ e.kind = "in" /\ kpath[e.wd] # NoDir
  BY ReadIdle, TailGood DEF ReadAppeared, Unresolved, Covered, fs
<1> HIDE DEF e
<1>2. \A x, k : In(queue, 1, x, k) <=> k = "in" /\ x = y
  BY <1>1 DEF In
<1> HIDE DEF y
<1>3. ASSUME NEW i \in Nat, NEW x, NEW k PROVE At(i, x, k)' <=> At(i + 1, x, k)
  <2>1. At(i, x, k)' <=> (i = 0 /\ k = "in" /\ x = y) \/ In(queue, i, x, k)'
    BY <1>1 DEF At
  <2>2. At(i + 1, x, k) <=> In(queue, i + 1, x, k)
    BY <1>1 DEF At
  <2>3. In(queue, i, x, k)' <=> i > 0 /\ In(queue, i + 1, x, k)
    BY <1>1, TailTells
  <2>4. i = 0 => (In(queue, i + 1, x, k) <=> k = "in" /\ x = y)
    BY <1>2
  <2> QED
    BY <2>1, <2>2, <2>3, <2>4
<1> QED
  BY <1>1, <1>3, ShiftKeeps

LEMMA VanishedCovered ==
  ASSUME Covered, CalmInv', ReadVanished
  PROVE  CoverInv'
<1> DEFINE e == Head(queue)
           y == PathOf(e)
<1>1. /\ CalmInv /\ BaseInv /\ ~Busy /\ rest = {} /\ rest' = {}
      /\ queue # <<>> /\ queue' = Tail(queue) /\ RemoveTrees({y})
      /\ UNCHANGED <<host, ino, ops, nwd, calls, roots, walk>>
      /\ e = queue[1] /\ 1 \in 1 .. Len(queue) /\ e.kind = "out" /\ kpath[e.wd] # NoDir
  BY ReadIdle, TailGood DEF ReadVanished, Unresolved, Covered, CalmInv, fs
<1>2. In(queue, 1, y, "out")
  BY <1>1 DEF In
<1> HIDE DEF e, y
<1>3. \A w : Dropped(w, {y}) <=> Lost(w, y)
  BY DEF Dropped, Lost
<1>4. /\ \A d \in Dir : watches'[d] = IF Under(d, y) THEN NoWd ELSE watches[d]
      /\ \A w \in Wd : kino'[w] = IF Lost(w, y) THEN Absent ELSE kino[w]
      /\ \A w \in Wd : kpath'[w] = IF Lost(w, y) THEN NoDir ELSE kpath[w]
  BY <1>1, <1>3, RemoveIs
<1>5. Forget(y)
  BY <1>1, <1>2, <1>4 DEF Forget
<1> QED
  BY <1>5, ForgetKeeps

LEMMA ReadingCovered ==
  ASSUME Covered, CalmInv', Reading
  PROVE  CoverInv'
<1>1. ~ReadOverflow
  BY TailGood DEF ReadOverflow, Covered, fs
<1> QED
  BY <1>1, SkippedCovered, AppearedCovered, VanishedCovered DEF Reading

-----------------------------------------------------------------------------
(* The reader goes on *)

\* Nothing that the invariant is about changes, but who walks.
LEMMA SameCovered ==
  ASSUME CoverInv, UNCHANGED <<host, ino, kino, kpath, queue, watches, roots, rest, Heads>>,
         walk' = walk \/ (ParentsKnown' /\ FirstWalk' /\ LaterWalk')
  PROVE  CoverInv'
<1>1. \A x : /\ (Entry(x)' <=> Entry(x)) /\ (NoneUnder(x)' <=> NoneUnder(x))
             /\ (Below(x)' <=> Below(x)) /\ (Top(x)' <=> Top(x)) /\ (UnderRoot(x)' <=> UnderRoot(x))
             /\ (IsIgnored(x)' <=> IsIgnored(x)) /\ (Own(x)' <=> Own(x))
  BY DEF Entry, NoneUnder, Below, Top, UnderRoot, IsIgnored, Own
<1>2. \A x : (Live(x)' <=> Live(x)) /\ (TopLive(x)' <=> TopLive(x)) /\ (Real(x)' <=> Real(x))
  BY DEF Live, TopLive, Real, Entry, Exists, Top, Below
<1>3. Heads' = Heads /\ \A x : Walked(x)' <=> Walked(x)
  BY DEF Walked
<1>4. \A i, x, k : At(i, x, k)' <=> At(i, x, k)
  BY DEF At, In, PathOf
<1>5. \A x : /\ (Sure(x)' <=> Sure(x)) /\ (SureAbove(x)' <=> SureAbove(x))
             /\ (FirstIn(x)' <=> FirstIn(x))
  BY <1>4 DEF Sure, SureAbove, Told, FirstIn
<1>6. SureWatches' /\ Complete' /\ NothingYet'
  BY <1>1, <1>2, <1>3, <1>5 DEF CoverInv, SureWatches, Complete, NothingYet
<1>7. Alternate'
  BY <1>4, <1>5 DEF CoverInv, Alternate
<1>8. LastTells'
  BY <1>1, <1>2, <1>4, <1>5 DEF CoverInv, LastTells
<1>9. HeadsTold' /\ HeadsReal'
  BY <1>1, <1>2, <1>3, <1>5 DEF CoverInv, HeadsTold, HeadsReal
<1>10. RootsKept'
  BY <1>1, <1>2, <1>3 DEF CoverInv, RootsKept
<1>13. ParentsKnown' /\ FirstWalk' /\ LaterWalk'
  BY <1>1, <1>3, <1>5 DEF CoverInv, ParentsKnown, FirstWalk, LaterWalk, Exists
<1>11. \A w, d, c, q, j : Doomed(w, d, c, q, j)' <=> Doomed(w, d, c, q, j)
  BY <1>1, <1>2, <1>4, <1>5 DEF Doomed
<1>12. WatchesKept'
  BY <1>1, <1>5, <1>11 DEF CoverInv, WatchesKept, Kept
<1> QED
  BY <1>6, <1>7, <1>8, <1>9, <1>10, <1>12, <1>13 DEF CoverInv

LEMMA ResumeCovered ==
  ASSUME Covered, CalmInv', Resume
  PROVE  CoverInv'
<1>0. /\ CalmInv /\ CoverInv /\ ParentsKnown /\ ~Busy
      /\ UNCHANGED <<host, ino, kino, kpath, queue, watches, roots>> /\ rest' = {}
      /\ \/ rest = {} /\ walk' = walk
         \/ \E q \in rest : rest = {q} /\ walk' = StartWalk("events", {q})
      /\ Heads = {} /\ \A x : Walked(x)
  BY Idle, ResumeIs DEF Covered, CoverInv
<1>1. CASE rest = {} /\ walk' = walk
  BY <1>0, <1>1, SameCovered DEF Heads
<1>2. ASSUME NEW q \in rest, rest = {q}, walk' = StartWalk("events", {q})
      PROVE  CoverInv'
  <2>1. At(0, q, "in")
    BY <1>2 DEF At
  <2>2. /\ q \in Path /\ q # <<>> /\ Below(q) /\ Entry(Front(q)) /\ Told(q)
    BY <1>0, <2>1, TellsAbout
  <2>3. Heads' = {q} /\ walk'.by = "events" /\ walk'.cur = NoDir /\ walk'.todo = {q}
    BY <1>2 DEF StartWalk, Heads
  <2>4. /\ \A x : (Entry(x)' <=> Entry(x)) /\ (NoneUnder(x)' <=> NoneUnder(x))
        /\ \A x : /\ (Below(x)' <=> Below(x)) /\ (Top(x)' <=> Top(x))
                  /\ (UnderRoot(x)' <=> UnderRoot(x))
        /\ \A x : (IsIgnored(x)' <=> IsIgnored(x)) /\ (Own(x)' <=> Own(x))
    BY <1>0 DEF Entry, NoneUnder, Below, Top, UnderRoot, IsIgnored, Own
  <2>5. \A x : (Live(x)' <=> Live(x)) /\ (TopLive(x)' <=> TopLive(x)) /\ (Real(x)' <=> Real(x))
    BY <1>0 DEF Live, TopLive, Real, Entry, Exists, Top, Below
  <2>6. \A i, x, k : At(i, x, k)' <=> In(queue, i, x, k)
    BY <1>0 DEF At, In, PathOf
  <2>7. /\ \A i, x, k : At(i, x, k)' => At(i, x, k) /\ i # 0
        /\ \A i, x, k : At(i, x, k) => At(i, x, k)' \/ (i = 0 /\ k = "in" /\ x = q)
    <3>1. 0 \notin 1 .. Len(queue)
      BY <1>0, TypeFacts DEF CalmInv, TableInv, QueueInv, GoodQueue
    <3>2. \A x, k : ~In(queue, 0, x, k)
      BY <3>1 DEF In
    <3>3. \A i, x, k : At(i, x, k)' => i # 0
      BY <2>6, <3>2
    <3>4. \A i, x, k : At(i, x, k)' => At(i, x, k)
      BY <2>6 DEF At
    <3>5. \A i, x, k : At(i, x, k) => At(i, x, k)' \/ (i = 0 /\ k = "in" /\ x = q)
      BY <1>2, <2>6 DEF At
    <3> QED
      BY <3>3, <3>4, <3>5
  <2>8. \A x \in Path : (Told(x)' => Told(x)) /\ (Told(x) => Told(x)' \/ x = q)
    BY <2>7 DEF Told
  <2>9. SureAbove(q) => NoneUnder(q)
    <3>1. \A k \in Nat : At(k, q, "out") => 0 < k
      BY <1>0, TellsAbout
    <3>2. FirstIn(q)
      BY <2>1, <3>1 DEF FirstIn
    <3> QED
      BY <1>0, <2>2, <3>2 DEF CoverInv, NothingYet
  <2>10. SureAbove(q)' => SureAbove(q)
    BY <2>8 DEF SureAbove
  <2>11. ASSUME NEW x \in Path
         PROVE  /\ Sure(x) => Sure(x)'
                /\ SureAbove(x) => SureAbove(x)'
                /\ Sure(x)' => Sure(x) \/ (Under(x, q) /\ NoneUnder(q))
                /\ SureAbove(x)' => SureAbove(x) \/ (Under(x, q) /\ x # q /\ NoneUnder(q))
    <3>1. (Sure(x) => Sure(x)') /\ (SureAbove(x) => SureAbove(x)')
      BY <2>8 DEF Sure, SureAbove
    <3>2. Sure(x)' => Sure(x) \/ Under(x, q)
      BY <2>8 DEF Sure
    <3>3. SureAbove(x)' => SureAbove(x) \/ (Under(x, q) /\ x # q)
      BY <2>8 DEF SureAbove
    <3>4. Sure(x)' /\ Under(x, q) => SureAbove(q)'
      BY <2>2, UnderTrans DEF Sure, SureAbove
    <3>5. SureAbove(x)' /\ Under(x, q) /\ x # q => SureAbove(q)'
      BY <2>2, UnderTrans, UnderBoth DEF SureAbove
    <3> QED
      BY <2>9, <2>10, <3>1, <3>2, <3>3, <3>4, <3>5
  <2>12. ASSUME NEW x \in Path, Under(x, q), x # q, NoneUnder(q), NEW i, NEW k, At(i, x, k)'
         PROVE  FALSE
    <3>1. Entry(Front(x)) /\ Under(Front(x), q)
      BY <1>0, <2>2, <2>7, <2>12, TellsAbout, FrontUnder
    <3> QED
      BY <2>12, <3>1 DEF Entry, NoneUnder
  <2>13. SureWatches'
    <3> SUFFICES ASSUME NEW d \in Dir, Sure(d)', Entry(d)
                 PROVE  Own(d) /\ (Live(d) \/ (Top(d) /\ Walked(d)' /\ kino[watches[d]] = Absent))
      BY <1>0, <2>4, <2>5 DEF SureWatches
    <3>1. Sure(d)
      BY <2>11, DirIsPath DEF Entry, NoneUnder
    <3>2. Top(d) => Walked(d)'
      BY <1>0, <2>2, <2>3, BelowIs, DirIsPath DEF Walked
    <3> QED
      BY <1>0, <3>1, <3>2 DEF CoverInv, SureWatches
  <2>14. Complete'
    <3> SUFFICES ASSUME NEW d \in Dir, Sure(d)', Walked(d)', Below(d)
                 PROVE  /\ Real(d) /\ ~IsIgnored(d) => Entry(d)
                        /\ ~Real(d) \/ IsIgnored(d) => NoneUnder(d)
      BY <2>4, <2>5 DEF Complete
    <3>1. Sure(d)
      BY <2>3, <2>11, DirIsPath DEF Walked
    <3> QED
      BY <1>0, <3>1 DEF CoverInv, Complete
  <2>15. NothingYet'
    <3> SUFFICES ASSUME NEW d \in Path, SureAbove(d)', Below(d), FirstIn(d)' PROVE NoneUnder(d)
      BY <2>4 DEF NothingYet
    <3>1. CASE Under(d, q) /\ NoneUnder(q)
      BY <2>2, <3>1, UnderTrans, DirIsPath DEF NoneUnder
    <3>2. CASE SureAbove(d)
      <4>1. PICK i \in Nat : At(i, d, "in")' /\ \A k \in Nat : At(k, d, "out")' => i < k
        BY DEF FirstIn
      <4>2. At(i, d, "in") /\ \A k \in Nat : At(k, d, "out") => i < k
        BY <2>7, <4>1
      <4> QED
        BY <1>0, <3>2, <4>2 DEF CoverInv, NothingYet, FirstIn
    <3> QED
      BY <2>11, <3>1, <3>2
  <2>16. ParentsKnown'
    BY <1>0, <2>2, <2>3, <2>4 DEF ParentsKnown
  <2>17. Alternate'
    <3> SUFFICES ASSUME NEW d \in Path, SureAbove(d)', NEW i \in Nat, NEW j \in Nat,
                        At(i, d, "in")', At(j, d, "in")', i < j
                 PROVE  \E k \in Nat : i < k /\ k < j /\ At(k, d, "out")'
      BY DEF Alternate
    <3>1. SureAbove(d)
      BY <2>11, <2>12
    <3>2. PICK k \in Nat : i < k /\ k < j /\ At(k, d, "out")
      BY <1>0, <2>7, <3>1 DEF CoverInv, Alternate
    <3> QED
      BY <2>7, <3>2
  <2>18. LastTells'
    <3> SUFFICES ASSUME NEW d \in Path, SureAbove(d)', Below(d), NEW i \in Nat
                 PROVE  /\ At(i, d, "in")' /\ ~Real(d) => \E k \in Nat : i < k /\ At(k, d, "out")'
                        /\ At(i, d, "out")' /\ Real(d) => \E k \in Nat : i < k /\ At(k, d, "in")'
      BY <2>4, <2>5 DEF LastTells
    <3>1. \A k : At(i, d, k)' => SureAbove(d)
      BY <2>11, <2>12
    <3>2. \A k \in Nat : i < k => k # 0
      OBVIOUS
    <3>3. SureAbove(d) => /\ At(i, d, "in") /\ ~Real(d) => \E k \in Nat : i < k /\ At(k, d, "out")
                          /\ At(i, d, "out") /\ Real(d) => \E k \in Nat : i < k /\ At(k, d, "in")
      BY <1>0 DEF CoverInv, LastTells
    <3> QED
      BY <2>7, <3>1, <3>2, <3>3
  <2>19. HeadsTold'
    <3> SUFFICES ASSUME SureAbove(q)', FirstIn(q)' PROVE FALSE
      BY <2>3 DEF HeadsTold
    <3>1. PICK i \in Nat : At(i, q, "in")' /\ \A k \in Nat : At(k, q, "out")' => i < k
      BY DEF FirstIn
    <3>2. i # 0 /\ At(i, q, "in")
      BY <2>7, <3>1
    <3>3. 0 < i /\ 0 \in Nat
      BY <3>2
    <3>4. PICK k \in Nat : 0 < k /\ k < i /\ At(k, q, "out")
      BY <1>0, <2>1, <2>2, <2>10, <3>2, <3>3 DEF CoverInv, Alternate
    <3>5. i < k
      BY <2>7, <3>1, <3>4
    <3> QED
      BY <3>4, <3>5
  <2>20. HeadsReal'
    <3> SUFFICES ASSUME Sure(q)', ~Real(q) PROVE FALSE
      BY <2>3, <2>5 DEF HeadsReal
    <3>1. SureAbove(q) /\ ~Told(q)'
      BY <2>2, <2>10, UnderSelf DEF Sure, SureAbove
    <3>2. PICK k \in Nat : 0 < k /\ At(k, q, "out")
      BY <1>0, <2>1, <2>2, <3>1 DEF CoverInv, LastTells
    <3> QED
      BY <2>7, <3>1, <3>2 DEF Told
  <2>21. FirstWalk' /\ LaterWalk'
    BY <2>2, <2>3, <2>4, <2>9, <2>10 DEF FirstWalk, LaterWalk, NoDir
  <2>22. ASSUME NEW w \in Wd, NEW d \in Dir, Kept(w, d) PROVE Kept(w, d)'
    <3>1. CASE watches[d] = w /\ Sure(d)
      BY <1>0, <2>11, <3>1, DirIsPath DEF Kept
    <3>2. ASSUME NEW c \in Dir, NEW u \in Path, NEW j \in Nat, Doomed(w, d, c, u, j)
          PROVE  Kept(w, d)'
      <4>1. At(j, u, "out")' /\ SureAbove(u)'
        BY <2>7, <2>11, <3>2 DEF Doomed
      <4>2. \A i \in Nat : i > j => i # 0
        OBVIOUS
      <4>3. \A z \in Path, i \in Nat : i > j /\ At(i, z, "in") /\ SureAbove(z) =>
                                         At(i, z, "in")' /\ SureAbove(z)'
        BY <2>7, <2>11, <4>2
      <4>4. Doomed(w, d, c, u, j)'
        BY <1>0, <2>4, <2>5, <3>2, <4>1, <4>3 DEF Doomed
      <4> QED
        BY <4>4 DEF Kept
    <3> QED
      BY <2>22, <3>1, <3>2 DEF Kept
  <2>23. WatchesKept'
    BY <1>0, <2>4, <2>22 DEF CoverInv, WatchesKept
  <2>24. RootsKept'
    BY <1>0, <2>4, <2>5 DEF CoverInv, RootsKept
  <2> QED
    BY <2>13, <2>14, <2>15, <2>16, <2>17, <2>18, <2>19, <2>20, <2>21, <2>23, <2>24 DEF CoverInv
<1> QED
  BY <1>0, <1>1, <1>2

-----------------------------------------------------------------------------
(* Walks begin and end *)

LEMMA HeadsAre ==
  ASSUME CalmInv
  PROVE  /\ Heads \subseteq Path /\ \A x \in Heads : x # <<>> /\ ~IsIgnored(x) /\ UnderRoot(x)
         /\ walk.by = "events" => rest = {} /\ \A x \in Heads : Below(x)
         /\ walk.by = "set_roots" => /\ rest = {} /\ queue = <<>> /\ \A i, x, k : ~At(i, x, k)
                                     /\ \A x : Sure(x) /\ SureAbove(x)
<1>1. Heads \subseteq Ahead /\ Ahead \subseteq Path
  BY TypeFacts DEF Heads, Ahead, CalmInv, BaseInv
<1>2. /\ \A x \in Ahead : ~IsIgnored(x) /\ UnderRoot(x) /\ x # <<>>
      /\ walk.by = "events" => \A x \in Ahead : Below(x)
      /\ walk.by = "set_roots" => queue = <<>> /\ rest = {}
      /\ rest # {} => ~Busy
  BY DEF CalmInv, TableInv, WalkShape
<1>3. ASSUME queue = <<>>, rest = {}
      PROVE  (\A i, x, k : ~At(i, x, k)) /\ \A x : Sure(x) /\ SureAbove(x)
  <2>1. 1 .. Len(queue) = {}
    BY <1>3
  <2>2. \A i, x, k : ~At(i, x, k)
    BY <1>3, <2>1 DEF At, In
  <2> QED
    BY <2>2 DEF Sure, SureAbove, Told
<1> QED
  BY <1>1, <1>2, <1>3 DEF Busy

LEMMA ListCovered ==
  ASSUME Covered, CalmInv', NEW d \in walk.todo, WalkList(d)
  PROVE  CoverInv'
<1>0. /\ CalmInv /\ CoverInv /\ ParentsKnown
      /\ UNCHANGED <<host, ino, kino, kpath, queue, watches, roots, rest>>
      /\ walk.cur = NoDir /\ Heads = walk.todo /\ d \in Heads /\ walk'.by = walk.by
  BY DEF Covered, CoverInv, WalkList, fs, kernel, Heads, CalmInv, BaseInv, TypeInv, TypeOK
<1>1. d \in Path /\ d # <<>> /\ ~IsIgnored(d) /\ UnderRoot(d)
  BY <1>0, HeadsAre
<1>2. CASE Exists(d)
  <2>1. walk'.todo = walk.todo \ {d} /\ walk'.cur = d
    BY <1>0, <1>1, <1>2 DEF WalkList, CalmInv, BaseInv, TypeInv, TypeOK
  <2>2. Heads' = Heads
    BY <1>0, <1>1, <2>1 DEF Heads, NoDir
  <2>3. /\ \A x : (Entry(x)' <=> Entry(x)) /\ (NoneUnder(x)' <=> NoneUnder(x))
                  /\ (SureAbove(x)' <=> SureAbove(x)) /\ (Exists(x)' <=> Exists(x))
    <3>1. \A x : Told(x)' <=> Told(x)
      BY <1>0 DEF Told, At, In, PathOf
    <3> QED
      BY <1>0, <3>1 DEF Entry, NoneUnder, SureAbove, Exists
  <2>4. ParentsKnown' /\ FirstWalk' /\ LaterWalk'
    BY <1>0, <2>1, <2>2, <2>3 DEF CoverInv, ParentsKnown, FirstWalk, LaterWalk
  <2> QED
    BY <1>0, <2>2, <2>4, SameCovered
<1>3. CASE ~Exists(d)
  <2>1. walk'.todo = walk.todo \ {d} /\ walk'.cur = NoDir
    BY <1>0, <1>1, <1>3 DEF WalkList, CalmInv, BaseInv, TypeInv, TypeOK
  <2>2. Heads' = Heads \ {d}
    BY <1>0, <2>1 DEF Heads
  <2>3. walk.by = "events"
    <3>1. walk.by # "nobody" /\ walk.by \in {"nobody", "events", "set_roots"}
      BY DEF WalkList, Busy, Covered, CalmInv, BaseInv, TypeInv, TypeOK
    <3> QED
      BY <1>0, <1>3, <3>1 DEF CoverInv, FirstWalk
  <2>4. \A x : /\ (Entry(x)' <=> Entry(x)) /\ (NoneUnder(x)' <=> NoneUnder(x))
               /\ (Below(x)' <=> Below(x)) /\ (Top(x)' <=> Top(x))
               /\ (UnderRoot(x)' <=> UnderRoot(x))
               /\ (IsIgnored(x)' <=> IsIgnored(x)) /\ (Own(x)' <=> Own(x))
    BY <1>0 DEF Entry, NoneUnder, Below, Top, UnderRoot, IsIgnored, Own
  <2>5. \A x : (Live(x)' <=> Live(x)) /\ (TopLive(x)' <=> TopLive(x)) /\ (Real(x)' <=> Real(x))
    BY <1>0 DEF Live, TopLive, Real, Entry, Exists, Top, Below
  <2>6. \A i, x, k : At(i, x, k)' <=> At(i, x, k)
    BY <1>0 DEF At, In, PathOf
  <2>7. \A x : /\ (Sure(x)' <=> Sure(x)) /\ (SureAbove(x)' <=> SureAbove(x))
               /\ (FirstIn(x)' <=> FirstIn(x))
    BY <2>6 DEF Sure, SureAbove, Told, FirstIn
  <2>8. \A x : (Walked(x) => Walked(x)') /\ (Walked(x)' => Walked(x) \/ Under(x, d))
    BY <2>2 DEF Walked
  <2>9. SureWatches'
    BY <1>0, <2>4, <2>5, <2>7, <2>8 DEF CoverInv, SureWatches
  <2>10. Complete'
    <3> SUFFICES ASSUME NEW x \in Dir, Sure(x), Walked(x)', Below(x)
                 PROVE  /\ Real(x) /\ ~IsIgnored(x) => Entry(x)
                        /\ ~Real(x) \/ IsIgnored(x) => NoneUnder(x)
      BY <2>4, <2>5, <2>7 DEF Complete
    <3>1. CASE Walked(x)
      BY <1>0, <3>1 DEF CoverInv, Complete
    <3>2. CASE Under(x, d)
      <4>1. d \in Dir /\ x \in Path
        BY <1>1, <3>2, DirPrefix, DirIsPath
      <4>2. ~Real(x)
        BY <1>0, <1>3, <3>2, <4>1 DEF CalmInv, BaseInv, TreeInv, TreeClosed, Real
      <4>3. SureAbove(d)
        BY <1>1, <3>2, <4>1, SureUp, SureIs
      <4>4. NoneUnder(d)
        BY <1>0, <2>3, <4>3 DEF CoverInv, LaterWalk
      <4>5. NoneUnder(x)
        BY <1>1, <3>2, <4>1, <4>4, UnderTrans, DirIsPath DEF NoneUnder
      <4> QED
        BY <4>2, <4>5
    <3> QED
      BY <2>8, <3>1, <3>2
  <2>11. NothingYet' /\ ParentsKnown'
    BY <1>0, <2>2, <2>4, <2>7 DEF CoverInv, NothingYet, ParentsKnown
  <2>12. Alternate'
    BY <1>0, <2>6, <2>7 DEF CoverInv, Alternate
  <2>13. LastTells'
    BY <1>0, <2>4, <2>5, <2>6, <2>7 DEF CoverInv, LastTells
  <2>14. HeadsTold'
    BY <1>0, <2>2, <2>7 DEF CoverInv, HeadsTold
  <2>15. HeadsReal'
    <3>1. \A x, z \in Heads : Under(x, z) => x = z
      BY <1>0, <2>3 DEF CoverInv, LaterWalk
    <3> QED
      BY <1>0, <2>2, <2>4, <2>5, <2>7, <3>1 DEF CoverInv, HeadsReal
  <2>16. FirstWalk'
    BY <1>0, <2>3 DEF FirstWalk
  <2>17. LaterWalk'
    <3>1. \A x \in Heads : x # NoDir
      BY <1>0, HeadsAre DEF NoDir
    <3>2. walk'.cur \notin walk'.todo
      BY <1>0, <2>1, <3>1
    <3> QED
      BY <1>0, <2>2, <2>4, <2>7, <3>2 DEF CoverInv, LaterWalk
  <2>18. \A w, x, c, q, j : Doomed(w, x, c, q, j)' <=> Doomed(w, x, c, q, j)
    BY <1>0, <2>4, <2>5, <2>6, <2>7 DEF Doomed
  <2>19. WatchesKept'
    BY <1>0, <2>4, <2>7, <2>18 DEF CoverInv, WatchesKept, Kept
  <2>20. RootsKept'
    <3>1. Below(d)
      BY <1>0, <2>3, HeadsAre
    <3>2. \A r \in roots : Top(r) /\ Walked(r)' => Walked(r)
      BY <1>0, <1>1, <2>8, <3>1, BelowIs, RootsAre DEF Top
    <3> QED
      BY <1>0, <2>4, <2>5, <3>2 DEF CoverInv, RootsKept
  <2> QED
    BY <2>9, <2>10, <2>11, <2>12, <2>13, <2>14, <2>15, <2>16, <2>17, <2>19, <2>20 DEF CoverInv
<1> QED
  BY <1>2, <1>3

LEMMA DoneCovered ==
  ASSUME Covered, CalmInv', WalkDone
  PROVE  CoverInv'
<1>1. /\ CoverInv /\ UNCHANGED <<host, ino, kino, kpath, queue, watches, roots, rest>>
      /\ Heads = {} /\ Heads' = {} /\ walk'.by = "nobody"
  BY DEF Covered, WalkDone, fs, kernel, Heads, NoWalk
<1>2. \A x : Entry(x)' <=> Entry(x)
  BY <1>1 DEF Entry
<1>3. ParentsKnown' /\ FirstWalk' /\ LaterWalk'
  BY <1>1, <1>2 DEF CoverInv, ParentsKnown, FirstWalk, LaterWalk
<1> QED
  BY <1>1, <1>3, SameCovered

LEMMA InitCovered == Init => CoverInv
<1> SUFFICES ASSUME Init PROVE CoverInv
  OBVIOUS
<1>1. /\ roots = {} /\ rest = {} /\ queue = <<>> /\ Heads = {} /\ walk.by = "nobody"
      /\ \A d \in Dir : watches[d] = NoWd
      /\ \A w \in Wd : kino[w] = Absent
  BY DEF Init, NoWalk, Heads
<1>2. 1 .. Len(queue) = {}
  BY <1>1
<1>3. \A i, x, k : ~At(i, x, k)
  BY <1>1, <1>2 DEF At, In
<1>4. /\ \A d : ~Entry(d) /\ NoneUnder(d) /\ ~Below(d) /\ ~FirstIn(d)
      /\ \A d \in Dir : ~Entry(d)
  BY <1>1, <1>3 DEF Entry, NoneUnder, Below, FirstIn
<1>5. SureWatches /\ Complete /\ NothingYet /\ ParentsKnown
  BY <1>1, <1>4 DEF SureWatches, Complete, NothingYet, ParentsKnown
<1>6. Alternate /\ LastTells
  BY <1>3, <1>4 DEF Alternate, LastTells
<1>7. HeadsTold /\ HeadsReal /\ FirstWalk /\ LaterWalk
  BY <1>1 DEF HeadsTold, HeadsReal, FirstWalk, LaterWalk
<1>8. WatchesKept /\ RootsKept
  BY <1>1 DEF WatchesKept, RootsKept
<1> QED
  BY <1>5, <1>6, <1>7, <1>8 DEF CoverInv

LEMMA SetRootsCovered ==
  ASSUME Covered, CalmInv', NEW new \in host.rootSets, SetRoots(new)
  PROVE  CoverInv'
<1>0. /\ CalmInv /\ BaseInv /\ calls = 0 /\ roots = {} /\ rest = {} /\ queue = <<>>
      /\ \A d \in Dir : watches[d] = NoWd
  <2>1. calls \in Nat /\ calls < 1
    BY CalmIs, TypeFacts DEF SetRoots, Covered, CalmInv, BaseInv
  <2>2. calls = 0
    BY <2>1
  <2> QED
    BY <2>2 DEF Covered, CalmInv, TableInv, FirstCall, QueueInv, GoodQueue
<1>1. \A w \in Wd : kino[w] = Absent
  BY <1>0 DEF CalmInv, TableInv, Placed, UnderRoot
<1>2. /\ \A d \in Dir : watches'[d] = NoWd
      /\ \A w \in Wd : kino'[w] = Absent
  BY <1>0, <1>1, RemoveIs DEF SetRoots
<1>3. /\ roots' = new /\ UNCHANGED <<host, ino>> /\ rest' = {} /\ queue' = <<>>
      /\ walk' = StartWalk("set_roots", {r \in new \ roots : Exists(r) /\ ~IsIgnored(r)})
  BY <1>0 DEF SetRoots, fs
<1>4. /\ Heads' = {r \in new : Exists(r) /\ ~IsIgnored(r)} /\ walk'.by = "set_roots"
  BY <1>0, <1>3 DEF StartWalk, Heads
<1>5. 1 .. Len(queue') = {}
  BY <1>3
<1>6. \A i, x, k : ~At(i, x, k)'
  BY <1>3, <1>5 DEF At, In
<1>7. \A d : ~Entry(d)' /\ NoneUnder(d)' /\ ~FirstIn(d)' /\ ~Live(d)' /\ ~TopLive(d)' /\ ~Real(d)'
  <2>1. \A d : ~Entry(d)' /\ NoneUnder(d)' /\ ~FirstIn(d)'
    BY <1>2, <1>6 DEF Entry, NoneUnder, FirstIn
  <2> QED
    BY <2>1 DEF Live, TopLive, Real
<1>8. SureWatches' /\ Complete' /\ NothingYet' /\ ParentsKnown'
  BY <1>3, <1>4, <1>7 DEF SureWatches, Complete, NothingYet, ParentsKnown
<1>9. Alternate' /\ LastTells'
  BY <1>6 DEF Alternate, LastTells
<1>10. /\ new \subseteq Dir /\ TreeClosed
       /\ \A r \in new \ host.mutable : Exists(r)
       /\ \A d \in Dir, e \in Dir : Under(d, e) /\ Exists(d) => Exists(e)
  BY <1>0, HostIs DEF CalmInv, BaseInv, TreeInv, FirmRoots, TypeInv, TypeOK, TreeClosed
<1>11. HeadsTold' /\ FirstWalk' /\ LaterWalk'
  BY <1>3, <1>4, <1>7 DEF HeadsTold, FirstWalk, LaterWalk, Exists
<1>12. HeadsReal'
  <2> SUFFICES ASSUME NEW q \in Heads', Below(q)', \A x \in Heads' : Under(q, x) => x = q
               PROVE  FALSE
    BY DEF HeadsReal
  <2>1. PICK r \in new : Under(q, r) /\ r # q
    BY <1>3 DEF Below
  <2>2. q \in Dir /\ r \in Dir /\ Exists(q) /\ ~IsIgnored(q)
    BY <1>4, <1>10, <2>1
  <2>3. Exists(r) /\ ~IsIgnored(r)
    BY <1>10, <2>1, <2>2, IgnoredBelow, DirIsPath
  <2> QED
    BY <1>4, <2>1, <2>3
<1>13. WatchesKept'
  BY <1>2 DEF WatchesKept
<1>14. RootsKept'
  <2> SUFFICES ASSUME NEW r \in new, ~IsIgnored(r), Walked(r)',
                      NEW f \in new \ host.mutable, Under(f, r)
               PROVE  FALSE
    BY <1>3 DEF RootsKept, IsIgnored
  <2>1. Exists(r)
    BY <1>10
  <2>2. r \in Heads' /\ Under(r, r)
    BY <1>4, <1>10, <2>1, UnderSelf, DirIsPath
  <2> QED
    BY <2>2 DEF Walked
<1> QED
  BY <1>8, <1>9, <1>11, <1>12, <1>13, <1>14 DEF CoverInv

-----------------------------------------------------------------------------
(* A walk watches the directory it has listed *)

\* On the way down to d there is a directory right below c.
LEMMA ChildOver ==
  ASSUME NEW d \in Dir, NEW c \in Path, Under(d, c), d # c
  PROVE  \E x \in Dir : /\ x \in Path /\ Front(x) = c /\ Len(x) = Len(c) + 1
                        /\ Under(d, x) /\ Under(x, c)
<1>1. d \in Path /\ Len(d) \in Nat /\ Len(c) \in Nat
  BY DirIsPath, PathIsSeq
<1>2. Len(c) <= Len(d) /\ \A i \in 1 .. Len(c) : d[i] = c[i]
  BY <1>1, UnderMeans
<1>3. Len(c) # Len(d)
  BY <1>1, <1>2, SamePath
<1> DEFINE n == Len(c) + 1
           x == SubSeq(d, 1, n)
<1>4. n \in 1 .. Len(d) /\ n \in Nat /\ n - 1 = Len(c)
  BY <1>1, <1>2, <1>3
<1>5. x \in Dir
  BY <1>4, DirAssumption DEF HasPrefixes
<1>6. x \in Path
  BY <1>5, DirIsPath
<1>7. Len(x) = n /\ \A i \in 1 .. n : x[i] = d[i]
  <2>1. d \in Seq(Name)
    BY <1>1 DEF Path
  <2> HIDE DEF n
  <2> QED
    BY <1>4, <2>1, SubSeqProperties
<1> HIDE DEF x
<1>8. Under(d, x)
  BY <1>1, <1>4, <1>6, <1>7, UnderMeans
<1>9. Under(x, c)
  <2>1. \A i \in 1 .. Len(c) : x[i] = c[i]
    BY <1>1, <1>2, <1>7
  <2> QED
    BY <1>1, <1>6, <1>7, <2>1, UnderMeans
<1>10. Front(x) = c
  <2>1. x # <<>>
    BY <1>5, DirIsPath
  <2>2. Front(x) \in Path /\ Len(Front(x)) = Len(c) /\ \A i \in 1 .. Len(c) : Front(x)[i] = x[i]
    BY <1>4, <1>6, <1>7, <2>1, FrontIs
  <2>3. \A i \in 1 .. Len(c) : Front(x)[i] = c[i]
    BY <1>1, <1>2, <1>7, <2>2
  <2> QED
    BY <2>2, <2>3, SamePath
<1> QED
  BY <1>5, <1>6, <1>7, <1>8, <1>9, <1>10

LEMMA WatchStep ==
  ASSUME CalmInv, WalkWatch
  PROVE  /\ walk.cur \in Dir /\ walk.cur \in Path /\ walk.cur # <<>> /\ walk.cur \in Heads
         /\ Exists(walk.cur) /\ ~IsIgnored(walk.cur) /\ UnderRoot(walk.cur) /\ ~Walked(walk.cur)
         /\ Heads = walk.todo \cup {walk.cur} /\ Heads' = walk.todo \cup walk.kids
         /\ walk'.by = walk.by /\ walk'.cur = NoDir /\ walk'.todo = Heads'
         /\ UNCHANGED <<host, ino, queue, roots, rest>> /\ rest = {}
         /\ walk.by = "events" \/ walk.by = "set_roots"
         /\ walk.by = "events" => ~Top(walk.cur)
         /\ AddWatch(walk.cur)
         /\ \A x \in walk.kids : /\ x \in Dir /\ x \in Path /\ x # <<>> /\ Front(x) = walk.cur
                                 /\ Under(x, walk.cur) /\ x # walk.cur /\ Exists(x)
         /\ \A x \in Dir : Under(x, walk.cur) /\ x # walk.cur /\ Exists(x) /\ ~IsIgnored(x) =>
              \E k \in walk.kids : Under(x, k)
<1> DEFINE c == walk.cur
<1>1. /\ c \in Dir /\ c # NoDir /\ c \in Path /\ c # <<>> /\ c \in Heads /\ TypeInv
      /\ walk.by # "nobody" /\ walk.by \in {"nobody", "events", "set_roots"} /\ rest = {}
      /\ Exists(c) /\ walk.kids = {x \in Children(c) : Last(x) \notin host.ignored}
  BY TypeFacts, DirIsPath
     DEF WalkWatch, Busy, CalmInv, BaseInv, TypeInv, TypeOK, Heads, TableInv, WalkShape
<1>2. ~IsIgnored(c) /\ UnderRoot(c) /\ (walk.by = "events" => Below(c)) /\ ~Walked(c)
  BY <1>1, HeadsAre, UnderSelf DEF Walked
<1>3. /\ walk'.by = walk.by /\ walk'.cur = NoDir /\ walk'.todo = walk.todo \cup walk.kids
      /\ UNCHANGED <<host, ino, queue, roots, rest>> /\ AddWatch(c)
  BY <1>1 DEF WalkWatch, fs, TypeInv, TypeOK
<1>4. Heads = walk.todo \cup {c} /\ Heads' = walk.todo \cup walk.kids
  BY <1>1, <1>3 DEF Heads
<1>5. \A x \in walk.kids : /\ x \in Dir /\ x \in Path /\ x # <<>> /\ Front(x) = c
                           /\ Under(x, c) /\ x # c /\ Exists(x)
  BY <1>1, ChildrenAre
<1>6. ASSUME NEW x \in Dir, Under(x, c), x # c, Exists(x), ~IsIgnored(x)
      PROVE  \E k \in walk.kids : Under(x, k)
  <2>1. PICK k \in Dir : /\ k \in Path /\ Front(k) = c /\ Len(k) = Len(c) + 1
                         /\ Under(x, k) /\ Under(k, c)
    BY <1>1, <1>6, ChildOver
  <2>2. Exists(k) /\ ~IsIgnored(k) /\ k # <<>>
    BY <1>6, <2>1, IgnoredBelow, DirIsPath DEF CalmInv, BaseInv, TreeInv, TreeClosed
  <2>3. Last(k) \notin host.ignored
    BY <2>1, <2>2, IgnoredLast
  <2>4. k \in walk.kids
    BY <1>1, <2>1, <2>2, <2>3 DEF Children
  <2> QED
    BY <2>1, <2>4
<1> QED
  BY <1>1, <1>2, <1>3, <1>4, <1>5, <1>6 DEF Top

LEMMA WatchWalked ==
  ASSUME CalmInv, WalkWatch, NEW x \in Path
  PROVE  /\ Walked(x) => Walked(x)'
         /\ Walked(x)' /\ ~Walked(x) => /\ Under(x, walk.cur)
                                        /\ \A k \in walk.kids : ~Under(x, k)
                                        /\ \A z \in Heads : Under(walk.cur, z) => z = walk.cur
<1> DEFINE c == walk.cur
<1>1. /\ c \in Path /\ Heads = walk.todo \cup {c} /\ Heads' = walk.todo \cup walk.kids
      /\ \A k \in walk.kids : k \in Path /\ Under(k, c)
      /\ Heads \subseteq Path
  BY WatchStep, HeadsAre
<1>2. Walked(x) => Walked(x)'
  BY <1>1, UnderTrans DEF Walked
<1>3. ASSUME Walked(x)', ~Walked(x)
      PROVE  /\ Under(x, c) /\ \A k \in walk.kids : ~Under(x, k)
             /\ \A z \in Heads : Under(c, z) => z = c
  <2>1. Under(x, c) /\ (\A k \in walk.kids : ~Under(x, k)) /\ \A z \in walk.todo : ~Under(x, z)
    BY <1>1, <1>3 DEF Walked
  <2> QED
    BY <1>1, <2>1, UnderTrans
<1> QED
  BY <1>2, <1>3

\* The directory gets an entry for the watch w, a new one or the one its inode has.
Adds(c, w) ==
  /\ watches[c] = NoWd
  /\ \/ WatchOn(c) = NoWd /\ w = nwd + 1 /\ \A v \in Wd : kino[v] # ino[c]
     \/ WatchOn(c) = w /\ kino[w] = ino[c] /\ w <= nwd
  /\ kino' = [kino EXCEPT ![w] = ino[c]]
  /\ kpath' = [kpath EXCEPT ![w] = c]
  /\ watches' = [watches EXCEPT ![c] = w]

\* The watch is not one the reader is up to date with.
LEMMA AddsStale ==
  ASSUME Covered, WalkWatch, NEW w \in Wd, Adds(walk.cur, w)
  PROVE  /\ WatchOn(walk.cur) = w => walk.by = "events" /\ ~Sure(walk.cur)
         /\ \A x \in Dir : Entry(x) /\ Sure(x) => watches[x] # w
         /\ Sure(walk.cur) => \A x \in Dir : watches[x] # w
         /\ \A i, x, k : At(i, x, k) /\ SureAbove(x) => i > 0 /\ queue[i].wd # w
<1> DEFINE c == walk.cur
<1>0. /\ CalmInv /\ CoverInv /\ c \in Dir /\ c \in Path /\ c \in Heads /\ Exists(c) /\ rest = {}
      /\ walk.by = "events" \/ walk.by = "set_roots"
      /\ ino[c] # Absent
  BY WatchStep DEF Covered, Exists
<1>1. CASE WatchOn(c) = NoWd /\ w = nwd + 1
  <2>1. nwd \in Nat /\ w > nwd
    BY <1>0, <1>1, TypeFacts DEF CalmInv, BaseInv
  <2>2. \A x \in Dir : watches[x] # w
    <3>1. \A x \in Dir : watches[x] <= nwd /\ watches[x] \in Nat
      BY <1>0, TypeFacts DEF CalmInv, BaseInv, TableInv, HandedOut
    <3> QED
      BY <2>1, <3>1
  <2>3. \A i, x, k : At(i, x, k) => i > 0 /\ queue[i].wd # w
    <3> SUFFICES ASSUME NEW i, NEW x, NEW k, At(i, x, k) PROVE i > 0 /\ queue[i].wd # w
      OBVIOUS
    <3>1. i \in Nat /\ i # 0
      BY <1>0, TellsAbout DEF At, In, CoverInv
    <3>2. i > 0
      BY <3>1
    <3>3. watches[Front(x)] = queue[i].wd /\ Front(x) \in Dir
      BY <1>0, <3>2, TellsAbout DEF CoverInv
    <3> QED
      BY <2>2, <3>2, <3>3
  <2>4. WatchOn(c) # w
    BY <1>1, NoWdIsNone
  <2> QED
    BY <2>2, <2>3, <2>4
<1>2. CASE WatchOn(c) = w /\ kino[w] = ino[c]
  <2>1. Kept(w, c)
    <3>1. PICK d \in Dir : ino[d] = kino[w] /\ Kept(w, d)
      BY <1>0, <1>2 DEF CoverInv, WatchesKept
    <3>2. d = c
      BY <1>0, <1>2, <3>1 DEF CalmInv, BaseInv, TreeInv, Inodes
    <3> QED
      BY <3>1, <3>2
  <2>2. PICK e \in Dir, q \in Path, j \in Nat : Doomed(w, c, e, q, j)
    BY <2>1, NoWdIsNone DEF Kept, Adds
  <2>3. walk.by = "events"
    BY <1>0, <2>2, HeadsAre DEF Doomed
  <2>4. ~Sure(c)
    <3> SUFFICES ASSUME Sure(c) PROVE FALSE
      OBVIOUS
    <3>1. Below(c)
      BY <1>0, <2>3, HeadsAre
    <3>2. Real(c)
      BY <1>0, <2>3, <3>1 DEF CoverInv, LaterWalk, HeadsReal
    <3>3. PICK z \in Path, i \in Nat : Under(c, z) /\ At(i, z, "in")
      BY <2>2, <3>2 DEF Doomed, Real
    <3> QED
      BY <3>3 DEF Sure, Told
  <2>5. ASSUME NEW x \in Dir, Entry(x), Sure(x), watches[x] = w PROVE FALSE
    <3>1. Live(x)
      BY <1>0, <1>2, <2>5 DEF CoverInv, SureWatches
    <3>2. x = c
      BY <1>0, <1>2, <2>5, <3>1 DEF Live, CalmInv, BaseInv, TreeInv, Inodes
    <3> QED
      BY <2>5, <3>2, NoWdIsNone DEF Adds
  <2>6. ASSUME NEW i, NEW x, NEW k, At(i, x, k), SureAbove(x) PROVE i > 0 /\ queue[i].wd # w
    <3>1. i \in Nat /\ i # 0
      BY <1>0, <2>6, TellsAbout DEF At, In, CoverInv
    <3>2. i > 0
      BY <3>1
    <3>3. /\ watches[Front(x)] = queue[i].wd /\ Front(x) \in Dir /\ Entry(Front(x)) /\ x \in Path
          /\ x # <<>>
      BY <1>0, <2>6, <3>2, TellsAbout DEF CoverInv
    <3>4. Sure(Front(x))
      BY <2>6, <3>3, SureFront
    <3> QED
      BY <2>5, <3>2, <3>3, <3>4
  <2> QED
    BY <2>3, <2>4, <2>5, <2>6
<1> QED
  BY <1>1, <1>2 DEF Adds

\* The reader sees what it saw before, where it is up to date with what is above.
LEMMA AddsSight ==
  ASSUME Covered, WalkWatch, NEW w \in Wd, Adds(walk.cur, w), NEW x \in Path
  PROVE  /\ SureAbove(x) => \A i, k : At(i, x, k)' <=> At(i, x, k)
         /\ Sure(x)' <=> Sure(x)
         /\ SureAbove(x)' <=> SureAbove(x)
<1> DEFINE c == walk.cur
<1>0. /\ CalmInv /\ CoverInv /\ ParentsKnown /\ c \in Dir /\ c \in Path /\ c # <<>>
      /\ UNCHANGED <<queue, rest>> /\ rest = {}
      /\ \A v \in Wd : kpath'[v] = IF v = w THEN c ELSE kpath[v]
  BY WatchStep, TypeFacts DEF Covered, CoverInv, Adds, CalmInv, BaseInv
<1>1. ASSUME NEW i, NEW y, NEW k, At(i, y, k)', ~At(i, y, k)
      PROVE  y \in Path /\ y # <<>> /\ Front(y) = c /\ ~Sure(c)
  <2>1. In(queue, i, y, k)' /\ i \in 1 .. Len(queue) /\ queue' = queue
    BY <1>0, <1>1 DEF At, In
  <2> DEFINE e == queue[i]
  <2>2. e.wd \in Wd /\ e.name \in Name /\ e.kind = k /\ e.wd <= nwd
    BY <1>0, <2>1, PathOfIs DEF In
  <2>3. Append(kpath'[e.wd], e.name) = y
    BY <2>1 DEF In, PathOf
  <2>4. e.wd = w
    <3> SUFFICES ASSUME e.wd # w PROVE FALSE
      OBVIOUS
    <3>1. kpath'[e.wd] = kpath[e.wd]
      BY <1>0, <2>2
    <3> QED
      BY <1>1, <2>1, <3>1 DEF At, In, PathOf
  <2>5. y = Append(c, e.name)
    BY <1>0, <2>2, <2>3, <2>4
  <2>6. WatchOn(c) = w
    <3>1. w # nwd + 1
      BY <1>0, <2>2, <2>4, TypeFacts DEF CalmInv, BaseInv
    <3> QED
      BY <3>1 DEF Adds
  <2>7. ~Sure(c)
    BY <2>6, AddsStale
  <2> QED
    BY <1>0, <2>2, <2>5, <2>7, AppendIs
<1>2. ASSUME NEW i, NEW y, NEW k, At(i, y, k), SureAbove(y) PROVE At(i, y, k)'
  <2>1. i > 0 /\ queue[i].wd # w
    BY <1>2, AddsStale
  <2>2. i \in 1 .. Len(queue) /\ queue[i].wd \in Wd /\ In(queue, i, y, k)
    BY <1>0, <1>2, <2>1, TellsAbout DEF At
  <2>3. kpath'[queue[i].wd] = kpath[queue[i].wd]
    BY <1>0, <2>1, <2>2
  <2>4. In(queue, i, y, k)'
    BY <1>0, <2>2, <2>3 DEF In, PathOf
  <2> QED
    BY <2>4 DEF At
<1>3. ASSUME NEW y \in Path, SureAbove(y), NEW i, NEW k, At(i, y, k)' PROVE At(i, y, k)
  BY <1>1, <1>3, SureFront
<1>4. \A y \in Path : Told(y) /\ SureAbove(y) => Told(y)'
  BY <1>2 DEF Told
<1>5. ASSUME NEW y \in Path, Told(y)', ~Told(y)
      PROVE  y # <<>> /\ Front(y) = c /\ ~Sure(c) /\ Under(y, c) /\ y # c
  <2>1. y # <<>> /\ Front(y) = c /\ ~Sure(c)
    BY <1>1, <1>5 DEF Told
  <2> QED
    BY <2>1, FrontIs
<1>6. ASSUME NEW z \in Path, Told(z), Under(x, z)
      PROVE  \E u \in Path : Told(u)' /\ Under(x, u) /\ Under(z, u)
  BY <1>4, <1>6, HighestTold
<1>7. Sure(x)' => Sure(x)
  BY <1>6 DEF Sure
<1>8. ASSUME SureAbove(x)', NEW z \in Path, Told(z), Under(x, z) PROVE z = x
  <2>1. PICK u \in Path : Told(u)' /\ Under(x, u) /\ Under(z, u)
    BY <1>6, <1>8
  <2>2. u = x
    BY <1>8, <2>1 DEF SureAbove
  <2> QED
    BY <1>8, <2>1, <2>2, UnderBoth
<1>9. ASSUME Sure(x), NEW z \in Path, Told(z)', Under(x, z) PROVE FALSE
  <2>1. ~Told(z)
    BY <1>9 DEF Sure
  <2>2. Under(z, c) /\ ~Sure(c)
    BY <1>5, <1>9, <2>1
  <2>3. Sure(c)
    BY <1>0, <1>9, <2>2, UnderTrans, SureUp
  <2> QED
    BY <2>2, <2>3
<1>10. ASSUME SureAbove(x), NEW z \in Path, Told(z)', Under(x, z), z # x PROVE FALSE
  <2>1. ~Told(z)
    BY <1>10 DEF SureAbove
  <2>2. Under(z, c) /\ z # c /\ ~Sure(c)
    BY <1>5, <1>10, <2>1
  <2>3. Under(x, c) /\ x # c
    BY <1>0, <1>10, <2>2, UnderTrans, UnderBoth
  <2>4. Sure(c)
    BY <1>0, <1>10, <2>3, SureAboveUp
  <2> QED
    BY <2>2, <2>4
<1>11. Sure(x)' <=> Sure(x)
  BY <1>7, <1>9 DEF Sure
<1>12. SureAbove(x)' <=> SureAbove(x)
  BY <1>8, <1>10 DEF SureAbove
<1>13. SureAbove(x) => \A i, k : At(i, x, k)' <=> At(i, x, k)
  BY <1>2, <1>3
<1> QED
  BY <1>11, <1>12, <1>13

LEMMA AddsLive ==
  ASSUME Covered, WalkWatch, NEW c, c = walk.cur, NEW w \in Wd, Adds(c, w)
  PROVE  /\ \A x : Entry(x)' <=> Entry(x) \/ x = c
         /\ \A x : (Live(x) => Live(x)') /\ (Live(x)' => Live(x) \/ x = c)
         /\ Live(c)'
         /\ \A x \in Dir : x # c => watches'[x] = watches[x]
         /\ watches'[c] = w
<1>0. /\ CalmInv /\ c \in Dir /\ UNCHANGED ino /\ Exists(c) /\ ino[c] # Absent
      /\ \A x \in Dir : watches'[x] = IF x = c THEN w ELSE watches[x]
      /\ \A v \in Wd : kino'[v] = IF v = w THEN ino[c] ELSE kino[v]
      /\ watches[c] = NoWd /\ w # NoWd /\ nwd \in Nat
      /\ \A x \in Dir : watches[x] # NoWd => watches[x] \in Wd
      /\ \A x \in Dir : watches[x] <= nwd
  BY WatchStep, TypeFacts, NoWdIsNone
     DEF Covered, Adds, CalmInv, BaseInv, Exists, TableInv, HandedOut
<1>1. \A x : Entry(x)' <=> Entry(x) \/ x = c
  BY <1>0 DEF Entry
<1>2. \A x \in Dir : Entry(x) => kino'[watches[x]] = kino[watches[x]]
  <2> SUFFICES ASSUME NEW x \in Dir, Entry(x), watches[x] = w PROVE kino'[w] = kino[w]
    BY <1>0 DEF Entry
  <2>1. CASE w = nwd + 1
    <3>1. watches[x] <= nwd
      BY <1>0
    <3> QED
      BY <1>0, <2>1, <3>1
  <2>2. CASE kino[w] = ino[c]
    BY <1>0, <2>2
  <2> QED
    BY <2>1, <2>2 DEF Adds
<1>3. ASSUME NEW x, Live(x) PROVE Live(x)'
  <2>1. x \in Dir /\ x # c /\ Entry(x)
    BY <1>0, <1>3 DEF Live, Entry
  <2> QED
    BY <1>0, <1>2, <1>3, <2>1 DEF Live, Entry, Exists
<1>4. ASSUME NEW x, Live(x)', x # c PROVE Live(x)
  <2>1. x \in Dir /\ Entry(x)
    BY <1>1, <1>4 DEF Live, Entry
  <2> QED
    BY <1>0, <1>2, <1>4, <2>1 DEF Live, Entry, Exists
<1>5. Live(c)'
  BY <1>0 DEF Live, Entry, Exists
<1> QED
  BY <1>0, <1>1, <1>3, <1>4, <1>5

LEMMA CurLive ==
  ASSUME Covered, WalkWatch, Entry(walk.cur), Sure(walk.cur)
  PROVE  Live(walk.cur)
BY WatchStep DEF Covered, CoverInv, SureWatches

\* What a step of a walk leaves, and what it adds.
LEMMA WatchView ==
  ASSUME Covered, WalkWatch, NEW c, c = walk.cur
  PROVE  /\ \A x : Entry(x)' <=> Entry(x) \/ x = c
         /\ \A x : NoneUnder(x) /\ ~Under(c, x) => NoneUnder(x)'
         /\ \A x : /\ (Below(x)' <=> Below(x)) /\ (Top(x)' <=> Top(x))
                   /\ (UnderRoot(x)' <=> UnderRoot(x))
         /\ \A x : (IsIgnored(x)' <=> IsIgnored(x)) /\ (Exists(x)' <=> Exists(x))
         /\ \A x \in Path : (Sure(x)' <=> Sure(x)) /\ (SureAbove(x)' <=> SureAbove(x))
         /\ \A x \in Path : SureAbove(x) => \A i, k : At(i, x, k)' <=> At(i, x, k)
         /\ Top(c) => Live(c)'
         /\ \A x : Live(x) => Live(x)'
         /\ \A x : TopLive(x) => TopLive(x)'
         /\ \A x : TopLive(x)' /\ ~TopLive(x) => Top(c) /\ Under(x, c)
<1>0. /\ CalmInv /\ CoverInv /\ c \in Dir /\ c \in Path /\ Exists(c) /\ AddWatch(c)
      /\ UNCHANGED <<host, ino, queue, roots, rest>>
  BY WatchStep DEF Covered
<1>1. \A x : /\ (Below(x)' <=> Below(x)) /\ (Top(x)' <=> Top(x)) /\ (UnderRoot(x)' <=> UnderRoot(x))
             /\ (IsIgnored(x)' <=> IsIgnored(x)) /\ (Exists(x)' <=> Exists(x))
  BY <1>0 DEF Below, Top, UnderRoot, IsIgnored, Exists
<1>2. CASE watches[c] # NoWd /\ UNCHANGED <<kino, nwd, kpath, watches>>
  <2>1. \A x : /\ (Entry(x)' <=> Entry(x)) /\ (NoneUnder(x)' <=> NoneUnder(x))
               /\ (Live(x)' <=> Live(x))
    BY <1>0, <1>2 DEF Entry, NoneUnder, Live, Exists
  <2>2. \A i, x, k : At(i, x, k)' <=> At(i, x, k)
    BY <1>0, <1>2 DEF At, In, PathOf
  <2>3. \A x \in Path : (Sure(x)' <=> Sure(x)) /\ (SureAbove(x)' <=> SureAbove(x))
    BY <2>2 DEF Sure, SureAbove, Told
  <2>4. \A x : TopLive(x)' <=> TopLive(x)
    BY <1>0, <1>1, <2>1 DEF TopLive
  <2>5. Entry(c)
    BY <1>0, <1>2 DEF Entry
  <2>6. Top(c) => Live(c)
    BY <1>0, <2>5, TopSure, CurLive DEF CoverInv
  <2> QED
    BY <1>1, <2>1, <2>2, <2>3, <2>4, <2>5, <2>6
<1>3. ASSUME NEW w \in Wd, Adds(c, w)
      PROVE  /\ \A x : Entry(x)' <=> Entry(x) \/ x = c
             /\ \A x : NoneUnder(x) /\ ~Under(c, x) => NoneUnder(x)'
             /\ \A x \in Path : (Sure(x)' <=> Sure(x)) /\ (SureAbove(x)' <=> SureAbove(x))
             /\ \A x \in Path : SureAbove(x) => \A i, k : At(i, x, k)' <=> At(i, x, k)
             /\ Top(c) => Live(c)'
             /\ \A x : Live(x) => Live(x)'
             /\ \A x : TopLive(x) => TopLive(x)'
             /\ \A x : TopLive(x)' /\ ~TopLive(x) => Top(c) /\ Under(x, c)
  <2>1. /\ \A x : Entry(x)' <=> Entry(x) \/ x = c
        /\ \A x : (Live(x) => Live(x)') /\ (Live(x)' => Live(x) \/ x = c)
        /\ Live(c)'
        /\ \A x \in Dir : x # c => watches'[x] = watches[x]
    BY <1>3, AddsLive
  <2>2. \A x : NoneUnder(x) /\ ~Under(c, x) => NoneUnder(x)'
    BY <1>0, <2>1 DEF NoneUnder
  <2>3. \A x : TopLive(x) => TopLive(x)'
    BY <1>0, <1>1, <2>1 DEF TopLive
  <2>4. \A x : TopLive(x)' /\ ~TopLive(x) => Top(c) /\ Under(x, c)
    BY <1>0, <1>1, <2>1 DEF TopLive
  <2> QED
    BY <1>3, <2>1, <2>2, <2>3, <2>4, AddsSight
<1> QED
  BY <1>0, <1>1, <1>2, <1>3, AddIs DEF Adds

LEMMA WatchSure ==
  ASSUME Covered, CalmInv', WalkWatch, NEW c, c = walk.cur
  PROVE  SureWatches' /\ ParentsKnown' /\ Alternate' /\ LastTells' /\ FirstWalk'
<1>0. /\ CalmInv /\ CoverInv /\ c \in Dir /\ c \in Path /\ Exists(c) /\ AddWatch(c)
      /\ UNCHANGED <<host, ino, queue, roots, rest>> /\ rest = {}
      /\ Heads = walk.todo \cup {c} /\ Heads' = walk.todo \cup walk.kids /\ walk'.by = walk.by
      /\ walk.by = "events" \/ walk.by = "set_roots"
      /\ walk.by = "events" => ~Top(c)
      /\ \A x \in walk.kids : Front(x) = c /\ Exists(x)
  BY WatchStep DEF Covered
<1>1. SureWatches'
  <2>1. CASE watches[c] # NoWd /\ UNCHANGED <<kino, nwd, kpath, watches>>
    <3>1. \A x : (Entry(x)' <=> Entry(x)) /\ (Own(x)' <=> Own(x)) /\ (Live(x)' <=> Live(x))
      BY <1>0, <2>1 DEF Entry, Own, Live, Exists
    <3>2. \A x \in Dir : Walked(x) => Walked(x)'
      BY <1>0, WatchWalked, DirIsPath
    <3>3. \A x \in Dir : (Sure(x)' => Sure(x)) /\ (Top(x) => Top(x)')
      BY WatchView, DirIsPath
    <3> QED
      BY <1>0, <2>1, <3>1, <3>2, <3>3 DEF CoverInv, SureWatches
  <2>2. ASSUME NEW w \in Wd, Adds(c, w), NEW d \in Dir, Sure(d)', Entry(d)'
        PROVE  Own(d)' /\ (Live(d)' \/ (Top(d)' /\ Walked(d)' /\ kino'[watches'[d]] = Absent))
    <3>1. /\ Sure(d) /\ (Entry(d) \/ d = c) /\ d \in Path
          /\ Live(c)' /\ watches'[c] = w /\ \A x \in Dir : x # c => watches'[x] = watches[x]
          /\ \A v \in Wd : kpath'[v] = IF v = w THEN c ELSE kpath[v]
          /\ \A v \in Wd : v # w => kino'[v] = kino[v]
      BY <1>0, <2>2, AddsLive, WatchView, DirIsPath, TypeFacts DEF Adds, CalmInv, BaseInv
    <3>2. CASE d = c
      <4>1. \A x \in Dir : watches[x] # w
        BY <2>2, <3>1, <3>2, AddsStale
      <4>2. Own(c)'
        BY <3>1, <4>1 DEF Own
      <4> QED
        BY <3>1, <3>2, <4>2
    <3>3. CASE d # c
      <4>1. Entry(d) /\ watches'[d] = watches[d] /\ watches[d] # w /\ watches[d] \in Wd
        BY <1>0, <2>2, <3>1, <3>3, AddsStale, TypeFacts DEF Entry, CalmInv, BaseInv
      <4>2. /\ Own(d)
            /\ Live(d) \/ (Top(d) /\ Walked(d) /\ kino[watches[d]] = Absent)
        BY <1>0, <3>1, <4>1 DEF CoverInv, SureWatches
      <4>3. Own(d)'
        BY <3>1, <4>1, <4>2 DEF Own
      <4>4. /\ Live(d) => Live(d)'
            /\ Top(d) => Top(d)'
            /\ Walked(d) => Walked(d)'
        BY <1>0, <3>1, WatchView, WatchWalked
      <4> QED
        BY <3>1, <4>1, <4>2, <4>3, <4>4
    <3> QED
      BY <3>2, <3>3
  <2>3. (watches[c] # NoWd /\ UNCHANGED <<kino, nwd, kpath, watches>>) \/ \E w \in Wd : Adds(c, w)
    BY <1>0, AddIs DEF Adds
  <2>4. ASSUME NEW w \in Wd, Adds(c, w) PROVE SureWatches'
    BY <2>2, <2>4 DEF SureWatches
  <2> QED
    BY <2>1, <2>3, <2>4
<1>2. ParentsKnown'
  <2>1. Entry(c)'
    BY WatchView
  <2>2. walk.by = "events" => \A q \in walk.todo : Entry(Front(q))'
    BY <1>0, WatchView DEF CoverInv, ParentsKnown
  <2> QED
    BY <1>0, <2>1, <2>2 DEF ParentsKnown
<1>3. Alternate'
  <2> SUFFICES ASSUME NEW d \in Path, SureAbove(d)', NEW i \in Nat, NEW j \in Nat,
                      At(i, d, "in")', At(j, d, "in")', i < j
               PROVE  \E k \in Nat : i < k /\ k < j /\ At(k, d, "out")'
    BY DEF Alternate
  <2>1. SureAbove(d) /\ \A l, k : At(l, d, k)' <=> At(l, d, k)
    BY WatchView
  <2> QED
    BY <1>0, <2>1 DEF CoverInv, Alternate
<1>4. LastTells'
  <2> SUFFICES ASSUME NEW d \in Path, SureAbove(d)', Below(d), NEW i \in Nat
               PROVE  /\ At(i, d, "in")' /\ ~Real(d)' => \E k \in Nat : i < k /\ At(k, d, "out")'
                      /\ At(i, d, "out")' /\ Real(d)' => \E k \in Nat : i < k /\ At(k, d, "in")'
    BY WatchView DEF LastTells
  <2>1. SureAbove(d) /\ \A l, k : At(l, d, k)' <=> At(l, d, k)
    BY WatchView
  <2>2. \A k : At(i, d, k) => ~Top(c)
    BY <1>0, HeadsAre
  <2>3. ~Top(c) => (Real(d)' <=> Real(d))
    BY WatchView DEF Real
  <2>4. /\ At(i, d, "in") /\ ~Real(d) => \E k \in Nat : i < k /\ At(k, d, "out")
        /\ At(i, d, "out") /\ Real(d) => \E k \in Nat : i < k /\ At(k, d, "in")
    BY <1>0, <2>1 DEF CoverInv, LastTells
  <2> QED
    BY <2>1, <2>2, <2>3, <2>4
<1>5. FirstWalk'
  BY <1>0 DEF CoverInv, FirstWalk, Exists
<1> QED
  BY <1>1, <1>2, <1>3, <1>4, <1>5

\* The directories of a walk that goes on below what it has watched.
LEMMA WatchComplete ==
  ASSUME Covered, WalkWatch, NEW c, c = walk.cur
  PROVE  Complete'
<1>0. /\ CalmInv /\ CoverInv /\ c \in Dir /\ c \in Path /\ c # <<>> /\ c \in Heads
      /\ Exists(c) /\ ~IsIgnored(c) /\ UnderRoot(c)
      /\ walk.by = "events" \/ walk.by = "set_roots"
  BY WatchStep DEF Covered
<1> SUFFICES ASSUME NEW d \in Dir, Sure(d), Walked(d)', Below(d)
             PROVE  /\ Real(d)' /\ ~IsIgnored(d) => Entry(d)'
                    /\ ~Real(d)' \/ IsIgnored(d) => NoneUnder(d)'
  BY WatchView, DirIsPath DEF Complete
<1>1. /\ d \in Path /\ Entry(c)' /\ (Entry(d) => Entry(d)')
      /\ NoneUnder(d) /\ ~Under(c, d) => NoneUnder(d)'
      /\ Exists(d)' <=> Exists(d)
      /\ Real(d) => Real(d)'
      /\ Real(d)' => Real(d) \/ Under(d, c)
  BY WatchView, DirIsPath DEF Real
<1>2. CASE ~Walked(d)
  <2>1. /\ Under(d, c) /\ \A k \in walk.kids : ~Under(d, k)
        /\ \A z \in Heads : Under(c, z) => z = c
    BY <1>0, <1>1, <1>2, WatchWalked
  <2>2. CASE d = c
    <3>1. Real(c)
      BY <1>0, <2>1, <2>2 DEF CoverInv, HeadsReal
    <3> QED
      BY <1>0, <1>1, <2>2, <3>1
  <2>3. CASE d # c
    <3>1. IsIgnored(d) \/ ~Exists(d)
      BY <1>0, <2>1, <2>3, WatchStep
    <3>2. ~Under(c, d)
      BY <1>0, <1>1, <2>1, <2>3, UnderBoth
    <3>3. CASE IsIgnored(d)
      <4>1. NoneUnder(d)
        BY <1>0, <1>1, <3>3, IgnoredBelow, DirIsPath
           DEF NoneUnder, CalmInv, TableInv, EntriesWanted
      <4> QED
        BY <1>1, <3>2, <3>3, <4>1
    <3>4. CASE ~Exists(d)
      <4>1. ASSUME walk.by = "events", NEW e \in Dir, Under(e, d) PROVE watches[e] = NoWd
        <5>1. SureAbove(c)
          BY <1>0, <1>1, <2>1, SureUp, SureIs
        <5>2. NoneUnder(c)
          BY <1>0, <4>1, <5>1 DEF CoverInv, LaterWalk
        <5>3. Under(e, c)
          BY <1>0, <1>1, <2>1, <4>1, UnderTrans, DirIsPath
        <5> QED
          BY <5>2, <5>3 DEF NoneUnder
      <4>2. ASSUME walk.by = "set_roots", NEW e \in Dir, Under(e, d), watches[e] # NoWd PROVE FALSE
        <5>1. Sure(e) /\ Below(e) /\ Entry(e) /\ ~Top(e)
          BY <1>0, <1>1, <4>2, HeadsAre, BelowIs, DirIsPath DEF Entry, Top
        <5>2. Exists(e)
          BY <1>0, <5>1 DEF CoverInv, SureWatches, Live
        <5> QED
          BY <1>0, <3>4, <4>2, <5>2 DEF CalmInv, BaseInv, TreeInv, TreeClosed
      <4>3. NoneUnder(d)
        BY <1>0, <4>1, <4>2 DEF NoneUnder
      <4> QED
        BY <1>1, <3>2, <3>4, <4>3 DEF Real
    <3> QED
      BY <3>1, <3>3, <3>4
  <2> QED
    BY <2>2, <2>3
<1>3. CASE Walked(d)
  <2>1. ~Under(d, c)
    BY <1>0, <1>3 DEF Walked
  <2>2. /\ Real(d) /\ ~IsIgnored(d) => Entry(d)
        /\ ~Real(d) \/ IsIgnored(d) => NoneUnder(d)
    BY <1>0, <1>3 DEF CoverInv, Complete
  <2>3. ASSUME ~Real(d) \/ IsIgnored(d), Under(c, d) PROVE FALSE
    <3>1. ~IsIgnored(d) /\ c # d /\ Exists(d)
      BY <1>0, <1>1, <2>1, <2>3, IgnoredBelow DEF CalmInv, BaseInv, TreeInv, TreeClosed
    <3>2. ~TopLive(d) /\ NoneUnder(d)
      BY <2>2, <2>3, <3>1 DEF Real
    <3>3. CASE walk.by = "events"
      <4>1. Entry(Front(c)) /\ Under(Front(c), d)
        BY <1>0, <1>1, <2>3, <3>1, <3>3, FrontUnder DEF CoverInv, ParentsKnown
      <4> QED
        BY <3>2, <4>1 DEF NoneUnder, Entry
    <3>4. CASE walk.by = "set_roots"
      <4>1. Heads \subseteq Path /\ Under(c, c)
        BY <1>0, HeadsAre, UnderSelf
      <4>2. PICK y \in Heads : Under(c, y) /\ \A z \in Heads : Under(y, z) => z = y
        BY <1>0, <4>1, Highest
      <4>3. y \in Path /\ ~Under(d, y)
        BY <1>3, <4>1, <4>2 DEF Walked
      <4>4. Under(y, d)
        BY <1>0, <1>1, <2>3, <4>2, <4>3, UnderChain
      <4>5. Below(y) /\ Sure(y)
        BY <1>0, <1>1, <3>4, <4>3, <4>4, BelowIs, HeadsAre
      <4>6. TopLive(y)
        BY <1>0, <4>2, <4>5 DEF CoverInv, HeadsReal, Real
      <4>7. UnderRoot(d)
        BY <1>0, <1>1, BelowIs, UnderSelf
      <4> QED
        BY <1>0, <1>1, <3>2, <4>3, <4>4, <4>6, <4>7, SameTops
    <3> QED
      BY <1>0, <3>3, <3>4
  <2> QED
    BY <1>1, <2>1, <2>2, <2>3
<1> QED
  BY <1>2, <1>3

LEMMA WatchTold ==
  ASSUME Covered, WalkWatch, NEW c, c = walk.cur
  PROVE  NothingYet' /\ HeadsTold'
<1>0. /\ CalmInv /\ CoverInv /\ ParentsKnown /\ c \in Dir /\ c \in Path /\ c # <<>> /\ c \in Heads
      /\ walk.by = "events" \/ walk.by = "set_roots"
      /\ Heads = walk.todo \cup {c} /\ Heads' = walk.todo \cup walk.kids
      /\ \A x \in walk.kids : x \in Path /\ Front(x) = c /\ Under(x, c) /\ x # c
  BY WatchStep DEF Covered, CoverInv
<1>1. \A d \in Path : SureAbove(d)' => SureAbove(d) /\ (FirstIn(d)' <=> FirstIn(d))
  <2> SUFFICES ASSUME NEW d \in Path, SureAbove(d)'
               PROVE  SureAbove(d) /\ (FirstIn(d)' <=> FirstIn(d))
    OBVIOUS
  <2>1. SureAbove(d) /\ \A i, k : At(i, d, k)' <=> At(i, d, k)
    BY WatchView
  <2> QED
    BY <2>1 DEF FirstIn
<1>2. \A d : FirstIn(d) => walk.by = "events" /\ \E i : At(i, d, "in")
  BY <1>0, HeadsAre DEF FirstIn
<1>3. NothingYet'
  <2> SUFFICES ASSUME NEW d \in Path, SureAbove(d), Below(d), FirstIn(d) PROVE NoneUnder(d)'
    BY <1>1, WatchView DEF NothingYet
  <2>1. NoneUnder(d) /\ walk.by = "events"
    BY <1>0, <1>2 DEF CoverInv, NothingYet
  <2>2. c # d
    BY <1>0 DEF CoverInv, HeadsTold
  <2>3. ASSUME Under(c, d) PROVE FALSE
    <3>1. Entry(Front(c)) /\ Under(Front(c), d)
      BY <1>0, <2>1, <2>2, <2>3, FrontUnder DEF ParentsKnown
    <3> QED
      BY <2>1, <3>1 DEF NoneUnder, Entry
  <2> QED
    BY <2>1, <2>3, WatchView
<1>4. HeadsTold'
  <2> SUFFICES ASSUME NEW q \in Heads', SureAbove(q)', FirstIn(q)' PROVE FALSE
    BY DEF HeadsTold
  <2>1. q \in Path
    BY <1>0, HeadsAre
  <2>2. SureAbove(q) /\ FirstIn(q)
    BY <1>1, <2>1
  <2>3. CASE q \in walk.todo
    BY <1>0, <2>2, <2>3 DEF CoverInv, HeadsTold
  <2>4. CASE q \in walk.kids
    <3>1. walk.by = "events" /\ Entry(c) /\ Under(c, c)
      BY <1>0, <1>2, <2>2, <2>4, TellsAbout, UnderSelf
    <3>2. SureAbove(c)
      BY <1>0, <2>1, <2>2, <2>4, SureAboveUp
    <3> QED
      BY <1>0, <3>1, <3>2 DEF CoverInv, LaterWalk, NoneUnder, Entry
  <2> QED
    BY <1>0, <2>3, <2>4
<1> QED
  BY <1>3, <1>4

LEMMA WatchReal ==
  ASSUME Covered, WalkWatch, NEW c, c = walk.cur
  PROVE  HeadsReal'
<1>0. /\ CalmInv /\ CoverInv /\ c \in Dir /\ c \in Path /\ c \in Heads /\ UnderRoot(c)
      /\ walk.by = "events" \/ walk.by = "set_roots"
      /\ Heads = walk.todo \cup {c} /\ Heads' = walk.todo \cup walk.kids
      /\ Heads \subseteq Path /\ \A x \in Heads : ~IsIgnored(x)
      /\ \A x \in walk.kids : x \in Path /\ Under(x, c) /\ x # c /\ Exists(x)
  BY WatchStep, HeadsAre DEF Covered
<1> SUFFICES ASSUME NEW q \in Heads', Sure(q)', Below(q)', \A x \in Heads' : Under(q, x) => x = q
             PROVE  Real(q)'
  BY DEF HeadsReal
<1>1. /\ q \in Path /\ Sure(q) /\ Below(q) /\ (Exists(q)' <=> Exists(q))
      /\ TopLive(q) => TopLive(q)'
  BY <1>0, WatchView
<1>2. CASE q \in walk.kids
  <2>1. Under(q, c) /\ q # c /\ Exists(q)
    BY <1>0, <1>2
  <2>2. ASSUME NEW z \in Heads, Under(c, z) PROVE z = c
    <3> SUFFICES ASSUME z \in walk.todo PROVE FALSE
      BY <1>0
    <3>1. z \in Path /\ Under(q, z)
      BY <1>0, <1>1, <2>1, <2>2, UnderTrans
    <3>2. z = q
      BY <1>0, <3>1
    <3> QED
      BY <1>0, <1>1, <2>1, <2>2, <3>2, UnderBoth
  <2>3. Sure(c)
    BY <1>0, <1>1, <2>1, SureUp
  <2>4. CASE Below(c)
    <3>1. TopLive(c)
      BY <1>0, <2>2, <2>3, <2>4 DEF CoverInv, HeadsReal, Real
    <3>2. TopLive(q)
      BY <1>0, <1>1, <2>1, <3>1, SameTops
    <3> QED
      BY <1>1, <2>1, <3>2 DEF Real
  <2>5. CASE Top(c)
    <3>1. Live(c)' /\ Top(c)' /\ c \in roots'
      BY <2>5, WatchView DEF Top
    <3>2. TopLive(q)'
      BY <2>1, <3>1 DEF TopLive
    <3> QED
      BY <1>1, <2>1, <3>2 DEF Real
  <2> QED
    BY <1>0, <2>4, <2>5, BelowIs, UnderSelf
<1>3. CASE q \in walk.todo /\ \A x \in Heads : Under(q, x) => x = q
  <2>1. Real(q)
    BY <1>0, <1>1, <1>3 DEF CoverInv, HeadsReal
  <2> QED
    BY <1>1, <2>1 DEF Real
<1>4. CASE q \in walk.todo /\ ~\A x \in Heads : Under(q, x) => x = q
  <2>1. Under(q, c) /\ q # c
    BY <1>0, <1>4
  <2>2. walk.by = "set_roots"
    BY <1>0, <1>4, <2>1 DEF CoverInv, LaterWalk
  <2>3. Exists(q) /\ q \in Dir /\ ~IsIgnored(q)
    BY <1>0, <1>4, <2>2 DEF CoverInv, FirstWalk, Exists
  <2>4. PICK k \in walk.kids : Under(q, k)
    BY <1>0, <2>1, <2>3, WatchStep
  <2>5. k = q
    BY <1>0, <2>4
  <2> QED
    BY <1>2, <2>5
<1> QED
  BY <1>0, <1>2, <1>3, <1>4

LEMMA WatchLater ==
  ASSUME Covered, WalkWatch, NEW c, c = walk.cur
  PROVE  LaterWalk'
<1>0. /\ CalmInv /\ CoverInv /\ c \in Dir /\ c \in Path /\ c \in Heads
      /\ Heads = walk.todo \cup {c} /\ Heads' = walk.todo \cup walk.kids
      /\ walk'.by = walk.by /\ walk'.cur = NoDir /\ walk'.todo = Heads'
      /\ Heads \subseteq Path /\ \A x \in Heads : x # <<>>
      /\ \A x \in walk.kids : x \in Path /\ x # <<>> /\ Front(x) = c /\ Under(x, c) /\ x # c
  BY WatchStep, HeadsAre DEF Covered
<1> SUFFICES ASSUME walk.by = "events"
             PROVE  /\ walk'.cur \notin walk'.todo
                    /\ \A x, y \in Heads' : Under(x, y) => x = y
                    /\ \A x \in Heads' : SureAbove(x)' => NoneUnder(x)'
  BY <1>0 DEF LaterWalk
<1>1. /\ c \notin walk.todo
      /\ \A x, y \in Heads : Under(x, y) => x = y
      /\ \A x \in Heads : SureAbove(x) => NoneUnder(x)
  BY <1>0 DEF CoverInv, LaterWalk
<1>2. walk'.cur \notin walk'.todo
  BY <1>0 DEF NoDir
<1>3. ASSUME NEW x \in Heads', NEW y \in Heads', Under(x, y) PROVE x = y
  <2>1. CASE x \in walk.todo /\ y \in walk.todo
    BY <1>0, <1>1, <1>3, <2>1
  <2>2. CASE x \in walk.kids /\ y \in walk.todo
    <3>1. Under(y, c) \/ Under(c, y)
      BY <1>0, <1>3, <2>2, UnderChain
    <3> QED
      BY <1>0, <1>1, <2>2, <3>1
  <2>3. CASE x \in walk.todo /\ y \in walk.kids
    <3>1. Under(x, c)
      BY <1>0, <1>3, <2>3, UnderTrans
    <3> QED
      BY <1>0, <1>1, <2>3, <3>1
  <2>4. CASE x \in walk.kids /\ y \in walk.kids
    <3> SUFFICES ASSUME x # y PROVE FALSE
      OBVIOUS
    <3>1. Under(c, y)
      BY <1>0, <1>3, <2>4, FrontUnder
    <3> QED
      BY <1>0, <2>4, <3>1, UnderBoth
  <2> QED
    BY <1>0, <2>1, <2>2, <2>3, <2>4
<1>4. ASSUME NEW x \in Heads', SureAbove(x)' PROVE NoneUnder(x)'
  <2>1. x \in Path
    BY <1>0
  <2>2. SureAbove(x)
    BY <1>4, <2>1, WatchView
  <2>3. CASE x \in walk.todo
    <3>1. ~Under(c, x) /\ NoneUnder(x)
      BY <1>0, <1>1, <2>2, <2>3
    <3> QED
      BY <3>1, WatchView
  <2>4. CASE x \in walk.kids
    <3>1. Under(x, c) /\ x # c
      BY <1>0, <2>4
    <3>2. SureAbove(c)
      BY <1>0, <2>1, <2>2, <3>1, SureAboveUp
    <3>3. NoneUnder(x)
      BY <1>0, <1>1, <2>1, <3>1, <3>2, UnderTrans, DirIsPath DEF NoneUnder
    <3>4. ~Under(c, x)
      BY <1>0, <2>1, <3>1, UnderBoth
    <3> QED
      BY <3>3, <3>4, WatchView
  <2> QED
    BY <1>0, <2>3, <2>4
<1> QED
  BY <1>2, <1>3, <1>4

LEMMA WatchRoots ==
  ASSUME Covered, WalkWatch, NEW c, c = walk.cur
  PROVE  RootsKept'
<1>0. /\ CalmInv /\ CoverInv /\ c \in Path /\ UnderRoot(c)
      /\ UNCHANGED <<host, roots>> /\ roots \subseteq Path
  BY WatchStep, RootsAre DEF Covered
<1> SUFFICES ASSUME NEW r \in roots, Top(r), ~IsIgnored(r), Walked(r)',
                    \E f \in roots \ host.mutable : Under(f, r)
             PROVE  Live(r)'
  BY <1>0, WatchView DEF RootsKept
<1>1. CASE Walked(r)
  BY <1>0, <1>1, WatchView DEF CoverInv, RootsKept
<1>2. CASE ~Walked(r)
  <2>1. Under(r, c)
    BY <1>0, <1>2, WatchWalked
  <2>2. r = c
    BY <1>0, <2>1, BelowIs DEF Top
  <2> QED
    BY <2>2, WatchView
<1> QED
  BY <1>1, <1>2

\* A new watch is on a directory below one that the reader still hears to be gone, and back.
LEMMA WatchNew ==
  ASSUME Covered, WalkWatch, NEW c, c = walk.cur, NEW w \in Wd, Adds(c, w)
  PROVE  Kept(w, c)'
<1>0. /\ CalmInv /\ CoverInv /\ ParentsKnown /\ c \in Dir /\ c \in Path /\ c # <<>> /\ c \in Heads
      /\ Exists(c) /\ UnderRoot(c)
      /\ walk.by = "events" \/ walk.by = "set_roots"
      /\ walk.by = "events" => ~Top(c)
  BY WatchStep DEF Covered, CoverInv
<1>1. watches'[c] = w
  BY AddsLive
<1>2. CASE Sure(c)
  BY <1>0, <1>1, <1>2, WatchView DEF Kept
<1>3. CASE ~Sure(c)
  <2>1. walk.by = "events"
    BY <1>0, <1>3, HeadsAre
  <2>2. PICK q \in Path : Told(q) /\ Under(c, q) /\ SureAbove(q)
    BY <1>0, <1>3, HighestTold DEF Sure
  <2>3. Below(q) /\ UnderRoot(q) /\ q # <<>>
    BY <1>0, <2>2, TellsAbout, BelowIs, UnderSelf DEF Told
  <2>4. ~FirstIn(q)
    <3>1. CASE q = c
      BY <1>0, <2>2, <3>1 DEF CoverInv, HeadsTold
    <3>2. CASE q # c
      <4>1. Entry(Front(c)) /\ Under(Front(c), q)
        BY <1>0, <2>1, <2>2, <3>2, FrontUnder DEF ParentsKnown
      <4>2. ~NoneUnder(q)
        BY <4>1 DEF NoneUnder, Entry
      <4> QED
        BY <1>0, <2>2, <2>3, <4>2 DEF CoverInv, NothingYet
    <3> QED
      BY <3>1, <3>2
  <2>5. PICK j \in Nat : At(j, q, "out")
    <3>1. PICK i \in Nat, k \in {"in", "out"} : At(i, q, k)
      BY <2>2 DEF Told
    <3>2. CASE k = "in"
      BY <2>4, <3>1, <3>2 DEF FirstIn
    <3> QED
      BY <3>1, <3>2
  <2>6. Under(c, Front(q))
    BY <1>0, <2>2, <2>3, FrontIs, UnderTrans
  <2>7. SureAbove(q)' /\ Below(q)' /\ \A i, k : At(i, q, k)' <=> At(i, q, k)
    BY <2>2, <2>3, WatchView
  <2>8. ASSUME TopLive(c)' PROVE \E i \in Nat : i > j /\ At(i, q, "in")'
    <3>1. TopLive(c)
      BY <1>0, <2>1, <2>8, WatchView
    <3>2. TopLive(q)
      BY <1>0, <2>2, <2>3, <3>1, SameTops
    <3>3. Exists(q)
      <4>1. q \in Dir
        BY <1>0, <2>2, <2>3, DirPrefix
      <4> QED
        BY <1>0, <2>2, <4>1 DEF CalmInv, BaseInv, TreeInv, TreeClosed
    <3>4. PICK i \in Nat : j < i /\ At(i, q, "in")
      BY <1>0, <2>2, <2>3, <2>5, <3>2, <3>3 DEF CoverInv, LastTells, Real
    <3> QED
      BY <2>7, <3>4
  <2>9. Doomed(w, c, c, q, j)'
    BY <1>1, <2>2, <2>5, <2>6, <2>7, <2>8 DEF Doomed
  <2> QED
    BY <1>0, <2>9 DEF Kept
<1> QED
  BY <1>2, <1>3

LEMMA WatchKept ==
  ASSUME Covered, WalkWatch, NEW c, c = walk.cur
  PROVE  WatchesKept'
<1>0. /\ CalmInv /\ CoverInv /\ c \in Dir /\ Exists(c) /\ AddWatch(c) /\ UnderRoot(c)
      /\ UNCHANGED <<ino, roots>>
      /\ walk.by = "events" => ~Top(c)
      /\ walk.by = "events" \/ walk.by = "set_roots"
      /\ watches \in [Dir -> Nat] /\ kino \in [Wd -> Nat]
  BY WatchStep, TypeFacts DEF Covered, CalmInv, BaseInv
<1>1. \/ watches[c] # NoWd /\ UNCHANGED <<kino, nwd, kpath, watches>>
      \/ \E u \in Wd : Adds(c, u)
  BY <1>0, AddIs DEF Adds
<1>2. ASSUME NEW x \in Dir, watches[x] # NoWd PROVE watches'[x] = watches[x]
  <2>1. ASSUME NEW u \in Wd, Adds(c, u) PROVE watches'[x] = watches[x]
    <3>1. x # c
      BY <1>2, <2>1 DEF Adds
    <3> QED
      BY <2>1, <3>1, AddsLive
  <2> QED
    BY <1>1, <2>1
<1>3. ASSUME NEW v \in Wd, NEW d \in Dir, Kept(v, d) PROVE Kept(v, d)'
  <2>0. v # NoWd /\ d \in Path
    BY NoWdIsNone, DirIsPath
  <2>1. CASE watches[d] = v /\ Sure(d)
    BY <1>2, <2>0, <2>1, WatchView DEF Kept
  <2>2. ASSUME NEW e \in Dir, NEW q \in Path, NEW j \in Nat, Doomed(v, d, e, q, j)
        PROVE  Doomed(v, d, e, q, j)'
    <3>1. /\ watches[e] = v /\ Under(e, q) /\ Below(q) /\ SureAbove(q) /\ At(j, q, "out")
          /\ Under(d, Front(q))
      BY <2>2 DEF Doomed
    <3>2. watches'[e] = v
      BY <1>2, <2>0, <3>1
    <3>3. ~Top(c)
      BY <1>0, <3>1, HeadsAre
    <3>4. Below(q)' /\ SureAbove(q)' /\ At(j, q, "out")'
      BY <3>1, WatchView
    <3>5. ASSUME TopLive(d)'
          PROVE  \E z \in Path, i \in Nat :
                   i > j /\ Under(d, z) /\ Below(z)' /\ SureAbove(z)' /\ At(i, z, "in")'
      <4>1. TopLive(d)
        BY <3>3, <3>5, WatchView
      <4>2. PICK z \in Path, i \in Nat :
              i > j /\ Under(d, z) /\ Below(z) /\ SureAbove(z) /\ At(i, z, "in")
        BY <2>2, <4>1 DEF Doomed
      <4>3. Below(z)' /\ SureAbove(z)' /\ At(i, z, "in")'
        BY <4>2, WatchView
      <4> QED
        BY <4>2, <4>3
    <3> QED
      BY <3>1, <3>2, <3>4, <3>5 DEF Doomed
  <2> QED
    BY <1>3, <2>1, <2>2 DEF Kept
<1> SUFFICES ASSUME NEW w \in Wd, kino'[w] # Absent
             PROVE  \E d \in Dir : ino'[d] = kino'[w] /\ UnderRoot(d)' /\ Kept(w, d)'
  BY DEF WatchesKept
<1>4. CASE kino'[w] = kino[w]
  <2>1. PICK d \in Dir : ino[d] = kino[w] /\ UnderRoot(d) /\ Kept(w, d)
    BY <1>0, <1>4 DEF CoverInv, WatchesKept
  <2>2. UnderRoot(d)' /\ Kept(w, d)'
    BY <1>3, <2>1, WatchView
  <2> QED
    BY <1>0, <1>4, <2>1, <2>2
<1>5. CASE kino'[w] # kino[w]
  <2>1. PICK u \in Wd : Adds(c, u)
    BY <1>1, <1>5
  <2>2. u = w /\ kino'[w] = ino[c]
    BY <1>0, <1>5, <2>1 DEF Adds
  <2>3. UnderRoot(c)' /\ Kept(w, c)'
    BY <1>0, <2>1, <2>2, WatchNew, WatchView
  <2> QED
    BY <1>0, <2>2, <2>3
<1> QED
  BY <1>4, <1>5

LEMMA WatchCovered ==
  ASSUME Covered, CalmInv', WalkWatch
  PROVE  CoverInv'
<1>1. PICK c : c = walk.cur
  OBVIOUS
<1>2. SureWatches' /\ ParentsKnown' /\ Alternate' /\ LastTells' /\ FirstWalk'
  BY <1>1, WatchSure
<1>3. Complete' /\ NothingYet' /\ HeadsTold' /\ HeadsReal'
  BY <1>1, WatchComplete, WatchTold, WatchReal
<1>4. LaterWalk' /\ WatchesKept' /\ RootsKept'
  BY <1>1, WatchLater, WatchKept, WatchRoots
<1> QED
  BY <1>2, <1>3, <1>4 DEF CoverInv

-----------------------------------------------------------------------------
\* Every step of a calm host keeps what the reader knows, until aclose().
LEMMA StepCovered ==
  ASSUME Covered, CalmInv', [Next]_vars
  PROVE  CoverInv'
<1>1. CASE UNCHANGED vars
  <2>1. UNCHANGED <<host, ino, kino, kpath, queue, watches, roots, rest, Heads>> /\ walk' = walk
    BY <1>1 DEF vars, fs, kernel, Heads
  <2> QED
    BY <2>1, SameCovered DEF Covered
<1>2. CASE FileSystem
  BY <1>2, FileSystemCovered
<1>3. CASE Walking
  BY <1>3, ListCovered, WatchCovered, DoneCovered DEF Walking
<1>4. CASE Reading
  BY <1>4, ReadingCovered
<1>5. ~Aclose
  <2>1. ~closed'
    BY DEF CalmInv
  <2> QED
    BY <2>1 DEF Aclose
<1>6. ~End
  BY DEF End, Covered, CalmInv
<1> QED
  BY <1>1, <1>2, <1>3, <1>4, <1>5, <1>6, ResumeCovered, SetRootsCovered DEF Next

CoveredInv == TablesInv /\ (Calm /\ ~closed => CoverInv)

LEMMA InitCoveredInv == Init => CoveredInv
BY InitTablesInv, InitCovered DEF CoveredInv

LEMMA StepCoveredInv == CoveredInv /\ [Next]_vars => CoveredInv'
<1> SUFFICES ASSUME CoveredInv, [Next]_vars PROVE CoveredInv'
  OBVIOUS
<1>1. TablesInv'
  BY StepTablesInv DEF CoveredInv
<1>2. ASSUME Calm', ~closed' PROVE CoverInv'
  <2>1. Calm /\ ~closed
    BY <1>2, CalmStays
  <2>2. CalmInv
    BY <2>1 DEF CoveredInv, TablesInv, CalmInv, BaseInv
  <2>3. CalmInv'
    BY <1>1, <1>2 DEF TablesInv, CalmInv, BaseInv
  <2>4. Covered
    BY <2>1, <2>2 DEF CoveredInv, Covered
  <2> QED
    BY <2>3, <2>4, StepCovered
<1> QED
  BY <1>1, <1>2 DEF CoveredInv

\* When nothing is left to do, the reader knows everything.
LEMMA SettledSure ==
  ASSUME CalmInv, Settled
  PROVE  \A d : Sure(d) /\ Walked(d)
<1>1. walk = NoWalk /\ rest = {} /\ queue = <<>>
  BY DEF Settled, CalmInv, TableInv, WalkShape
<1>2. Heads = {} /\ 1 .. Len(queue) = {}
  BY <1>1 DEF Heads, NoWalk
<1>3. \A i, x, k : ~At(i, x, k)
  BY <1>1, <1>2 DEF At, In
<1> QED
  BY <1>2, <1>3 DEF Sure, Told, Walked

\* The watcher is recursive.  On a calm host, whatever other processes create, remove and
\* rename there, and whenever: once the walks and the reader have nothing left to do, each root
\* that cannot go away is watched, and each directory under a watched root is, by its name.
THEOREM Recursive == Spec => []Coverage
<1>1. CoveredInv => Coverage
  <2> SUFFICES ASSUME CoveredInv, Calm, Settled
               PROVE  /\ \A r \in roots \ host.mutable : IsIgnored(r) \/ Attached(r)
                      /\ \A d \in Dir : Wanted(d) =>
                           watches[d] # NoWd /\ kino[watches[d]] = ino[d] /\ kpath[watches[d]] = d
    BY DEF Coverage
  <2>1. CalmInv /\ CoverInv /\ Covered
    BY DEF CoveredInv, TablesInv, CalmInv, BaseInv, Settled, Covered
  <2>2. \A d : Sure(d) /\ Walked(d)
    BY <2>1, SettledSure
  <2>3. ASSUME NEW r \in roots \ host.mutable, ~IsIgnored(r) PROVE Attached(r)
    <3>1. r \in Dir /\ r \in Path /\ Exists(r) /\ Under(r, r) /\ roots \subseteq Path
      BY <2>1, RootsAre, UnderSelf
    <3>2. UnderRoot(r)
      BY <3>1 DEF UnderRoot
    <3>3. PICK t \in roots : Top(t) /\ Under(r, t)
      BY <2>1, <3>1, <3>2, TopAbove
    <3>4. ~IsIgnored(t)
      BY <2>3, <3>1, <3>3, IgnoredBelow
    <3>5. Live(t)
      BY <2>1, <2>2, <2>3, <3>3, <3>4 DEF CoverInv, RootsKept
    <3>6. Real(r)
      BY <3>1, <3>3, <3>5 DEF Real, TopLive
    <3> QED
      BY <2>1, <2>2, <2>3, <3>1, <3>2, <3>6, Watched DEF Attached, Live, Entry
  <2>4. ASSUME NEW d \in Dir, Wanted(d)
        PROVE  watches[d] # NoWd /\ kino[watches[d]] = ino[d] /\ kpath[watches[d]] = d
    <3>1. PICK r \in roots : Attached(r) /\ Under(d, r)
      BY <2>4 DEF Wanted
    <3>2. /\ Exists(d) /\ ~IsIgnored(d) /\ d \in Path /\ r \in Dir /\ r \in Path
          /\ Entry(r) /\ Live(r)
      BY <2>1, <2>4, <3>1, RootsAre, DirIsPath DEF Wanted, Attached, Live, Entry
    <3>3. Real(r) /\ UnderRoot(r)
      BY <2>1, <2>2, <3>2, EntryReal
    <3>4. Real(d) /\ UnderRoot(d)
      BY <2>1, <3>1, <3>2, <3>3, SameTops, BelowIs DEF Real
    <3> QED
      BY <2>1, <2>2, <3>2, <3>4, Watched DEF Live, Own, Entry
  <2> QED
    BY <2>3, <2>4
<1> QED
  BY <1>1, InitCoveredInv, StepCoveredInv, PTL DEF Spec
=============================================================================
