-------------------------- MODULE DriveTreeProofs --------------------------
(***************************************************************************)
(* What DriveTree keeps, for every set of items and names, every drive at  *)
(* first and any number of changes and look-ups: its types, that inodes    *)
(* with look-ups have paths, that the tree is the drive, and that a load   *)
(* mends the map of inodes.                                                *)
(***************************************************************************)
EXTENDS DriveTreeLemmas

-----------------------------------------------------------------------------
(***************************************************************************)
(* Types, part by part.  `K` are the numbers the service has given so far: *)
(* nobody can know another one.                                            *)
(***************************************************************************)
TreeIn(t, K) == TreeOK(t) /\ DOMAIN t \subseteq K

InodesOK(m) ==
  /\ m = [paths |-> m.paths, count |-> m.count]
  /\ DOMAIN m.paths \subseteq Ids /\ m.count \in [Ids -> Nat]
  /\ \A i \in DOMAIN m.paths : m.paths[i] # {} /\ m.paths[i] \subseteq Seq(Names)

KernelIn(k, K) ==
  /\ DOMAIN k \subseteq K
  /\ \A i \in DOMAIN k :
       /\ k[i] \in [n : 1..MaxLookups, parent : Folders \cup {Root, NoItem}, name : Names \cup {NoName}]
       /\ k[i].parent # NoItem => k[i].name \in Names

RefreshIn(r, K) ==
  /\ r = [pc |-> r.pc, todo |-> r.todo, answer |-> r.answer, before |-> r.before]
  /\ r.pc \in {"idle", "list", "store", "paths", "lost", "dead"}
  /\ r.todo \in Seq(Folders \cup {Root}) /\ TreeIn(r.answer, K)
  /\ r.pc = "store" => r.todo # << >>

RequestIn(f, K) ==
  /\ f \in [pc : {"idle", "call", "note", "dead"}, op : {"none", "remove", "rename", "mkdir"},
            id : K \cup {Root, NoItem},
            parent : Folders \cup {Root, NoItem}, newParent : Folders \cup {Root, NoItem},
            name : Names \cup {NoName}, newName : Names \cup {NoName},
            path : Seq(Names), newPath : Seq(Names)]
  /\ f.op = "remove" => f.id \in K
  /\ f.op \in {"remove", "rename", "mkdir"} => f.name \in Names
  /\ f.op = "rename" => f.newName \in Names

RestOK ==
  /\ mode \in {"lazy", "eager"} /\ left \in [own : Nat, remote : Nat, failures : Nat]
  /\ stale \in [now : BOOLEAN, raced : BOOLEAN, overlap : BOOLEAN]

Known == Ids \ unused

ServiceOK == DriveOK(drive) /\ unused \subseteq Ids \ DOMAIN drive

TypeInv ==
  /\ ServiceOK /\ ClientIn(client, Known) /\ TreeIn(oldTree, Known)
  /\ InodesOK(inodes) /\ KernelIn(kernel, Known)
  /\ RefreshIn(refresh, Known) /\ RequestIn(fuse, Known) /\ RestOK

(* It is the type invariant, and more. *)
LEMMA TypeInvIsMore == TypeInv => TypeOK
<1> SUFFICES ASSUME TypeInv PROVE TypeOK
  OBVIOUS
<1> USE DEF Known
<1>1. /\ DriveOK(drive) /\ unused \subseteq Ids \ DOMAIN drive
      /\ mode \in {"lazy", "eager"} /\ left \in [own : Nat, remote : Nat, failures : Nat]
      /\ stale \in [now : BOOLEAN, raced : BOOLEAN, overlap : BOOLEAN]
  BY DEF TypeInv, ServiceOK, RestOK
<1>2. /\ TreeOK(client.items) /\ TreeOK(oldTree)
      /\ \A f \in DOMAIN client.contents : TreeOK(client.contents[f])
  BY DEF TypeInv, ClientIn, TreeIn
<1>3. /\ DOMAIN inodes.paths \subseteq Ids /\ inodes.count \in [Ids -> Nat]
      /\ \A i \in DOMAIN inodes.paths : inodes.paths[i] # {} /\ inodes.paths[i] \subseteq Seq(Names)
  BY DEF TypeInv, InodesOK
<1>4. /\ DOMAIN kernel \subseteq Ids
      /\ \A i \in DOMAIN kernel :
           /\ kernel[i] \in [n : 1..MaxLookups, parent : Folders \cup {Root, NoItem},
                             name : Names \cup {NoName}]
           /\ kernel[i].parent # NoItem => kernel[i].name \in Names
  BY DEF TypeInv, KernelIn
<1>5. /\ refresh.pc \in {"idle", "list", "store", "paths", "lost", "dead"}
      /\ refresh.todo \in Seq(Folders \cup {Root}) /\ TreeOK(refresh.answer)
      /\ refresh.pc = "store" => refresh.todo # << >>
  BY DEF TypeInv, RefreshIn, TreeIn
<1>6. RequestOK
  <2>1. RequestIn(fuse, Known)
    BY DEF TypeInv
  <2>2. \A K \in SUBSET Ids : RequestIn(fuse, K) => RequestOK
    BY DEF RequestIn, RequestOK
  <2> QED BY <2>1, <2>2
<1> QED BY <1>1, <1>2, <1>3, <1>4, <1>5, <1>6 DEF TypeOK

(* What is known stays known. *)
LEMMA KnownStays ==
  ASSUME NEW K \in SUBSET Ids, NEW K2 \in SUBSET Ids, K \subseteq K2
  PROVE  /\ \A t : TreeIn(t, K) => TreeIn(t, K2)
         /\ \A c : ClientIn(c, K) => ClientIn(c, K2)
         /\ \A k : KernelIn(k, K) => KernelIn(k, K2)
         /\ \A r : RefreshIn(r, K) => RefreshIn(r, K2)
         /\ \A f : RequestIn(f, K) => RequestIn(f, K2)
<1>1. \A t : TreeIn(t, K) => TreeIn(t, K2)
  BY DEF TreeIn
<1>2. \A c : ClientIn(c, K) => ClientIn(c, K2)
  BY DEF ClientIn
<1>3. \A k : KernelIn(k, K) => KernelIn(k, K2)
  BY DEF KernelIn
<1>4. \A r : RefreshIn(r, K) => RefreshIn(r, K2)
  BY <1>1 DEF RefreshIn
<1>5. \A f : RequestIn(f, K) => RequestIn(f, K2)
  BY DEF RequestIn
<1> QED BY <1>1, <1>2, <1>3, <1>4, <1>5

-----------------------------------------------------------------------------
(***************************************************************************)
(* The map of inodes.                                                      *)
(***************************************************************************)
(* No inode with look-ups has lost its paths. *)
NoWorse(m, m2) ==
  \A i \in Ids : m2.count[i] > 0 /\ i \notin DOMAIN m2.paths
                   => m.count[i] > 0 /\ i \notin DOMAIN m.paths

(* The paths of an inode. *)
LEMMA PathsAre ==
  ASSUME NEW m, InodesOK(m), NEW i PROVE PathsOf(m, i) \subseteq Seq(Names)
<1>1. CASE i = Root
  BY <1>1, EmptySeq DEF PathsOf
<1>2. CASE i # Root
  BY <1>2 DEF PathsOf, InodesOK
<1> QED BY <1>1, <1>2

(* A path leads to an element, or to nothing. *)
LEMMA FirstIs ==
  ASSUME NEW t, TreeOK(t), NEW p, p # << >> PROVE First(t, p) = NoItem \/ First(t, p) \in DOMAIN t
<1>1. AtPath(t, p) \subseteq DOMAIN t
  BY AtPathIs
<1>2. AtPath(t, p) = {} => First(t, p) = NoItem
  BY AtPathIs
<1>3. AtPath(t, p) # {} => First(t, p) \in AtPath(t, p)
  BY AtPathIs
<1> QED BY <1>1, <1>2, <1>3

(* To count look-ups of inodes that have, or get, some paths. *)
LEMMA MorePathsOK ==
  ASSUME NEW m, InodesOK(m), NEW g, DOMAIN g \subseteq Ids,
         \A i \in DOMAIN g : g[i] # {} /\ g[i] \subseteq Seq(Names)
  PROVE  LET m2 == [paths |-> Over(g, m.paths), count |-> Counted(m, DOMAIN g)]
         IN InodesOK(m2) /\ NoWorse(m, m2)
<1> DEFINE m2 == [paths |-> Over(g, m.paths), count |-> Counted(m, DOMAIN g)]
<1>1. /\ DOMAIN m.paths \subseteq Ids /\ \A i \in Ids : m.count[i] \in Nat
      /\ \A i \in DOMAIN m.paths : m.paths[i] # {} /\ m.paths[i] \subseteq Seq(Names)
  BY DEF InodesOK
<1>2. m2.paths = Over(g, m.paths) /\ m2.count = Counted(m, DOMAIN g)
      /\ m2 = [paths |-> m2.paths, count |-> m2.count]
  OBVIOUS
<1>3. /\ DOMAIN Over(g, m.paths) = DOMAIN g \cup DOMAIN m.paths
      /\ \A i \in DOMAIN g : Over(g, m.paths)[i] = g[i]
      /\ \A i \in DOMAIN m.paths : i \notin DOMAIN g => Over(g, m.paths)[i] = m.paths[i]
  BY DEF Over
<1>4. /\ Counted(m, DOMAIN g) \in [Ids -> Nat]
      /\ \A i \in Ids : i \notin DOMAIN g => Counted(m, DOMAIN g)[i] = m.count[i]
  BY <1>1 DEF Counted
<1> HIDE DEF m2
<1>5. InodesOK(m2)
  BY <1>1, <1>2, <1>3, <1>4 DEF InodesOK
<1>6. NoWorse(m, m2)
  BY <1>1, <1>2, <1>3, <1>4 DEF NoWorse
<1> QED BY <1>5, <1>6 DEF m2

(* Paths are added to the map. *)
LEMMA AddPathsOK ==
  ASSUME NEW m, InodesOK(m), NEW news, DOMAIN news \subseteq Ids, \A i \in DOMAIN news : news[i] \in Seq(Names)
  PROVE  InodesOK(AddPaths(m, news)) /\ NoWorse(m, AddPaths(m, news))
<1> DEFINE g == [i \in DOMAIN news |-> PathsOf(m, i) \cup {news[i]}]
<1>1. DOMAIN g = DOMAIN news
  OBVIOUS
<1>2. \A i \in DOMAIN g : g[i] # {} /\ g[i] \subseteq Seq(Names)
  BY PathsAre
<1>3. AddPaths(m, news) = [paths |-> Over(g, m.paths), count |-> Counted(m, DOMAIN g)]
  BY <1>1 DEF AddPaths
<1> HIDE DEF g
<1> QED BY <1>1, <1>2, <1>3, MorePathsOK

(* An element that has properties is found at its path, or another is. *)
LEMMA FirstFound ==
  ASSUME NEW t, TreeOK(t), NEW j \in DOMAIN t, t[j].kind # "empty"
  PROVE  /\ t[j].path \in Seq(Names) /\ t[j].path # << >> /\ t[j].name \in Names
         /\ First(t, t[j].path) \in DOMAIN t /\ t[First(t, t[j].path)].path = t[j].path
<1>1. /\ t[j].path \in Seq(Names) /\ t[j].path # << >> /\ t[j].name \in Names
  BY ElementIs DEF TreeOK
<1>2. AtPath(t, t[j].path) \subseteq DOMAIN t /\ j \in AtPath(t, t[j].path)
      /\ \A i \in AtPath(t, t[j].path) : t[i].path = t[j].path
  BY <1>1, AtPathIs
<1>3. First(t, t[j].path) \in AtPath(t, t[j].path)
  BY <1>2, AtPathIs
<1> QED BY <1>1, <1>2, <1>3

(* The map takes the paths of a tree. *)
LEMMA RefreshedPathsOK ==
  ASSUME NEW m, InodesOK(m), NEW t, TreeOK(t), Walkable(t)
  PROVE  InodesOK(RefreshedPaths(m, t)) /\ NoWorse(m, RefreshedPaths(m, t))
<1> DEFINE firsts == { First(t, t[i].path) : i \in DOMAIN t }
           news == { i \in firsts : PathsOf(m, i) # {t[i].path} }
           g == [i \in news |-> {t[i].path}]
<1>1. news \subseteq DOMAIN t
  BY FirstFound DEF Walkable
<1>2. DOMAIN g = news /\ DOMAIN t \subseteq Ids
  BY DEF TreeOK
<1>3. ASSUME NEW i \in news PROVE g[i] = {t[i].path} /\ t[i].path \in Seq(Names)
  <2>1. i \in DOMAIN t /\ t[i].kind # "empty"
    BY <1>1 DEF Walkable
  <2> QED BY <2>1, FirstFound
<1>4. RefreshedPaths(m, t) = [paths |-> Over(g, m.paths), count |-> Counted(m, DOMAIN g)]
  BY <1>2 DEF RefreshedPaths
<1> HIDE DEF g
<1>5. \A i \in DOMAIN g : g[i] # {} /\ g[i] \subseteq Seq(Names)
  BY <1>2, <1>3
<1>6. DOMAIN g \subseteq Ids
  BY <1>1, <1>2
<1> QED BY <1>4, <1>5, <1>6, MorePathsOK

(* Look-ups are given back. *)
LEMMA ForgottenOK ==
  ASSUME NEW m, InodesOK(m), NEW i \in Ids, NEW n \in Nat
  PROVE  InodesOK(Forgotten(m, i, n)) /\ NoWorse(m, Forgotten(m, i, n))
<1>1. m = [paths |-> m.paths, count |-> m.count] /\ m.count \in [Ids -> Nat]
      /\ \A j \in Ids : m.count[j] \in Nat
  BY DEF InodesOK
<1>2. CASE m.count[i] > n
  <2> DEFINE m2 == [m EXCEPT !.count[i] = @ - n]
  <2>1. m2 = [paths |-> m.paths, count |-> [m.count EXCEPT ![i] = @ - n]]
    BY <1>1
  <2>2. m.count[i] - n \in Nat
    BY <1>1, <1>2
  <2>3. [m.count EXCEPT ![i] = @ - n] \in [Ids -> Nat]
    BY <1>1, <2>2
  <2>4. \A j \in Ids : [m.count EXCEPT ![i] = @ - n][j] = IF j = i THEN m.count[i] - n ELSE m.count[j]
    BY <1>1
  <2> HIDE DEF m2
  <2>5. InodesOK(m2)
    BY <2>1, <2>3 DEF InodesOK
  <2>6. NoWorse(m, m2)
    BY <1>1, <1>2, <2>1, <2>4 DEF NoWorse
  <2> QED BY <1>2, <2>5, <2>6 DEF Forgotten, m2
<1>3. CASE ~(m.count[i] > n)
  <2> DEFINE m2 == [paths |-> Without(m.paths, {i}), count |-> [m.count EXCEPT ![i] = 0]]
  <2>1. /\ DOMAIN m2.paths = DOMAIN m.paths \ {i} /\ \A j \in DOMAIN m2.paths : m2.paths[j] = m.paths[j]
        /\ m2 = [paths |-> m2.paths, count |-> m2.count]
    BY DEF Without, Restrict
  <2>2. m2.count \in [Ids -> Nat] /\ \A j \in Ids : m2.count[j] = IF j = i THEN 0 ELSE m.count[j]
    BY <1>1
  <2>3. Forgotten(m, i, n) = m2
    BY <1>3 DEF Forgotten
  <2> HIDE DEF m2
  <2>4. InodesOK(m2)
    BY <2>1, <2>2 DEF InodesOK
  <2>5. NoWorse(m, m2)
    BY <2>1, <2>2 DEF NoWorse
  <2> QED BY <2>3, <2>4, <2>5
<1> QED BY <1>2, <1>3

(* A path is taken out: that inode alone may be left without one. *)
LEMMA MinusPathOK ==
  ASSUME NEW m, InodesOK(m), NEW i \in DOMAIN m.paths, NEW p
  PROVE  /\ InodesOK(MinusPath(m, i, p)) /\ MinusPath(m, i, p).count = m.count
         /\ DOMAIN m.paths \ {i} \subseteq DOMAIN MinusPath(m, i, p).paths
<1>1. m = [paths |-> m.paths, count |-> m.count]
  BY DEF InodesOK
<1>2. CASE Cardinality(m.paths[i]) > 1
  <2> DEFINE m2 == [m EXCEPT !.paths[i] = @ \ {p}]
  <2>1. m2 = [paths |-> [m.paths EXCEPT ![i] = @ \ {p}], count |-> m.count]
    BY <1>1
  <2>2. m.paths[i] \ {p} # {}
    <3>1. SUFFICES ASSUME m.paths[i] \ {p} = {} PROVE FALSE
      OBVIOUS
    <3>2. CASE m.paths[i] = {}
      BY <1>2, <3>2, FS_EmptySet
    <3>3. CASE m.paths[i] = {p}
      <4>1. Cardinality({p}) = 1
        BY FS_Singleton
      <4> QED BY <1>2, <3>3, <4>1
    <3> QED BY <3>1, <3>2, <3>3
  <2>3. /\ DOMAIN [m.paths EXCEPT ![i] = @ \ {p}] = DOMAIN m.paths
        /\ \A j \in DOMAIN m.paths : [m.paths EXCEPT ![i] = @ \ {p}][j] = IF j = i THEN m.paths[i] \ {p} ELSE m.paths[j]
    OBVIOUS
  <2> HIDE DEF m2
  <2>4. InodesOK(m2)
    BY <2>1, <2>2, <2>3 DEF InodesOK
  <2> QED BY <1>2, <2>1, <2>3, <2>4 DEF MinusPath, m2
<1>3. CASE ~(Cardinality(m.paths[i]) > 1)
  <2> DEFINE m2 == [m EXCEPT !.paths = Without(@, {i})]
  <2>1. m2 = [paths |-> Without(m.paths, {i}), count |-> m.count]
    BY <1>1
  <2>2. /\ DOMAIN Without(m.paths, {i}) = DOMAIN m.paths \ {i}
        /\ \A j \in DOMAIN m.paths \ {i} : Without(m.paths, {i})[j] = m.paths[j]
    BY DEF Without, Restrict
  <2>3. MinusPath(m, i, p) = m2
    BY <1>3 DEF MinusPath
  <2> HIDE DEF m2
  <2>4. InodesOK(m2)
    BY <2>1, <2>2 DEF InodesOK
  <2> QED BY <2>1, <2>2, <2>3, <2>4
<1> QED BY <1>2, <1>3

(* Other paths for an inode that has some. *)
LEMMA OtherPathsOK ==
  ASSUME NEW m, InodesOK(m), NEW i \in DOMAIN m.paths, NEW P, P # {}, P \subseteq Seq(Names)
  PROVE  InodesOK([m EXCEPT !.paths[i] = P]) /\ NoWorse(m, [m EXCEPT !.paths[i] = P])
<1> DEFINE m2 == [m EXCEPT !.paths[i] = P]
<1>1. m = [paths |-> m.paths, count |-> m.count]
  BY DEF InodesOK
<1>2. m2 = [paths |-> [m.paths EXCEPT ![i] = P], count |-> m.count]
  BY <1>1
<1>3. /\ DOMAIN [m.paths EXCEPT ![i] = P] = DOMAIN m.paths
      /\ \A j \in DOMAIN m.paths : [m.paths EXCEPT ![i] = P][j] = IF j = i THEN P ELSE m.paths[j]
  OBVIOUS
<1> HIDE DEF m2
<1>4. InodesOK(m2)
  BY <1>2, <1>3 DEF InodesOK
<1>5. NoWorse(m, m2)
  BY <1>2, <1>3 DEF NoWorse
<1> QED BY <1>4, <1>5 DEF m2

-----------------------------------------------------------------------------
(***************************************************************************)
(* The kernel, the tree of the handlers, and what is loaded for them.      *)
(***************************************************************************)
LEMMA LearnOK ==
  ASSUME NEW K, KernelIn(kernel, K), NEW p \in Folders \cup {Root, NoItem}, NEW names, DOMAIN names \subseteq K,
         \A i \in DOMAIN names : names[i] \in Names, Learn(p, names)
  PROVE  KernelIn(kernel', K)
<1> DEFINE times(i) == IF i \in DOMAIN kernel THEN kernel[i].n ELSE 0
           new == [i \in DOMAIN names |-> [n |-> times(i) + 1, parent |-> p, name |-> names[i]]]
<1>1. (\A i \in DOMAIN names : times(i) < MaxLookups) /\ kernel' = Over(new, kernel)
  BY DEF Learn
<1>2. \A i \in DOMAIN names : times(i) \in Nat
  BY OptionsAssumption DEF KernelIn
<1>3. ASSUME NEW i \in DOMAIN names
      PROVE /\ new[i] \in [n : 1..MaxLookups, parent : Folders \cup {Root, NoItem}, name : Names \cup {NoName}]
            /\ new[i].name \in Names
  <2>1. times(i) + 1 \in 1..MaxLookups
    BY <1>1, <1>2, OptionsAssumption
  <2> HIDE DEF times
  <2> QED BY <2>1
<1>4. /\ DOMAIN kernel' = DOMAIN names \cup DOMAIN kernel
      /\ \A i \in DOMAIN names : kernel'[i] = new[i]
      /\ \A i \in DOMAIN kernel : i \notin DOMAIN names => kernel'[i] = kernel[i]
  <2> HIDE DEF times
  <2> QED BY <1>1 DEF Over
<1> HIDE DEF new
<1> QED BY <1>3, <1>4 DEF KernelIn

(* The kernel follows a renaming. *)
LEMMA RenamedOK ==
  ASSUME NEW K, KernelIn(kernel, K), NEW p, NEW n, NEW p2 \in Folders \cup {Root, NoItem},
         NEW n2 \in Names \cup {NoName}, p2 # NoItem => n2 \in Names, Renamed(p, n, p2, n2)
  PROVE  KernelIn(kernel', K)
<1>1. DOMAIN kernel' = DOMAIN kernel
  BY DEF Renamed
<1>2. ASSUME NEW i \in DOMAIN kernel
      PROVE /\ kernel'[i] \in [n : 1..MaxLookups, parent : Folders \cup {Root, NoItem}, name : Names \cup {NoName}]
            /\ kernel'[i].parent # NoItem => kernel'[i].name \in Names
  <2>1. /\ kernel[i] \in [n : 1..MaxLookups, parent : Folders \cup {Root, NoItem}, name : Names \cup {NoName}]
        /\ kernel[i].parent # NoItem => kernel[i].name \in Names
    BY DEF KernelIn
  <2>2. CASE kernel'[i] = kernel[i]
    BY <2>1, <2>2
  <2>3. CASE kernel'[i] = [kernel[i] EXCEPT !.parent = p2, !.name = n2]
    BY <2>1, <2>3
  <2>4. kernel'[i] = kernel[i] \/ kernel'[i] = [kernel[i] EXCEPT !.parent = p2, !.name = n2]
    BY DEF Renamed
  <2> QED BY <2>2, <2>3, <2>4
<1> QED BY <1>1, <1>2 DEF KernelIn

(* The kernel drops a name. *)
LEMMA UnnamedOK ==
  ASSUME NEW K, KernelIn(kernel, K), NEW p, NEW n, Unnamed(p, n)
  PROVE  KernelIn(kernel', K)
BY RenamedOK DEF Unnamed

(* The items of the tree are known ones. *)
LEMMA TreeKnown == TypeInv => TreeIn(Tree, Known)
BY DEF TypeInv, Tree, ClientIn, TreeIn

(* The folders the kernel knows are known ones. *)
LEMMA FoldersKnown == TypeInv => KnownFolders \subseteq Known \cup {Root} /\ KnownFolders \subseteq Folders \cup {Root}
BY DEF TypeInv, KnownFolders, KernelIn

(* The drive has known items. *)
LEMMA DriveKnown ==
  TypeInv => /\ DriveOK(drive) /\ DOMAIN drive \subseteq Known /\ Known \in SUBSET Ids
             /\ ClientIn(client, Known) /\ InodesOK(inodes) /\ KernelIn(kernel, Known)
             /\ RequestIn(fuse, Known)
<1>1. TypeInv => DriveOK(drive) /\ unused \subseteq Ids \ DOMAIN drive
  BY DEF TypeInv, ServiceOK
<1> QED BY <1>1, DriveIs DEF TypeInv, Known

(* What loading a folder does to the client. *)
LEMMA Loads ==
  ASSUME TypeInv, NEW f \in Known \cup {Root}, LoadFolder(f)
  PROVE  /\ ClientIn(client', Known) /\ Grown(client, client', drive, {"unset", "empty"})
         /\ TreeIn(NewTree, Known)
<1>1. /\ DriveOK(drive) /\ DOMAIN drive \subseteq Known /\ Known \in SUBSET Ids
      /\ ClientIn(client, Known)
  BY DriveKnown
<1>2. ClientIn(client', Known) /\ Grown(client, client', drive, {"unset", "empty"})
  <2>1. CASE client' = client
    BY <1>1, <2>1, GrownSame
  <2>2. CASE client' = WithChildren(WithItem(client, f, drive), f, drive)
    <3> DEFINE c1 == WithItem(client, f, drive)
    <3>1. ClientIn(c1, Known) /\ Grown(client, c1, drive, {"unset", "empty"})
      BY <1>1, WithItemIs
    <3> HIDE DEF c1
    <3>2. ClientIn(WithChildren(c1, f, drive), Known) /\ Grown(c1, WithChildren(c1, f, drive), drive, {})
      BY <1>1, <3>1, WithChildrenIs
    <3>3. Grown(c1, WithChildren(c1, f, drive), drive, {"unset", "empty"})
      BY <3>2, GrownOdder
    <3>4. Grown(client, WithChildren(c1, f, drive), drive, {"unset", "empty"})
      BY <3>1, <3>3, GrownTwice
    <3> QED BY <2>2, <3>2, <3>4 DEF c1
  <2> QED BY <2>1, <2>2 DEF LoadFolder
<1>3. TreeIn(NewTree, Known)
  BY <1>2 DEF TypeInv, NewTree, ClientIn, TreeIn
<1> QED BY <1>2, <1>3

(* A tree that can be read has a path for each of its elements. *)
LEMMA ReadableWalkable == ASSUME NEW t, TreeOK(t), Readable(t) PROVE Walkable(t)
BY ItemsAssumption DEF Readable, Unreadable, Walkable, TreeOK

(* The entries of a folder lead to elements, and have names. *)
LEMMA EntriesAre ==
  ASSUME NEW t, TreeOK(t), Walkable(t), NEW S \in SUBSET DOMAIN t
  PROVE  DOMAIN Entries(t, S) \subseteq DOMAIN t /\ \A i \in DOMAIN Entries(t, S) : Entries(t, S)[i] \in Names
<1>1. \A j \in S : First(t, t[j].path) \in DOMAIN t /\ t[j].name \in Names
  BY FirstFound DEF Walkable
<1>2. DOMAIN Entries(t, S) = { First(t, t[j].path) : j \in S }
  BY DEF Entries
<1>3. ASSUME NEW i \in DOMAIN Entries(t, S) PROVE Entries(t, S)[i] \in Names
  <2> DEFINE j == CHOOSE k \in S : First(t, t[k].path) = i
  <2>1. j \in S
    BY <1>2, <1>3
  <2>2. Entries(t, S)[i] = t[j].name
    BY <1>2, <1>3 DEF Entries
  <2> HIDE DEF j
  <2> QED BY <1>1, <2>1, <2>2
<1> QED BY <1>1, <1>2, <1>3

-----------------------------------------------------------------------------
(***************************************************************************)
(* Every step keeps the types.                                             *)
(***************************************************************************)
(* To show that, from the parts that a step may change. *)
LEMMA TypesFrom ==
  ASSUME TypeInv, ServiceOK', Known \subseteq Known', ClientIn(client', Known'), TreeIn(oldTree', Known'),
         InodesOK(inodes'), KernelIn(kernel', Known'), RefreshIn(refresh', Known'), RequestIn(fuse', Known'),
         RestOK'
  PROVE  TypeInv'
BY DEF TypeInv

(* For the steps of the handlers that leave the drive alone. *)
LEMMA TypesHandled ==
  ASSUME TypeInv, UNCHANGED <<service, oldTree, refresh, mode>>, left' = left \/ Requested,
         ClientIn(client', Known), InodesOK(inodes'), KernelIn(kernel', Known), RequestIn(fuse', Known)
  PROVE  TypeInv'
<1>1. Known' = Known /\ ServiceOK' /\ TreeIn(oldTree', Known) /\ RefreshIn(refresh', Known)
  BY DEF TypeInv, Known, ServiceOK, service
<1>2. RestOK'
  <2>1. mode \in {"lazy", "eager"} /\ left \in [own : Nat, remote : Nat, failures : Nat]
        /\ stale \in [now : BOOLEAN, raced : BOOLEAN, overlap : BOOLEAN]
    BY DEF TypeInv, RestOK
  <2>2. left' \in [own : Nat, remote : Nat, failures : Nat]
    BY <2>1 DEF Requested
  <2> QED BY <2>1, <2>2 DEF RestOK, service
<1> QED BY <1>1, <1>2 DEF TypeInv

(* There is no request, or no loop to take one. *)
LEMMA IdleRequest == ASSUME NEW K PROVE RequestIn(NoRequest, K) /\ RequestIn([NoRequest EXCEPT !.pc = "dead"], K)
<1>1. << >> \in Seq(Names)
  BY EmptySeq
<1> QED BY <1>1 DEF RequestIn, NoRequest

(* A lookup keeps the types. *)
LEMMA LookupTypes ==
  ASSUME TypeInv, NEW p \in Folders \cup {Root}, NEW n \in Names, Lookup(p, n) PROVE TypeInv'
<1> DEFINE hits  == KidsOf(Tree, p) \cap Named(Tree, n)
           found == First(Tree, Tree[FirstOf(Tree, hits)].path)
<1>1. /\ \/ Walkable(Tree) /\ hits = {} /\ Unnamed(p, n) /\ UNCHANGED fuse
         \/ Walkable(Tree) /\ hits # {} /\ ~Unreadable(Tree, found)
            /\ Learn(p, Only(found, n)) /\ UNCHANGED fuse
         \/ (Walkable(Tree) => hits # {} /\ Unreadable(Tree, found)) /\ Die /\ UNCHANGED kernel
      /\ UNCHANGED <<service, client, oldTree, inodes, refresh, mode, left>>
  BY DEF Lookup
<1>2. TreeOK(Tree) /\ DOMAIN Tree \subseteq Known
  BY TreeKnown DEF TreeIn
<1>3. /\ ClientIn(client', Known) /\ InodesOK(inodes') /\ KernelIn(kernel, Known) /\ RequestIn(fuse, Known)
  BY <1>1, DriveKnown
<1>4. CASE Walkable(Tree) /\ hits = {} /\ Unnamed(p, n) /\ UNCHANGED fuse
  <2>1. KernelIn(kernel', Known)
    BY <1>3, <1>4, UnnamedOK
  <2> QED BY <1>1, <1>3, <1>4, <2>1, TypesHandled
<1>5. CASE Walkable(Tree) /\ hits # {} /\ Learn(p, Only(found, n)) /\ UNCHANGED fuse
  <2>1. hits \subseteq DOMAIN Tree
    BY DEF KidsOf
  <2>2. FirstOf(Tree, hits) \in DOMAIN Tree
    BY <1>2, <1>5, <2>1, FirstOfIs
  <2>3. found \in DOMAIN Tree
    BY <1>2, <1>5, <2>2, FirstFound DEF Walkable
  <2>4. DOMAIN Only(found, n) \subseteq Known /\ \A i \in DOMAIN Only(found, n) : Only(found, n)[i] \in Names
    BY <1>2, <2>3 DEF Only
  <2>5. KernelIn(kernel', Known)
    BY <1>3, <1>5, <2>4, LearnOK
  <2> QED BY <1>1, <1>3, <1>5, <2>5, TypesHandled
<1>6. CASE Die /\ UNCHANGED kernel
  <2>1. RequestIn(fuse', Known)
    BY <1>6, IdleRequest DEF Die
  <2> QED BY <1>1, <1>3, <1>6, <2>1, TypesHandled
<1> HIDE DEF hits, found
<1> QED BY <1>1, <1>4, <1>5, <1>6

(* A getattr keeps the types. *)
LEMMA GetattrTypes == ASSUME TypeInv, NEW i \in Ids, Getattr(i) PROVE TypeInv'
<1>1. Die /\ UNCHANGED <<service, client, oldTree, inodes, kernel, refresh, mode, left>>
  BY DEF Getattr
<1>2. RequestIn(fuse', Known)
  BY <1>1, IdleRequest DEF Die
<1> QED BY <1>1, <1>2, DriveKnown, TypesHandled

(* readdir ends the main loop, or has added paths and look-ups. *)
LEMMA ReaddirIs ==
  ASSUME TypeInv, NEW f \in Folders \cup {Root}, Readdir(f)
  PROVE  /\ Idle /\ UNCHANGED <<service, oldTree, refresh, mode, left>>
         /\ ClientIn(client', Known) /\ Grown(client, client', drive, {"unset", "empty"})
         /\ \/ Die /\ UNCHANGED <<inodes, kernel>>
            \/ /\ Readable(NewTree) /\ UNCHANGED fuse
               /\ InodesOK(inodes') /\ NoWorse(inodes, inodes') /\ KernelIn(kernel', Known)
<1> DEFINE m == IF client' = client THEN inodes ELSE RefreshedPaths(inodes, NewTree)
           ents(p) == Entries(NewTree, KidsOf(NewTree, First(Tree, p)))
<1>1. Idle /\ f \in KnownFolders /\ LoadFolder(f) /\ UNCHANGED <<service, oldTree, refresh, mode, left>>
  BY DEF Readdir
<1>2. PICK p \in PathsOf(inodes, f) :
        IF Readable(NewTree)
        THEN /\ inodes' = AddPaths(m, [i \in DOMAIN ents(p) |-> NewTree[i].path])
             /\ Learn(f, ents(p))
             /\ UNCHANGED fuse
        ELSE Die /\ UNCHANGED <<inodes, kernel>>
  BY Zenon DEF Readdir
<1>3. f \in Known \cup {Root}
  BY <1>1, FoldersKnown
<1>4. /\ ClientIn(client', Known) /\ Grown(client, client', drive, {"unset", "empty"})
      /\ TreeOK(NewTree) /\ DOMAIN NewTree \subseteq Known
  BY <1>1, <1>3, Loads DEF TreeIn
<1>5. CASE ~Readable(NewTree)
  BY <1>1, <1>2, <1>4, <1>5
<1>6. CASE Readable(NewTree)
  <2>1. Walkable(NewTree)
    BY <1>4, <1>6, ReadableWalkable
  <2>2. InodesOK(m) /\ NoWorse(inodes, m)
    <3>1. InodesOK(inodes) /\ NoWorse(inodes, inodes)
      BY DriveKnown DEF NoWorse
    <3> QED BY <1>4, <2>1, <3>1, RefreshedPathsOK
  <2>3. DOMAIN ents(p) \subseteq DOMAIN NewTree /\ \A i \in DOMAIN ents(p) : ents(p)[i] \in Names
    BY <1>4, <2>1, EntriesAre DEF KidsOf
  <2> HIDE DEF ents, m
  <2> DEFINE news == [i \in DOMAIN ents(p) |-> NewTree[i].path]
  <2>4. DOMAIN news \subseteq Ids /\ \A i \in DOMAIN news : news[i] \in Seq(Names)
    <3>1. DOMAIN news \subseteq DOMAIN NewTree
      BY <2>3
    <3>2. \A i \in DOMAIN NewTree : NewTree[i].path \in Seq(Names)
      BY <1>4, ElementIs DEF TreeOK
    <3> QED BY <1>4, <3>1, <3>2, DriveKnown
  <2> HIDE DEF news
  <2>5. inodes' = AddPaths(m, news) /\ Learn(f, ents(p)) /\ UNCHANGED fuse
    BY <1>2, <1>6 DEF news
  <2>6. InodesOK(inodes') /\ NoWorse(m, inodes')
    BY <2>2, <2>4, <2>5, AddPathsOK
  <2>7. NoWorse(inodes, inodes')
    BY <2>2, <2>6 DEF NoWorse
  <2>8. KernelIn(kernel', Known)
    <3>1. DOMAIN ents(p) \subseteq Known
      BY <1>4, <2>3
    <3> QED BY <2>3, <2>5, <3>1, DriveKnown, LearnOK
  <2> QED BY <1>1, <1>4, <1>6, <2>5, <2>6, <2>7, <2>8
<1> QED BY <1>5, <1>6

(* A listing keeps the types. *)
LEMMA ReaddirTypes ==
  ASSUME TypeInv, NEW f \in Folders \cup {Root}, Readdir(f) PROVE TypeInv'
<1>1. /\ UNCHANGED <<service, oldTree, refresh, mode, left>> /\ ClientIn(client', Known)
      /\ \/ Die /\ UNCHANGED <<inodes, kernel>>
         \/ InodesOK(inodes') /\ KernelIn(kernel', Known) /\ UNCHANGED fuse
  BY ReaddirIs
<1>2. InodesOK(inodes') /\ KernelIn(kernel', Known) /\ RequestIn(fuse', Known)
  BY <1>1, DriveKnown, IdleRequest DEF Die
<1> QED BY <1>1, <1>2, TypesHandled

(* A forget keeps the types. *)
LEMMA ForgetTypes == ASSUME TypeInv, NEW i \in Ids, Forget(i) PROVE TypeInv'
<1>1. /\ i \in DOMAIN kernel /\ kernel' = Without(kernel, {i}) /\ inodes' = Forgotten(inodes, i, kernel[i].n)
      /\ UNCHANGED <<service, client, oldTree, refresh, fuse, mode, left>>
  BY DEF Forget
<1>2. kernel[i].n \in Nat
  BY <1>1, OptionsAssumption, DriveKnown DEF KernelIn
<1>3. InodesOK(inodes')
  BY <1>1, <1>2, DriveKnown, ForgottenOK
<1>4. KernelIn(kernel', Known)
  <2>1. DOMAIN kernel' = DOMAIN kernel \ {i} /\ \A j \in DOMAIN kernel' : kernel'[j] = kernel[j]
    BY <1>1 DEF Without, Restrict
  <2> QED BY <2>1, DriveKnown DEF KernelIn
<1> QED BY <1>1, <1>3, <1>4, DriveKnown, TypesHandled

(* The start of unlink or rmdir keeps the types. *)
LEMMA StartRemoveTypes == ASSUME TypeInv, NEW i \in Ids, StartRemove(i) PROVE TypeInv'
<1> DEFINE p == kernel[i].parent
           n == kernel[i].name
<1>1. /\ i \in DOMAIN kernel /\ p # NoItem /\ Requested
      /\ UNCHANGED <<service, client, oldTree, inodes, kernel, refresh, mode>>
  BY DEF StartRemove
<1>2. PICK q \in PathsOf(inodes, p) :
        LET id == First(Tree, Append(q, n))
        IN IF p = Root \/ id = NoItem THEN Die
           ELSE fuse' = [NoRequest EXCEPT !.pc = "call", !.op = "remove", !.id = id,
                           !.parent = p, !.name = n, !.path = Append(q, n)]
  BY DEF StartRemove
<1> DEFINE id == First(Tree, Append(q, n))
<1>3. p \in Folders \cup {Root, NoItem} /\ n \in Names
  BY <1>1, DriveKnown DEF KernelIn
<1>4. q \in Seq(Names)
  BY DriveKnown, PathsAre
<1>5. Append(q, n) \in Seq(Names) /\ Append(q, n) # << >>
  BY <1>3, <1>4, AppendProperties
<1>6. id = NoItem \/ id \in Known
  BY <1>5, FirstIs, TreeKnown DEF TreeIn
<1>7. RequestIn(fuse', Known)
  <2>1. CASE Die
    BY <2>1, IdleRequest DEF Die
  <2>2. CASE id \in Known /\ fuse' = [NoRequest EXCEPT !.pc = "call", !.op = "remove", !.id = id,
                           !.parent = p, !.name = n, !.path = Append(q, n)]
    <3>1. << >> \in Seq(Names)
      BY EmptySeq
    <3> HIDE DEF id, p, n
    <3> QED BY <1>3, <1>5, <2>2, <3>1 DEF RequestIn, NoRequest
  <2> QED BY <1>2, <1>6, <2>1, <2>2
<1> QED BY <1>1, <1>7, DriveKnown, TypesHandled

(* A rename ends the main loop, or has refreshed paths and calls the client next. *)
LEMMA StartRenameIs ==
  ASSUME TypeInv, NEW i \in Ids, NEW p2 \in Folders, NEW n2 \in Given, StartRename(i, p2, n2)
  PROVE  /\ Idle /\ Requested /\ UNCHANGED <<service, oldTree, kernel, refresh, mode>>
         /\ ClientIn(client', Known) /\ Grown(client, client', drive, {"unset", "empty"})
         /\ \/ Die /\ UNCHANGED inodes
            \/ /\ Readable(NewTree) /\ fuse'.pc = "call" /\ RequestIn(fuse', Known)
               /\ InodesOK(inodes') /\ NoWorse(inodes, inodes')
<1> DEFINE p == kernel[i].parent
           n == kernel[i].name
<1>1. /\ Idle /\ i \in DOMAIN kernel /\ p \notin {NoItem, Root} /\ Requested /\ p2 \in KnownFolders
      /\ LoadFolder(p2) /\ UNCHANGED <<service, oldTree, kernel, refresh, mode>>
  BY DEF StartRename
<1>2. PICK q \in PathsOf(inodes, p) :
        IF ~Readable(NewTree) THEN Die /\ UNCHANGED inodes
        ELSE /\ inodes' = IF client' = client THEN inodes
                          ELSE RefreshedPaths(inodes, NewTree)
             /\ fuse' = [NoRequest EXCEPT !.pc = "call", !.op = "rename",
                           !.id = First(Tree, Append(q, n)), !.parent = p,
                           !.name = n, !.newParent = p2, !.newName = n2, !.path = q]
  BY Zenon DEF StartRename
<1> DEFINE id == First(Tree, Append(q, n))
<1>3. p \in Folders \cup {Root, NoItem} /\ n \in Names /\ n2 \in Names
  BY <1>1, DriveKnown, ItemsAssumption DEF KernelIn
<1>4. q \in Seq(Names) /\ << >> \in Seq(Names)
  BY DriveKnown, PathsAre, EmptySeq
<1>5. Append(q, n) \in Seq(Names) /\ Append(q, n) # << >>
  BY <1>3, <1>4, AppendProperties
<1>6. id = NoItem \/ id \in Known
  BY <1>5, FirstIs, TreeKnown DEF TreeIn
<1>7. p2 \in Known \cup {Root}
  BY <1>1, FoldersKnown
<1>8. /\ ClientIn(client', Known) /\ Grown(client, client', drive, {"unset", "empty"})
      /\ TreeOK(NewTree)
  BY <1>1, <1>7, Loads DEF TreeIn
<1>9. CASE ~Readable(NewTree)
  BY <1>1, <1>2, <1>8, <1>9
<1>10. CASE Readable(NewTree)
  <2>1. Walkable(NewTree)
    BY <1>8, <1>10, ReadableWalkable
  <2>2. InodesOK(inodes') /\ NoWorse(inodes, inodes')
    <3>1. inodes' = inodes \/ inodes' = RefreshedPaths(inodes, NewTree)
      BY <1>2, <1>10
    <3>2. InodesOK(inodes) /\ NoWorse(inodes, inodes)
      BY DriveKnown DEF NoWorse
    <3> QED BY <1>8, <2>1, <3>1, <3>2, RefreshedPathsOK
  <2>3. RequestIn(fuse', Known) /\ fuse'.pc = "call"
    <3>1. fuse' = [NoRequest EXCEPT !.pc = "call", !.op = "rename", !.id = id, !.parent = p,
                      !.name = n, !.newParent = p2, !.newName = n2, !.path = q]
      BY <1>2, <1>10
    <3> HIDE DEF id, p, n
    <3> QED BY <1>3, <1>4, <1>6, <3>1 DEF RequestIn, NoRequest
  <2> QED BY <1>1, <1>8, <1>10, <2>2, <2>3
<1> QED BY <1>9, <1>10

(* The start of rename keeps the types. *)
LEMMA StartRenameTypes ==
  ASSUME TypeInv, NEW i \in Ids, NEW p2 \in Folders, NEW n2 \in Given, StartRename(i, p2, n2)
  PROVE  TypeInv'
<1>1. /\ Requested /\ UNCHANGED <<service, oldTree, kernel, refresh, mode>> /\ ClientIn(client', Known)
      /\ \/ Die /\ UNCHANGED inodes
         \/ InodesOK(inodes') /\ RequestIn(fuse', Known)
  BY StartRenameIs
<1>2. InodesOK(inodes') /\ KernelIn(kernel', Known) /\ RequestIn(fuse', Known)
  BY <1>1, DriveKnown, IdleRequest DEF Die
<1> QED BY <1>1, <1>2, TypesHandled

(* The start of mkdir keeps the types. *)
LEMMA StartMkdirTypes ==
  ASSUME TypeInv, NEW p \in Folders \cup {Root}, NEW n \in Given, StartMkdir(p, n) PROVE TypeInv'
<1>1. Requested /\ UNCHANGED <<service, client, oldTree, inodes, kernel, refresh, mode>>
  BY DEF StartMkdir
<1>2. RequestIn(fuse', Known)
  <2>1. CASE Die
    BY <2>1, IdleRequest DEF Die
  <2>2. CASE ~Die
    <3>1. p # Root
      BY <2>2 DEF StartMkdir
    <3>2. PICK q \in PathsOf(inodes, p) :
            LET bases == IF Cardinality(PathsOf(inodes, p)) = 1 THEN Named(Tree, Last(q))
                         ELSE AtPath(Tree, q)
            IN IF bases = {} THEN Die
               ELSE fuse' = [NoRequest EXCEPT !.pc = "call", !.op = "mkdir",
                               !.id = FirstOf(Tree, bases), !.parent = p, !.name = n]
      BY <3>1 DEF StartMkdir
    <3> DEFINE bases == IF Cardinality(PathsOf(inodes, p)) = 1 THEN Named(Tree, Last(q))
                        ELSE AtPath(Tree, q)
    <3>3. /\ bases # {}
          /\ fuse' = [NoRequest EXCEPT !.pc = "call", !.op = "mkdir",
                        !.id = FirstOf(Tree, bases), !.parent = p, !.name = n]
      BY <2>2, <3>2
    <3>4. TreeOK(Tree) /\ DOMAIN Tree \subseteq Known
      BY TreeKnown DEF TreeIn
    <3>5. bases \subseteq DOMAIN Tree \/ bases = {Root}
      BY <3>4, AtPathIs DEF Named
    <3> HIDE DEF bases
    <3>6. FirstOf(Tree, bases) \in Known \cup {Root}
      BY <3>3, <3>4, <3>5, FirstOfIs
    <3>7. << >> \in Seq(Names) /\ n \in Names
      BY EmptySeq, ItemsAssumption
    <3> QED BY <3>3, <3>6, <3>7 DEF RequestIn, NoRequest
  <2> QED BY <2>1, <2>2
<1> QED BY <1>1, <1>2, DriveKnown, TypesHandled

-----------------------------------------------------------------------------
(* For the steps that change the drive. *)
LEMMA TypesChanged ==
  ASSUME TypeInv, NEW d, NEW clean \in BOOLEAN, Change(d, clean), DriveOK(d), unused' \subseteq unused,
         unused' \subseteq Ids \ DOMAIN d, UNCHANGED <<oldTree, inodes, kernel, refresh, mode>>,
         left' \in [own : Nat, remote : Nat, failures : Nat],
         ClientIn(client', Known'), RequestIn(fuse', Known')
  PROVE  TypeInv'
<1>1. drive' = d /\ stale' = [stale EXCEPT !.now = @ \/ ~clean \/ Refreshes,
                                           !.raced = @ \/ Refreshes, !.overlap = @ \/ Refreshes]
  BY DEF Change
<1>2. ServiceOK'
  BY <1>1 DEF ServiceOK
<1>3. Known \subseteq Known' /\ Known \in SUBSET Ids /\ Known' \in SUBSET Ids
  BY DEF Known
<1>4. TreeIn(oldTree', Known') /\ KernelIn(kernel', Known') /\ RefreshIn(refresh', Known') /\ InodesOK(inodes')
  BY <1>3, KnownStays DEF TypeInv
<1>5. RestOK'
  <2>1. mode \in {"lazy", "eager"} /\ stale \in [now : BOOLEAN, raced : BOOLEAN, overlap : BOOLEAN]
    BY DEF TypeInv, RestOK
  <2>2. Refreshes \in BOOLEAN
    BY DEF Refreshes
  <2>3. stale' \in [now : BOOLEAN, raced : BOOLEAN, overlap : BOOLEAN]
    BY <1>1, <2>1, <2>2, Zenon
  <2> QED BY <2>1, <2>3 DEF RestOK
<1> QED BY <1>2, <1>3, <1>4, <1>5, TypesFrom

(* The bounds are numbers. *)
LEMMA LeftOK == TypeInv => left \in [own : Nat, remote : Nat, failures : Nat]
BY DEF TypeInv, RestOK

(* The removal at the service keeps the types. *)
LEMMA CallRemoveTypes == ASSUME TypeInv, CallRemove PROVE TypeInv'
<1>1. /\ fuse.pc = "call" /\ fuse.op = "remove" /\ UNCHANGED <<oldTree, inodes, kernel, refresh, mode, left>>
  BY DEF CallRemove
<1> DEFINE c2 == [client EXCEPT !.items = Without(@, {fuse.id})]
           f2 == [fuse EXCEPT !.pc = "note"]
<1>2. ClientIn(c2, Known)
  BY DriveKnown, TakeOne
<1>3. RequestIn(f2, Known)
  BY DriveKnown DEF RequestIn
<1> HIDE DEF c2, f2
<1>4. CASE /\ Change(Without(drive, Subtree(drive, fuse.id)), NothingBelow(client, fuse.id))
           /\ client' = c2 /\ fuse' = f2 /\ UNCHANGED unused
  <2> DEFINE d == Without(drive, Subtree(drive, fuse.id))
  <2>1. DriveOK(d) /\ DOMAIN d \subseteq DOMAIN drive
    BY DriveKnown, DriveRemoved
  <2> HIDE DEF d
  <2>2. unused' \subseteq unused /\ unused' \subseteq Ids \ DOMAIN d /\ Known' = Known
    BY <1>4, <2>1 DEF TypeInv, ServiceOK, Known
  <2>3. NothingBelow(client, fuse.id) \in BOOLEAN
    BY DEF NothingBelow
  <2>4. Change(d, NothingBelow(client, fuse.id))
    BY <1>4 DEF d
  <2>5. ClientIn(client', Known') /\ RequestIn(fuse', Known')
    BY <1>2, <1>3, <1>4, <2>2
  <2>6. left' \in [own : Nat, remote : Nat, failures : Nat]
    BY <1>1, LeftOK
  <2> QED BY <1>1, <2>1, <2>2, <2>3, <2>4, <2>5, <2>6, TypesChanged
<1>5. CASE client' = c2 /\ fuse' = f2 /\ UNCHANGED service
  BY <1>1, <1>2, <1>3, <1>5, DriveKnown, TypesHandled
<1>6. CASE Die /\ UNCHANGED <<client, service>>
  <2>1. RequestIn(fuse', Known)
    BY <1>6, IdleRequest DEF Die
  <2> QED BY <1>1, <1>6, <2>1, DriveKnown, TypesHandled
<1>7. \/ /\ Change(Without(drive, Subtree(drive, fuse.id)), NothingBelow(client, fuse.id))
         /\ client' = c2 /\ fuse' = f2 /\ UNCHANGED unused
      \/ client' = c2 /\ fuse' = f2 /\ UNCHANGED service
      \/ Die /\ UNCHANGED <<client, service>>
  BY DEF CallRemove, c2, f2
<1> QED BY <1>4, <1>5, <1>6, <1>7

(* The noting of a removal keeps the types. *)
LEMMA NoteRemoveTypes == ASSUME TypeInv, NoteRemove PROVE TypeInv'
<1>1. /\ fuse.op = "remove" /\ Unnamed(fuse.parent, fuse.name)
      /\ UNCHANGED <<service, client, oldTree, refresh, mode, left>>
      /\ \/ Reply /\ UNCHANGED inodes
         \/ Die /\ UNCHANGED inodes
         \/ PathsOf(inodes, fuse.id) # {} /\ Reply /\ inodes' = MinusPath(inodes, fuse.id, fuse.path)
  BY DEF NoteRemove
<1>2. RequestIn(fuse', Known)
  BY <1>1, IdleRequest DEF Reply, Die
<1>3. KernelIn(kernel', Known)
  BY <1>1, DriveKnown, UnnamedOK
<1>4. InodesOK(inodes')
  <2>1. CASE UNCHANGED inodes
    BY <2>1, DriveKnown
  <2>2. CASE PathsOf(inodes, fuse.id) # {} /\ inodes' = MinusPath(inodes, fuse.id, fuse.path)
    <3>1. fuse.id \in Known /\ fuse.id # Root
      BY <1>1, DriveKnown, ItemsAssumption DEF RequestIn
    <3>2. fuse.id \in DOMAIN inodes.paths
      BY <2>2, <3>1 DEF PathsOf
    <3> QED BY <2>2, <3>2, DriveKnown, MinusPathOK
  <2> QED BY <1>1, <2>1, <2>2
<1> QED BY <1>1, <1>2, <1>3, <1>4, DriveKnown, TypesHandled

(* The folder that a rename leads to, and what the client has learned.     *)
LEMMA TargetIs ==
  ASSUME TypeInv, fuse.op = "rename",
         NEW r, r = ItemAt(client, Append(fuse.path, fuse.name), drive), r.id \in DOMAIN drive,
         NEW to \in Targets(r)
  PROVE  /\ to.path \in Seq(Names) /\ ClientIn(to.client, Known)
         /\ to.id \in DOMAIN drive => Grown(client, to.client, drive, {"unset"})
         /\ to.id \in DOMAIN drive /\ HeldIn(client, drive) => Grown(client, to.client, drive, {})
<1>1. /\ DriveOK(drive) /\ DOMAIN drive \subseteq Known /\ Known \in SUBSET Ids
      /\ ClientIn(client, Known) /\ InodesOK(inodes)
  BY DriveKnown
<1>2. fuse.path \in Seq(Names) /\ fuse.name \in Names
  BY DriveKnown DEF RequestIn
<1>3. Append(fuse.path, fuse.name) \in Seq(Names)
  BY <1>2, AppendProperties
<1>4. /\ ClientIn(r.client, Known) /\ Grown(client, r.client, drive, {"unset"})
      /\ HeldIn(client, drive) => Grown(client, r.client, drive, {})
  BY <1>1, <1>3, ItemAtIs
<1>5. CASE fuse.parent = fuse.newParent
  <2>1. to.client = r.client /\ to.path = fuse.path
    BY <1>5 DEF Targets
  <2> QED BY <1>2, <1>4, <2>1
<1>6. CASE fuse.parent # fuse.newParent
  <2>1. PICK q \in PathsOf(inodes, fuse.newParent) :
          to = [id |-> ItemAt(r.client, q, drive).id, client |-> ItemAt(r.client, q, drive).client, path |-> q]
    BY <1>6 DEF Targets
  <2> DEFINE s == ItemAt(r.client, q, drive)
  <2>2. q \in Seq(Names)
    BY <1>1, PathsAre
  <2>3. /\ ClientIn(s.client, Known)
        /\ s.id \in DOMAIN drive => Grown(r.client, s.client, drive, {"unset"})
        /\ s.id \in DOMAIN drive /\ HeldIn(r.client, drive) => Grown(r.client, s.client, drive, {})
    BY <1>1, <1>4, <2>2, ItemAtIs
  <2>4. to.id = s.id /\ to.client = s.client /\ to.path = q
    BY <2>1
  <2> HIDE DEF s
  <2>5. s.id \in DOMAIN drive => Grown(client, s.client, drive, {"unset"})
    BY <1>4, <2>3, GrownTwice
  <2>6. ASSUME s.id \in DOMAIN drive, HeldIn(client, drive) PROVE Grown(client, s.client, drive, {})
    <3>1. HeldIn(r.client, drive)
      BY <1>1, <1>4, <2>6, GrownHolds
    <3> QED BY <1>4, <2>3, <2>6, <3>1, GrownTwice
  <2> QED BY <2>2, <2>3, <2>4, <2>5, <2>6
<1> QED BY <1>5, <1>6

(* An item has been moved: the drive and the client are all right.  What is *)
(* not below the item is as it was.                                          *)
Moved(id, c, p, n) ==
  /\ id \in DOMAIN drive /\ n \in Names
  /\ p \in ((DOMAIN drive \cap Folders) \cup {Root}) \ Subtree(drive, id) \/ p = drive[id].parent
  /\ ClientIn(c, Known) /\ Grown(client, c, drive, {"unset"})
  /\ HeldIn(client, drive) => Grown(client, c, drive, {})
  /\ ItemMoves(id, c, p, n)

(* What the call of a rename may do. *)
LEMMA RenameCalls ==
  ASSUME TypeInv, CallRename
  PROVE  /\ fuse.op = "rename" /\ fuse.pc = "call" /\ UNCHANGED <<oldTree, inodes, kernel, refresh, mode, left>>
         /\ \/ UNCHANGED <<service, client>> /\ (Die \/ Reply)
            \/ /\ \E id, c, p, n : Moved(id, c, p, n)
               /\ \/ Reply
                  \/ \E q \in Seq(Names) : fuse' = [fuse EXCEPT !.pc = "note", !.newPath = q]
<1> DEFINE r == ItemAt(client, Append(fuse.path, fuse.name), drive)
<1>1. fuse.op = "rename" /\ fuse.pc = "call" /\ UNCHANGED <<oldTree, inodes, kernel, refresh, mode, left>>
  BY DEF CallRename
<1>2. \/ Die /\ UNCHANGED <<service, client>>
      \/ /\ r.id \in DOMAIN drive
         /\ \E to \in Targets(r) :
              IF to.id \in (DOMAIN drive \cap Folders) \ Subtree(drive, r.id)
              THEN /\ ItemMoves(r.id, to.client, to.id, fuse.newName)
                   /\ fuse' = [fuse EXCEPT !.pc = "note",
                                 !.newPath = Append(to.path, fuse.newName)]
              ELSE Die /\ UNCHANGED <<service, client>>
      \/ /\ r.id \in DOMAIN drive
         /\ IF fuse.name = fuse.newName THEN UNCHANGED <<service, client>>
            ELSE ItemMoves(r.id, r.client, drive[r.id].parent, fuse.newName)
         /\ Reply
  BY Zenon DEF CallRename
<1>3. fuse.newName \in Names /\ fuse.path \in Seq(Names) /\ fuse.name \in Names
  BY <1>1, DriveKnown DEF RequestIn
<1>4. CASE /\ r.id \in DOMAIN drive
           /\ \E to \in Targets(r) :
                IF to.id \in (DOMAIN drive \cap Folders) \ Subtree(drive, r.id)
                THEN /\ ItemMoves(r.id, to.client, to.id, fuse.newName)
                     /\ fuse' = [fuse EXCEPT !.pc = "note",
                                   !.newPath = Append(to.path, fuse.newName)]
                ELSE Die /\ UNCHANGED <<service, client>>
  <2>1. PICK to \in Targets(r) :
          IF to.id \in (DOMAIN drive \cap Folders) \ Subtree(drive, r.id)
          THEN /\ ItemMoves(r.id, to.client, to.id, fuse.newName)
               /\ fuse' = [fuse EXCEPT !.pc = "note", !.newPath = Append(to.path, fuse.newName)]
          ELSE Die /\ UNCHANGED <<service, client>>
    BY <1>4
  <2>2. CASE to.id \notin (DOMAIN drive \cap Folders) \ Subtree(drive, r.id)
    BY <1>1, <2>1, <2>2
  <2>3. CASE to.id \in (DOMAIN drive \cap Folders) \ Subtree(drive, r.id)
    <3>1. /\ to.path \in Seq(Names) /\ ClientIn(to.client, Known)
          /\ Grown(client, to.client, drive, {"unset"})
          /\ HeldIn(client, drive) => Grown(client, to.client, drive, {})
      BY <1>1, <1>4, <2>3, TargetIs
    <3>2. ItemMoves(r.id, to.client, to.id, fuse.newName)
      BY <2>1, <2>3
    <3>3. Moved(r.id, to.client, to.id, fuse.newName)
      BY <1>3, <1>4, <2>3, <3>1, <3>2 DEF Moved
    <3>4. Append(to.path, fuse.newName) \in Seq(Names)
      BY <1>3, <3>1, AppendProperties
    <3>5. fuse' = [fuse EXCEPT !.pc = "note", !.newPath = Append(to.path, fuse.newName)]
      BY <2>1, <2>3
    <3> QED BY <1>1, <3>3, <3>4, <3>5
  <2> QED BY <2>2, <2>3
<1>5. CASE /\ r.id \in DOMAIN drive
           /\ IF fuse.name = fuse.newName THEN UNCHANGED <<service, client>>
              ELSE ItemMoves(r.id, r.client, drive[r.id].parent, fuse.newName)
           /\ Reply
  <2>1. CASE fuse.name = fuse.newName
    BY <1>1, <1>5, <2>1
  <2>2. CASE fuse.name # fuse.newName
    <3>1. /\ DriveOK(drive) /\ DOMAIN drive \subseteq Known /\ Known \in SUBSET Ids
          /\ ClientIn(client, Known) /\ Append(fuse.path, fuse.name) \in Seq(Names)
      BY <1>3, DriveKnown, AppendProperties
    <3>2. /\ ClientIn(r.client, Known) /\ Grown(client, r.client, drive, {"unset"})
          /\ HeldIn(client, drive) => Grown(client, r.client, drive, {})
      BY <1>5, <3>1, ItemAtIs
    <3>3. ItemMoves(r.id, r.client, drive[r.id].parent, fuse.newName)
      BY <1>5, <2>2
    <3>4. Moved(r.id, r.client, drive[r.id].parent, fuse.newName)
      BY <1>3, <1>5, <3>2, <3>3 DEF Moved
    <3> QED BY <1>1, <1>5, <3>4
  <2> QED BY <2>1, <2>2
<1> HIDE DEF r
<1> QED BY <1>1, <1>2, <1>4, <1>5

(* A drive with the item moved is one. *)
LEMMA MovedDrive ==
  ASSUME TypeInv, NEW id, NEW c, NEW p, NEW n, Moved(id, c, p, n)
  PROVE  /\ DriveOK(drive') /\ DOMAIN drive' = DOMAIN drive /\ id \in DOMAIN drive
         /\ drive'[id] = [parent |-> p, name |-> n] /\ \A j \in DOMAIN drive : j # id => drive'[j] = drive[j]
         /\ unused' = unused /\ Change(drive', NothingBelow(c, id)) /\ client' = Updated(c, id, drive')
         /\ ClientIn(client', Known) /\ Grown(c, client', drive', {})
         /\ id \in DOMAIN client'.items /\ Like(client'.items[id], Element(drive', id))
<1>1. /\ DriveOK(drive) /\ DOMAIN drive \subseteq Known /\ Known \in SUBSET Ids
  BY DriveKnown
<1> DEFINE d == [drive EXCEPT ![id] = [parent |-> p, name |-> n]]
<1>2. /\ Change(d, NothingBelow(c, id)) /\ client' = Updated(c, id, d) /\ unused' = unused
      /\ id \in DOMAIN drive /\ n \in Names /\ ClientIn(c, Known)
      /\ p \in ((DOMAIN drive \cap Folders) \cup {Root}) \ Subtree(drive, id) \/ p = drive[id].parent
  BY DEF Moved, ItemMoves
<1>3. /\ DOMAIN d = DOMAIN drive
      /\ d[id] = [parent |-> p, name |-> n] /\ \A j \in DOMAIN drive : j # id => d[j] = drive[j]
  BY <1>1, <1>2, MovedIs
<1>4. DriveOK(d)
  <2>1. CASE p = drive[id].parent
    BY <1>1, <1>2, <2>1, DriveNamed
  <2>2. CASE p \in ((DOMAIN drive \cap Folders) \cup {Root}) \ Subtree(drive, id)
    BY <1>1, <1>2, <2>2, DriveMoved
  <2> QED BY <1>2, <2>1, <2>2
<1> HIDE DEF d
<1>5. drive' = d
  BY <1>2 DEF Change
<1>6. /\ ClientIn(Updated(c, id, d), Known) /\ Grown(c, Updated(c, id, d), d, {})
      /\ id \in DOMAIN Updated(c, id, d).items /\ Like(Updated(c, id, d).items[id], Element(d, id))
  BY <1>1, <1>2, <1>3, <1>4, UpdatedIs
<1> QED BY <1>2, <1>3, <1>4, <1>5, <1>6

(* The renaming at the service keeps the types. *)
LEMMA CallRenameTypes == ASSUME TypeInv, CallRename PROVE TypeInv'
<1>1. UNCHANGED <<oldTree, inodes, kernel, refresh, mode, left>>
  BY RenameCalls
<1>2. CASE UNCHANGED <<service, client>> /\ (Die \/ Reply)
  <2>1. RequestIn(fuse', Known)
    BY <1>2, IdleRequest DEF Die, Reply
  <2> QED BY <1>1, <1>2, <2>1, DriveKnown, TypesHandled
<1>3. CASE /\ \E id, c, p, n : Moved(id, c, p, n)
           /\ \/ Reply
              \/ \E q \in Seq(Names) : fuse' = [fuse EXCEPT !.pc = "note", !.newPath = q]
  <2>1. PICK id, c, p, n : Moved(id, c, p, n)
    BY <1>3
  <2>2. /\ DriveOK(drive') /\ DOMAIN drive' = DOMAIN drive /\ unused' = unused
        /\ Change(drive', NothingBelow(c, id)) /\ ClientIn(client', Known)
    BY <2>1, MovedDrive
  <2>3. RequestIn(fuse', Known)
    <3>1. CASE Reply
      BY <3>1, IdleRequest DEF Reply
    <3>2. CASE \E q \in Seq(Names) : fuse' = [fuse EXCEPT !.pc = "note", !.newPath = q]
      BY <3>2, DriveKnown DEF RequestIn
    <3> QED BY <1>3, <3>1, <3>2
  <2>4. unused' \subseteq unused /\ unused' \subseteq Ids \ DOMAIN drive' /\ Known' = Known
    BY <2>2 DEF TypeInv, ServiceOK, Known
  <2>5. NothingBelow(c, id) \in BOOLEAN
    BY DEF NothingBelow
  <2>6. left' \in [own : Nat, remote : Nat, failures : Nat]
    BY <1>1, LeftOK
  <2> QED BY <1>1, <2>2, <2>3, <2>4, <2>5, <2>6, TypesChanged
<1> QED BY <1>2, <1>3, RenameCalls

(* The noting of a renaming keeps the types. *)
LEMMA NoteRenameTypes == ASSUME TypeInv, NoteRename PROVE TypeInv'
<1> DEFINE paths   == PathsOf(inodes, fuse.id)
           pathOld == Append(fuse.path, IF fuse.parent = fuse.newParent THEN fuse.name ELSE fuse.newName)
           P       == IF Cardinality(paths) > 1
                      THEN (paths \cup {fuse.newPath}) \ {pathOld} ELSE {fuse.newPath}
<1>1. /\ fuse.op = "rename" /\ Renamed(fuse.parent, fuse.name, fuse.newParent, fuse.newName)
      /\ UNCHANGED <<service, client, oldTree, refresh, mode, left>>
      /\ \/ Die /\ UNCHANGED inodes
         \/ fuse.id \in DOMAIN inodes.paths /\ Reply /\ inodes' = [inodes EXCEPT !.paths[fuse.id] = P]
  BY DEF NoteRename
<1>2. /\ fuse.newPath \in Seq(Names) /\ fuse.newName \in Names
      /\ fuse.newParent \in Folders \cup {Root, NoItem}
  BY <1>1, DriveKnown DEF RequestIn
<1>3. KernelIn(kernel', Known)
  BY <1>1, <1>2, DriveKnown, RenamedOK
<1>4. RequestIn(fuse', Known)
  BY <1>1, IdleRequest DEF Reply, Die
<1>5. P # {} /\ P \subseteq Seq(Names)
  <2>1. paths \subseteq Seq(Names)
    BY DriveKnown, PathsAre
  <2>2. CASE Cardinality(paths) > 1
    <3>1. paths \ {pathOld} # {}
      <4>1. SUFFICES ASSUME paths \ {pathOld} = {} PROVE FALSE
        OBVIOUS
      <4>2. CASE paths = {}
        BY <2>2, <4>2, FS_EmptySet
      <4>3. CASE paths = {pathOld}
        <5>1. Cardinality({pathOld}) = 1
          BY FS_Singleton
        <5> QED BY <2>2, <4>3, <5>1
      <4> QED BY <4>1, <4>2, <4>3
    <3> QED BY <1>2, <2>1, <2>2, <3>1
  <2>3. CASE ~(Cardinality(paths) > 1)
    BY <1>2, <2>3
  <2> QED BY <2>2, <2>3
<1> HIDE DEF P
<1>6. InodesOK(inodes')
  BY <1>1, <1>5, DriveKnown, OtherPathsOK
<1> QED BY <1>1, <1>3, <1>4, <1>6, DriveKnown, TypesHandled

(* A new folder: the drive and the client are all right. *)
Made(c, i, p, n) ==
  /\ i \in unused /\ p \in DOMAIN drive \cap Folders /\ n \in Names
  /\ ClientIn(c, Known) /\ Grown(client, c, drive, {})
  /\ Change(Over(Only(i, [parent |-> p, name |-> n]), drive), TRUE) /\ unused' = unused \ {i}
  /\ client' = Updated(c, i, Over(Only(i, [parent |-> p, name |-> n]), drive))

(* What the call of mkdir may do. *)
LEMMA MkdirCalls ==
  ASSUME TypeInv, CallMkdir
  PROVE  /\ fuse.op = "mkdir" /\ fuse.pc = "call" /\ UNCHANGED <<oldTree, inodes, kernel, refresh, mode, left>>
         /\ \/ UNCHANGED <<service, client>> /\ Die
            \/ /\ UNCHANGED service /\ ClientIn(client', Known) /\ Grown(client, client', drive, {})
               /\ \E i \in Known : fuse' = [fuse EXCEPT !.pc = "note", !.id = i]
            \/ \E i, c, p, n : Made(c, i, p, n) /\ fuse' = [fuse EXCEPT !.pc = "note", !.id = i]
<1> DEFINE c    == WithChildren(client, fuse.id, drive)
           hits == Named(c.contents[fuse.id], fuse.name)
           d(i) == Over(Only(i, [parent |-> fuse.id, name |-> fuse.name]), drive)
<1>1. fuse.op = "mkdir" /\ fuse.pc = "call" /\ UNCHANGED <<oldTree, inodes, kernel, refresh, mode, left>>
  BY DEF CallMkdir
<1>2. \/ /\ hits # {} /\ fuse' = [fuse EXCEPT !.pc = "note", !.id = Max(hits)]
         /\ client' = c /\ UNCHANGED service
      \/ /\ fuse.id \in DOMAIN drive \cap Folders
         /\ IF NameFree(drive, fuse.id, fuse.name)
            THEN \E i \in unused \cap Folders :
                   /\ Change(d(i), TRUE) /\ unused' = unused \ {i}
                   /\ client' = Updated(c, i, d(i))
                   /\ fuse' = [fuse EXCEPT !.pc = "note", !.id = i]
            ELSE \E i \in KidsOf(drive, fuse.id) \cap Named(drive, fuse.name) :
                   /\ client' = Updated(c, i, drive)
                   /\ fuse' = [fuse EXCEPT !.pc = "note", !.id = i]
                   /\ UNCHANGED service
      \/ Die /\ UNCHANGED <<service, client>>
  BY Zenon DEF CallMkdir
<1>3. /\ DriveOK(drive) /\ DOMAIN drive \subseteq Known /\ Known \in SUBSET Ids
      /\ ClientIn(client, Known) /\ fuse.name \in Names
  BY <1>1, DriveKnown DEF RequestIn
<1>4. ClientIn(c, Known) /\ Grown(client, c, drive, {}) /\ fuse.id \in DOMAIN c.contents
  BY <1>3, WithChildrenIs
<1> HIDE DEF c
<1>5. CASE /\ hits # {} /\ fuse' = [fuse EXCEPT !.pc = "note", !.id = Max(hits)]
           /\ client' = c /\ UNCHANGED service
  <2>1. hits \in SUBSET Known /\ hits \in SUBSET Ids
    BY <1>3, <1>4 DEF ClientIn, Named
  <2>2. Max(hits) \in Known
    BY <1>5, <2>1, SomeIds, MaxIs
  <2> QED BY <1>1, <1>4, <1>5, <2>2
<1>6. CASE /\ fuse.id \in DOMAIN drive \cap Folders /\ NameFree(drive, fuse.id, fuse.name)
           /\ \E i \in unused \cap Folders :
                /\ Change(d(i), TRUE) /\ unused' = unused \ {i}
                /\ client' = Updated(c, i, d(i))
                /\ fuse' = [fuse EXCEPT !.pc = "note", !.id = i]
  <2>1. PICK i \in unused \cap Folders :
          /\ Change(d(i), TRUE) /\ unused' = unused \ {i}
          /\ client' = Updated(c, i, d(i))
          /\ fuse' = [fuse EXCEPT !.pc = "note", !.id = i]
    BY <1>6
  <2>2. Made(c, i, fuse.id, fuse.name)
    BY <1>3, <1>4, <1>6, <2>1 DEF Made
  <2> QED BY <1>1, <2>1, <2>2
<1>7. CASE /\ fuse.id \in DOMAIN drive \cap Folders
           /\ \E i \in KidsOf(drive, fuse.id) \cap Named(drive, fuse.name) :
                /\ client' = Updated(c, i, drive)
                /\ fuse' = [fuse EXCEPT !.pc = "note", !.id = i]
                /\ UNCHANGED service
  <2>1. PICK i \in KidsOf(drive, fuse.id) \cap Named(drive, fuse.name) :
          client' = Updated(c, i, drive) /\ fuse' = [fuse EXCEPT !.pc = "note", !.id = i] /\ UNCHANGED service
    BY <1>7
  <2>2. i \in DOMAIN drive /\ i \in Known
    BY <1>3 DEF KidsOf
  <2>3. ClientIn(client', Known) /\ Grown(c, client', drive, {})
    BY <1>3, <1>4, <2>1, <2>2, UpdatedIs
  <2>4. Grown(client, client', drive, {})
    BY <1>4, <2>3, GrownTwice
  <2> QED BY <1>1, <2>1, <2>2, <2>3, <2>4
<1>8. CASE Die /\ UNCHANGED <<service, client>>
  BY <1>1, <1>8
<1> HIDE DEF hits, d
<1> QED BY <1>2, <1>5, <1>6, <1>7, <1>8

(* A drive with a new folder is one, and the folder is known from then on. *)
LEMMA MadeDrive ==
  ASSUME TypeInv, NEW i, NEW c, NEW p, NEW n, Made(c, i, p, n)
  PROVE  /\ DriveOK(drive') /\ DOMAIN drive' = DOMAIN drive \cup {i} /\ i \in unused /\ i \notin DOMAIN drive
         /\ \A j \in DOMAIN drive : drive'[j] = drive[j]
         /\ drive'[i] = [parent |-> p, name |-> n] /\ p \in DOMAIN drive
         /\ unused' = unused \ {i} /\ Known' = Known \cup {i} /\ Known' \in SUBSET Ids /\ Change(drive', TRUE)
         /\ ClientIn(client', Known') /\ Grown(c, client', drive', {})
         /\ i \in DOMAIN client'.items /\ Like(client'.items[i], Element(drive', i))
<1> DEFINE e == [parent |-> p, name |-> n]
           d == Over(Only(i, e), drive)
<1>1. /\ DriveOK(drive) /\ DOMAIN drive \subseteq Known /\ Known \in SUBSET Ids
  BY DriveKnown
<1>2. /\ i \in unused /\ p \in DOMAIN drive \cap Folders /\ n \in Names /\ ClientIn(c, Known)
      /\ Change(d, TRUE) /\ unused' = unused \ {i} /\ client' = Updated(c, i, d)
  BY DEF Made
<1>3. i \in Ids \ DOMAIN drive
  BY <1>2 DEF TypeInv, ServiceOK
<1>4. /\ DriveOK(d) /\ DOMAIN d = DOMAIN drive \cup {i}
      /\ d[i] = [parent |-> p, name |-> n] /\ \A j \in DOMAIN drive : d[j] = drive[j]
  <2>1. p \in (DOMAIN drive \cap Folders) \cup {Root} /\ n \in Names
    BY <1>2
  <2>2. DriveOK(d)
    BY <1>1, <1>3, <2>1, DriveAdded
  <2>3. i \notin DOMAIN drive
    BY <1>3
  <2>4. DOMAIN d = DOMAIN drive \cup {i} /\ d[i] = e /\ \A j \in DOMAIN drive : d[j] = drive[j]
    <3> HIDE DEF e
    <3> QED BY <2>3 DEF Over, Only
  <2> HIDE DEF d
  <2> QED BY <2>2, <2>4
<1> HIDE DEF d
<1>5. Known' = Known \cup {i} /\ Known' \in SUBSET Ids
  BY <1>2, <1>3 DEF Known
<1>6. ClientIn(c, Known') /\ DOMAIN d \subseteq Known' /\ i \in DOMAIN d
  BY <1>1, <1>2, <1>4, <1>5, KnownStays
<1>7. /\ ClientIn(Updated(c, i, d), Known') /\ Grown(c, Updated(c, i, d), d, {})
      /\ i \in DOMAIN Updated(c, i, d).items /\ Like(Updated(c, i, d).items[i], Element(d, i))
  BY <1>4, <1>5, <1>6, UpdatedIs
<1>8. drive' = d
  BY <1>2 DEF Change
<1> QED BY <1>2, <1>3, <1>4, <1>5, <1>7, <1>8

(* The new folder at the service keeps the types. *)
LEMMA CallMkdirTypes == ASSUME TypeInv, CallMkdir PROVE TypeInv'
<1>1. fuse.op = "mkdir" /\ UNCHANGED <<oldTree, inodes, kernel, refresh, mode, left>>
  BY MkdirCalls
<1>2. CASE UNCHANGED <<service, client>> /\ Die
  <2>1. RequestIn(fuse', Known)
    BY <1>2, IdleRequest DEF Die
  <2> QED BY <1>1, <1>2, <2>1, DriveKnown, TypesHandled
<1>3. CASE /\ UNCHANGED service /\ ClientIn(client', Known)
           /\ \E i \in Known : fuse' = [fuse EXCEPT !.pc = "note", !.id = i]
  <2>1. RequestIn(fuse', Known)
    BY <1>1, <1>3, DriveKnown DEF RequestIn
  <2> QED BY <1>1, <1>3, <2>1, DriveKnown, TypesHandled
<1>4. CASE \E i, c, p, n : Made(c, i, p, n) /\ fuse' = [fuse EXCEPT !.pc = "note", !.id = i]
  <2>1. PICK i, c, p, n : Made(c, i, p, n) /\ fuse' = [fuse EXCEPT !.pc = "note", !.id = i]
    BY <1>4
  <2>2. /\ DriveOK(drive') /\ DOMAIN drive' = DOMAIN drive \cup {i}
        /\ unused' = unused \ {i} /\ Known' = Known \cup {i} /\ Known' \in SUBSET Ids /\ Change(drive', TRUE)
        /\ ClientIn(client', Known')
    BY <2>1, MadeDrive
  <2>3. RequestIn(fuse', Known')
    <3>1. RequestIn(fuse, Known')
      BY <2>2, DriveKnown, KnownStays
    <3>2. i \in Known'
      BY <2>2
    <3> QED BY <1>1, <2>1, <3>1, <3>2 DEF RequestIn
  <2>4. unused' \subseteq unused /\ unused' \subseteq Ids \ DOMAIN drive'
    BY <2>2 DEF TypeInv, ServiceOK
  <2>5. left' \in [own : Nat, remote : Nat, failures : Nat]
    BY <1>1, LeftOK
  <2> QED BY <1>1, <2>2, <2>3, <2>4, <2>5, TypesChanged
<1> QED BY <1>2, <1>3, <1>4, MkdirCalls

(* The noting of a new folder keeps the types. *)
LEMMA NoteMkdirTypes == ASSUME TypeInv, NoteMkdir PROVE TypeInv'
<1> DEFINE i == FirstOf(Tree, Named(Tree, Tree[fuse.id].name))
           news == Only(i, Tree[fuse.id].path)
<1>1. /\ fuse.op = "mkdir" /\ UNCHANGED <<service, client, oldTree, refresh, mode, left>>
      /\ \/ Die /\ UNCHANGED <<inodes, kernel>>
         \/ /\ fuse.id \in DOMAIN Tree /\ ~Unreadable(Tree, i)
            /\ inodes' = AddPaths(inodes, news)
            /\ Learn(fuse.parent, Only(i, fuse.name)) /\ Reply
  BY DEF NoteMkdir
<1>2. RequestIn(fuse', Known)
  BY <1>1, IdleRequest DEF Reply, Die
<1>3. CASE Die /\ UNCHANGED <<inodes, kernel>>
  BY <1>1, <1>2, <1>3, DriveKnown, TypesHandled
<1>4. CASE /\ fuse.id \in DOMAIN Tree
           /\ inodes' = AddPaths(inodes, news) /\ Learn(fuse.parent, Only(i, fuse.name))
  <2>1. TreeOK(Tree) /\ DOMAIN Tree \subseteq Known /\ Known \in SUBSET Ids
    BY TreeKnown, DriveKnown DEF TreeIn
  <2>2. i \in DOMAIN Tree
    <3>1. fuse.id \in Named(Tree, Tree[fuse.id].name) /\ Named(Tree, Tree[fuse.id].name) \subseteq DOMAIN Tree
      BY <1>4 DEF Named
    <3> QED BY <2>1, <3>1, FirstOfIs
  <2>3. Tree[fuse.id].path \in Seq(Names)
    BY <1>4, <2>1, ElementIs DEF TreeOK
  <2> HIDE DEF i
  <2>4. DOMAIN news \subseteq Ids /\ \A j \in DOMAIN news : news[j] \in Seq(Names)
    BY <2>1, <2>2, <2>3 DEF Only
  <2> HIDE DEF news
  <2>5. InodesOK(inodes')
    BY <1>4, <2>4, DriveKnown, AddPathsOK
  <2>6. fuse.name \in Names /\ fuse.parent \in Folders \cup {Root, NoItem}
    BY <1>1, DriveKnown DEF RequestIn
  <2>7. DOMAIN Only(i, fuse.name) \subseteq Known /\ \A j \in DOMAIN Only(i, fuse.name) : Only(i, fuse.name)[j] \in Names
    BY <2>1, <2>2, <2>6 DEF Only
  <2>8. KernelIn(kernel', Known)
    BY <1>4, <2>6, <2>7, DriveKnown, LearnOK
  <2> QED BY <1>1, <1>2, <2>5, <2>8, DriveKnown, TypesHandled
<1> HIDE DEF news, i
<1> QED BY <1>1, <1>3, <1>4

(* A change by another leaves a drive, of items that it had or new ones. *)
LEMMA RemoteChangeIs ==
  ASSUME TypeInv, RemoteChange
  PROVE  /\ left' \in [own : Nat, remote : Nat, failures : Nat]
         /\ UNCHANGED <<client, oldTree, inodes, kernel, refresh, fuse, mode>>
         /\ Change(drive', FALSE) /\ DriveOK(drive')
         /\ unused' \subseteq unused /\ unused' \subseteq Ids \ DOMAIN drive'
         /\ DOMAIN drive' \cup unused' \subseteq DOMAIN drive \cup unused
<1>1. /\ left.remote > 0 /\ left' = [left EXCEPT !.remote = @ - 1]
      /\ UNCHANGED <<client, oldTree, inodes, kernel, refresh, fuse, mode>>
  BY DEF RemoteChange
<1>2. left' \in [own : Nat, remote : Nat, failures : Nat]
  BY <1>1, LeftOK
<1>3. DriveOK(drive) /\ unused \subseteq Ids \ DOMAIN drive
  BY DriveKnown DEF TypeInv, ServiceOK
<1>4. ASSUME NEW d, Change(d, FALSE) PROVE drive' = d
  BY <1>4 DEF Change
<1>5. CASE \E i \in DOMAIN drive \ Devices :
             Change(Without(drive, Subtree(drive, i)), FALSE) /\ UNCHANGED unused
  <2>1. PICK i \in DOMAIN drive \ Devices :
          Change(Without(drive, Subtree(drive, i)), FALSE) /\ UNCHANGED unused
    BY <1>5
  <2> DEFINE d == Without(drive, Subtree(drive, i))
  <2>2. DriveOK(d) /\ DOMAIN d \subseteq DOMAIN drive
    BY <1>3, DriveRemoved
  <2>3. Change(d, FALSE)
    BY <2>1
  <2> HIDE DEF d
  <2> QED BY <1>1, <1>2, <1>3, <1>4, <2>1, <2>2, <2>3
<1>6. CASE \E i \in DOMAIN drive \ Devices, n \in Given :
             Change([drive EXCEPT ![i].name = n], FALSE) /\ UNCHANGED unused
  <2>1. PICK i \in DOMAIN drive \ Devices, n \in Given :
          Change([drive EXCEPT ![i].name = n], FALSE) /\ UNCHANGED unused
    BY <1>6
  <2> DEFINE d == [drive EXCEPT ![i].name = n]
  <2>2. n \in Names
    BY ItemsAssumption
  <2>3. DriveOK([drive EXCEPT ![i] = [parent |-> drive[i].parent, name |-> n]])
        /\ [drive EXCEPT ![i].name = n] = [drive EXCEPT ![i] = [parent |-> drive[i].parent, name |-> n]]
    BY <1>3, <2>2, DriveNamed
  <2>4. DriveOK(d)
    BY <2>3
  <2>5. DOMAIN d = DOMAIN drive
    OBVIOUS
  <2>6. Change(d, FALSE)
    BY <2>1
  <2> HIDE DEF d
  <2> QED BY <1>1, <1>2, <1>3, <1>4, <2>1, <2>4, <2>5, <2>6
<1>7. CASE \E i \in unused, p \in DOMAIN drive \cap Folders, n \in Given :
             Change(Over(Only(i, [parent |-> p, name |-> n]), drive), FALSE) /\ unused' = unused \ {i}
  <2>1. PICK i \in unused, p \in DOMAIN drive \cap Folders, n \in Given :
          Change(Over(Only(i, [parent |-> p, name |-> n]), drive), FALSE) /\ unused' = unused \ {i}
    BY <1>7
  <2> DEFINE d == Over(Only(i, [parent |-> p, name |-> n]), drive)
  <2>2. n \in Names /\ i \in Ids \ DOMAIN drive /\ p \in (DOMAIN drive \cap Folders) \cup {Root}
    BY <1>3, ItemsAssumption
  <2>3. DriveOK(d)
    BY <1>3, <2>2, DriveAdded
  <2>4. DOMAIN d = DOMAIN drive \cup {i}
    BY DEF Over, Only
  <2>5. Change(d, FALSE)
    BY <2>1
  <2> HIDE DEF d
  <2> QED BY <1>1, <1>2, <1>3, <1>4, <2>1, <2>3, <2>4, <2>5
<1> QED BY <1>5, <1>6, <1>7 DEF RemoteChange

(* A change by another client keeps the types. *)
LEMMA RemoteChangeTypes == ASSUME TypeInv, RemoteChange PROVE TypeInv'
<1>1. /\ left' \in [own : Nat, remote : Nat, failures : Nat]
      /\ UNCHANGED <<client, oldTree, inodes, kernel, refresh, fuse, mode>>
      /\ Change(drive', FALSE) /\ DriveOK(drive')
      /\ unused' \subseteq unused /\ unused' \subseteq Ids \ DOMAIN drive'
  BY RemoteChangeIs
<1>2. Known \subseteq Known' /\ Known \in SUBSET Ids /\ Known' \in SUBSET Ids
  BY <1>1 DEF Known
<1>3. ClientIn(client', Known') /\ RequestIn(fuse', Known')
  BY <1>1, <1>2, DriveKnown, KnownStays
<1> QED BY <1>1, <1>3, TypesChanged

(* For the steps of the refresh thread. *)
LEMMA TypesLoaded ==
  ASSUME TypeInv, UNCHANGED <<drive, unused, kernel, fuse, mode>>, left' = left \/ QueryFails,
         stale' \in [now : BOOLEAN, raced : BOOLEAN, overlap : BOOLEAN],
         ClientIn(client', Known), TreeIn(oldTree', Known), InodesOK(inodes'), RefreshIn(refresh', Known)
  PROVE  TypeInv'
<1>1. Known' = Known /\ ServiceOK' /\ KernelIn(kernel', Known) /\ RequestIn(fuse', Known)
  BY DEF TypeInv, Known, ServiceOK
<1>2. RestOK'
  <2>1. left' \in [own : Nat, remote : Nat, failures : Nat]
    BY LeftOK DEF QueryFails
  <2> QED BY <2>1 DEF TypeInv, RestOK
<1> QED BY <1>1, <1>2 DEF TypeInv

(* The history is one of flags. *)
LEMMA StaleOK == TypeInv => stale \in [now : BOOLEAN, raced : BOOLEAN, overlap : BOOLEAN]
BY DEF TypeInv, RestOK

(* Nothing is known of the empty tree. *)
LEMMA NothingKnown == ASSUME NEW K PROVE TreeIn(Nothing, K)
BY DEF Nothing, TreeIn, TreeOK

(* The start of a load keeps the types. *)
LEMMA ResetTypes == ASSUME TypeInv, Reset PROVE TypeInv'
<1>1. /\ refresh' = [pc |-> "list", todo |-> <<Root>>, answer |-> Nothing, before |-> {}]
      /\ oldTree' = client.items /\ client' = [items |-> Nothing, contents |-> Nothing]
      /\ stale' = [stale EXCEPT !.overlap = FALSE]
      /\ UNCHANGED <<drive, unused, inodes, kernel, fuse, mode, left>>
  BY DEF Reset, Asleep
<1>2. TreeIn(Nothing, Known)
  BY NothingKnown
<1>3. TreeIn(oldTree', Known)
  BY <1>1, DriveKnown DEF ClientIn, TreeIn
<1>4. ClientIn(client', Known)
  BY <1>1, <1>2 DEF ClientIn, TreeIn, Nothing
<1>5. RefreshIn(refresh', Known)
  <2>1. <<Root>> \in Seq(Folders \cup {Root})
    OBVIOUS
  <2> QED BY <1>1, <1>2, <2>1 DEF RefreshIn
<1>6. stale' \in [now : BOOLEAN, raced : BOOLEAN, overlap : BOOLEAN]
  BY <1>1, StaleOK
<1> QED BY <1>1, <1>3, <1>4, <1>5, <1>6, DriveKnown, TypesLoaded

(* What is left to list are folders. *)
LEMMA DescendIs ==
  ASSUME TypeInv, refresh.todo # << >>, NEW kids, DOMAIN kids \subseteq Ids
  PROVE  Descend(kids) \in Seq(Folders \cup {Root})
<1>1. Tail(refresh.todo) \in Seq(Folders \cup {Root})
  BY HeadTailProperties DEF TypeInv, RefreshIn
<1>2. InOrder(DOMAIN kids \cap Folders) \in Seq(Folders \cup {Root})
  <2>1. DOMAIN kids \cap Folders \in SUBSET Ids
    OBVIOUS
  <2>2. InOrder(DOMAIN kids \cap Folders) \in Seq(DOMAIN kids \cap Folders)
    BY <2>1, InOrderIs
  <2> QED BY <2>2
<1>3. << >> \in Seq(Folders \cup {Root})
  BY EmptySeq
<1> QED BY <1>1, <1>2, <1>3, ConcatProperties DEF Descend

(* A folder listed in a load keeps the types. *)
LEMMA ListFolderTypes == ASSUME TypeInv, ListFolder PROVE TypeInv'
<1> DEFINE i == Head(refresh.todo)
<1>1. /\ refresh.todo # << >> /\ UNCHANGED <<service, client, oldTree, inodes, kernel, fuse, mode, left>>
      /\ \/ i \in DOMAIN client.contents /\ refresh' = [refresh EXCEPT !.todo = Descend(client.contents[i])]
         \/ refresh' = [refresh EXCEPT !.pc = "store", !.answer = Listing(drive, i)]
  BY DEF ListFolder
<1>2. RefreshIn(refresh, Known)
  BY DEF TypeInv
<1> HIDE DEF i
<1>3. RefreshIn(refresh', Known)
  <2>1. CASE i \in DOMAIN client.contents /\ refresh' = [refresh EXCEPT !.todo = Descend(client.contents[i])]
    <3>1. DOMAIN client.contents[i] \subseteq Ids
      BY <2>1, DriveKnown DEF ClientIn
    <3>2. Descend(client.contents[i]) \in Seq(Folders \cup {Root})
      BY <1>1, <3>1, DescendIs
    <3>3. refresh.pc # "store"
      BY DEF ListFolder
    <3> QED BY <1>2, <2>1, <3>2, <3>3 DEF RefreshIn
  <2>2. CASE refresh' = [refresh EXCEPT !.pc = "store", !.answer = Listing(drive, i)]
    <3>1. TreeIn(Listing(drive, i), Known)
      BY DriveKnown, ListingOf DEF TreeIn
    <3> QED BY <1>1, <1>2, <2>2, <3>1 DEF RefreshIn
  <2> QED BY <1>1, <2>1, <2>2
<1>4. ClientIn(client', Known) /\ TreeIn(oldTree', Known) /\ InodesOK(inodes')
  BY <1>1 DEF TypeInv
<1> QED BY <1>1, <1>3, <1>4, StaleOK, TypesLoaded DEF service

(* A listing stored by a load keeps the types. *)
LEMMA StoreFolderTypes == ASSUME TypeInv, StoreFolder PROVE TypeInv'
<1>1. /\ refresh.pc = "store" /\ client' = Stored(client, Head(refresh.todo), refresh.answer)
      /\ refresh' = [refresh EXCEPT !.pc = "list", !.answer = Nothing, !.todo = Descend(refresh.answer)]
      /\ UNCHANGED <<service, oldTree, inodes, kernel, fuse, mode, left>>
  BY DEF StoreFolder
<1>2. RefreshIn(refresh, Known) /\ TreeIn(refresh.answer, Known) /\ refresh.todo # << >>
  BY <1>1 DEF TypeInv, RefreshIn
<1>3. TreeOK(refresh.answer) /\ DOMAIN refresh.answer \subseteq Known /\ DOMAIN refresh.answer \subseteq Ids
  BY <1>2 DEF TreeIn, TreeOK
<1>4. ClientIn(client', Known)
  BY <1>1, <1>3, DriveKnown, StoredIs
<1>5. RefreshIn(refresh', Known)
  <2>1. Descend(refresh.answer) \in Seq(Folders \cup {Root})
    BY <1>2, <1>3, DescendIs
  <2> QED BY <1>1, <1>2, <2>1, NothingKnown DEF RefreshIn
<1>6. TreeIn(oldTree', Known) /\ InodesOK(inodes')
  BY <1>1 DEF TypeInv
<1> QED BY <1>1, <1>4, <1>5, <1>6, StaleOK, TypesLoaded DEF service

(* A load that leaves the thread asleep keeps the types. *)
LEMMA AsleepTypes ==
  ASSUME NEW K, NEW r, r = [pc |-> r.pc, todo |-> << >>, answer |-> Nothing, before |-> r.before],
         r.pc \in {"idle", "paths", "lost", "dead"}
  PROVE  RefreshIn(r, K)
<1>1. << >> \in Seq(Folders \cup {Root}) /\ TreeIn(Nothing, K)
  BY EmptySeq, NothingKnown
<1>2. r.todo = << >> /\ r.answer = Nothing
  <2> HIDE DEF Nothing
  <2> QED OBVIOUS
<1>3. r = [pc |-> r.pc, todo |-> r.todo, answer |-> r.answer, before |-> r.before]
  BY <1>2
<1>4. r.todo \in Seq(Folders \cup {Root}) /\ TreeIn(r.answer, K)
  BY <1>1, <1>2
<1> QED BY <1>3, <1>4 DEF RefreshIn

(* A failed query of a load keeps the types. *)
LEMMA QueryFailsTypes == ASSUME TypeInv, QueryFails PROVE TypeInv'
<1>1. refresh' = [Asleep EXCEPT !.pc = "lost"]
      /\ UNCHANGED <<service, client, oldTree, inodes, kernel, fuse, mode>>
  BY DEF QueryFails
<1>2. RefreshIn(refresh', Known)
  BY <1>1, AsleepTypes DEF Asleep
<1>3. ClientIn(client', Known) /\ TreeIn(oldTree', Known) /\ InodesOK(inodes')
  BY <1>1 DEF TypeInv
<1> QED BY <1>1, <1>2, <1>3, StaleOK, TypesLoaded DEF service

(* The return from a load keeps the types. *)
LEMMA SwapTypes == ASSUME TypeInv, Swap PROVE TypeInv'
<1>1. refresh' = [Asleep EXCEPT !.pc = "paths", !.before = DOMAIN client.items] /\ oldTree' = Nothing
      /\ UNCHANGED <<service, client, inodes, kernel, fuse, mode, left>>
  BY DEF Swap
<1>2. RefreshIn(refresh', Known)
  BY <1>1, AsleepTypes DEF Asleep
<1>3. ClientIn(client', Known) /\ TreeIn(oldTree', Known) /\ InodesOK(inodes')
  BY <1>1, NothingKnown DEF TypeInv
<1> QED BY <1>1, <1>2, <1>3, StaleOK, TypesLoaded DEF service

(* The noting of paths keeps the types. *)
LEMMA NotePathsTypes == ASSUME TypeInv, NotePaths PROVE TypeInv'
<1>1. /\ \/ /\ Readable(client.items) /\ inodes' = RefreshedPaths(inodes, client.items)
            /\ refresh' = Asleep
            /\ stale' = [now |-> stale.overlap, raced |-> stale.overlap, overlap |-> FALSE]
         \/ refresh' = [Asleep EXCEPT !.pc = "dead"] /\ UNCHANGED <<inodes, stale>>
      /\ UNCHANGED <<drive, unused, client, oldTree, kernel, fuse, mode, left>>
  BY DEF NotePaths
<1>2. RefreshIn(refresh', Known)
  BY <1>1, AsleepTypes DEF Asleep
<1>3. InodesOK(inodes')
  <2>1. TreeOK(client.items)
    BY DriveKnown DEF ClientIn
  <2> QED BY <1>1, <2>1, DriveKnown, ReadableWalkable, RefreshedPathsOK
<1>4. stale' \in [now : BOOLEAN, raced : BOOLEAN, overlap : BOOLEAN]
  <2>1. stale.overlap \in BOOLEAN
    BY StaleOK
  <2>2. [now |-> stale.overlap, raced |-> stale.overlap, overlap |-> FALSE]
          \in [now : BOOLEAN, raced : BOOLEAN, overlap : BOOLEAN]
    BY <2>1, Zenon
  <2> QED BY <1>1, <2>2, StaleOK
<1>5. ClientIn(client', Known) /\ TreeIn(oldTree', Known)
  BY <1>1 DEF TypeInv
<1> QED BY <1>1, <1>2, <1>3, <1>4, <1>5, TypesLoaded

-----------------------------------------------------------------------------
(* At the start all is what the drive has, and listed. *)
LEMMA LoadedAtFirst ==
  ASSUME Init
  PROVE  /\ ServiceOK /\ DOMAIN drive = Known /\ ClientIn(client, Known)
         /\ \A i \in DOMAIN client.items : i \in DOMAIN drive /\ Like(client.items[i], Element(drive, i))
         /\ \A f \in DOMAIN client.contents : client.contents[f] = Listing(drive, f) /\ KidsOf(drive, f) \subseteq DOMAIN client.items
         /\ mode = "eager" => DOMAIN client.contents = {Root} \cup (DOMAIN drive \cap Folders)
<1> DEFINE listed == {Root} \cup IF mode = "eager" THEN DOMAIN drive \cap Folders ELSE {}
           ids    == UNION { KidsOf(drive, f) : f \in listed }
           news   == [i \in ids |-> Element(drive, i)]
<1>1. /\ DriveOK(drive) /\ unused = Ids \ DOMAIN drive
      /\ client = [items |-> Put(Nothing, news), contents |-> [f \in listed |-> Listing(drive, f)]]
  BY ItemsAssumption DEF Init
<1>2. DOMAIN drive = Known /\ ServiceOK
  BY <1>1, DriveIs DEF Known, ServiceOK
<1>3. ids \subseteq DOMAIN drive
  BY DEF KidsOf
<1> HIDE DEF ids
<1>4. DOMAIN news = ids /\ \A i \in ids : news[i] = Element(drive, i) /\ ElementOK(news[i])
  BY <1>1, <1>3, ElementOf
<1> HIDE DEF news
<1>5. TreeOK(news) /\ TreeOK(Nothing) /\ DOMAIN Nothing = {}
  BY <1>1, <1>3, <1>4, DriveIs DEF TreeOK, Nothing
<1>6. IsPut(Put(Nothing, news), Nothing, news)
  BY <1>5, PutIs
<1>7. /\ TreeOK(client.items) /\ DOMAIN client.items = ids
      /\ \A i \in ids : Like(client.items[i], Element(drive, i))
  BY <1>1, <1>4, <1>5, <1>6 DEF IsPut
<1>8. DOMAIN client.contents = listed /\ \A f \in listed : client.contents[f] = Listing(drive, f)
  BY <1>1
<1>9. \A f \in listed : KidsOf(drive, f) \subseteq ids
  BY DEF ids
<1> HIDE DEF listed
<1>10. ClientIn(client, Known)
  <2>1. \A f \in listed : TreeOK(Listing(drive, f)) /\ DOMAIN Listing(drive, f) \subseteq DOMAIN drive
    BY <1>1, ListingOf
  <2> QED BY <1>1, <1>2, <1>3, <1>7, <1>8, <2>1 DEF ClientIn
<1> QED BY <1>2, <1>3, <1>7, <1>8, <1>9, <1>10 DEF listed

(* The types, at first. *)
LEMMA TypesAtFirst == Init => TypeInv
<1> SUFFICES ASSUME Init PROVE TypeInv
  OBVIOUS
<1>1. ServiceOK /\ DOMAIN drive = Known /\ ClientIn(client, Known)
  BY LoadedAtFirst
<1>2. TreeIn(oldTree, Known) /\ KernelIn(kernel, Known)
  BY NothingKnown DEF Init, KernelIn, Nothing
<1>3. InodesOK(inodes)
  <2>1. inodes = [paths |-> [i \in DOMAIN client.items |-> {client.items[i].path}],
                  count |-> [i \in Ids |-> IF i \in DOMAIN client.items THEN 1 ELSE 0]]
    BY DEF Init
  <2>2. DOMAIN client.items \subseteq Ids /\ \A i \in DOMAIN client.items : client.items[i].path \in Seq(Names)
    BY <1>1, ElementIs DEF ClientIn, TreeOK
  <2> QED BY <2>1, <2>2 DEF InodesOK
<1>4. RefreshIn(refresh, Known) /\ RequestIn(fuse, Known)
  BY AsleepTypes, IdleRequest DEF Init, Asleep
<1>5. RestOK
  <2>1. PICK s \in Starts : mode = s.mode
                            /\ left = [own |-> s.own, remote |-> s.remote, failures |-> s.failures]
    BY DEF Init
  <2>2. s.mode \in {"lazy", "eager"} /\ s.own \in Nat /\ s.remote \in Nat /\ s.failures \in Nat
    BY ItemsAssumption
  <2>3. stale = [now |-> FALSE, raced |-> FALSE, overlap |-> FALSE]
    BY DEF Init
  <2> QED BY <2>1, <2>2, <2>3 DEF RestOK
<1> QED BY <1>1, <1>2, <1>3, <1>4, <1>5 DEF TypeInv

(* The types, by any step. *)
LEMMA TypesStep == TypeInv /\ [Next]_vars => TypeInv'
<1> SUFFICES ASSUME TypeInv, [Next]_vars PROVE TypeInv'
  OBVIOUS
<1>1. CASE UNCHANGED vars
  BY <1>1 DEF vars, TypeInv, ServiceOK, Known, RestOK
<1>2. CASE Handler
  BY <1>2, LookupTypes, StartMkdirTypes, ReaddirTypes, GetattrTypes, ForgetTypes, StartRemoveTypes,
     StartRenameTypes, CallRemoveTypes, NoteRemoveTypes, CallRenameTypes, NoteRenameTypes,
     CallMkdirTypes, NoteMkdirTypes, ItemsAssumption DEF Handler
<1>3. CASE RemoteChange
  BY <1>3, RemoteChangeTypes
<1>4. CASE RefreshStep
  BY <1>4, ResetTypes, ListFolderTypes, StoreFolderTypes, SwapTypes, NotePathsTypes DEF RefreshStep
<1>5. CASE QueryFails
  BY <1>5, QueryFailsTypes
<1> QED BY <1>1, <1>2, <1>3, <1>4, <1>5 DEF Next

(* The types are an invariant. *)
LEMMA TypesKept == Spec => []TypeInv
<1>1. Init => TypeInv
  BY TypesAtFirst
<1>2. TypeInv /\ [Next]_vars => TypeInv'
  BY TypesStep
<1> QED BY <1>1, <1>2, PTL DEF Spec

(* TypeOK: whatever is changed on the drive, and by whom, the drive has no  *)
(* cycles, the dictionaries have elements of known items, and each inode in *)
(* the map has a path.                                                       *)
THEOREM TreeTypeCorrect == Spec => []TypeOK
<1>1. TypeInv => TypeOK
  BY TypeInvIsMore
<1> QED BY <1>1, TypesKept, PTL

-----------------------------------------------------------------------------
(***************************************************************************)
(* Inodes with look-ups have paths.  unlink alone may leave one without,   *)
(* and it is of an item that nobody has: neither the drive nor, between    *)
(* two loads that no change fell into, the tree.                           *)
(***************************************************************************)
Live == DOMAIN drive \cup unused

Lost(m) == { i \in Ids : m.count[i] > 0 /\ i \notin DOMAIN m.paths }

Removing == fuse.pc = "note" /\ fuse.op = "remove"

CountInv ==
  /\ Lost(inodes) \cap Live = {}
  /\ Removing => fuse.id \notin Live
  /\ refresh.pc = "idle" /\ fuse.pc # "dead" /\ ~stale.raced =>
       /\ Lost(inodes) \cap DOMAIN client.items = {}
       /\ Removing => fuse.id \notin DOMAIN client.items
  /\ Refreshes /\ ~stale.overlap =>
       \A i \in DOMAIN client.items : i \in DOMAIN drive \/ client.items[i].kind = "empty"
  /\ refresh.pc = "store" /\ ~stale.overlap => DOMAIN refresh.answer \subseteq DOMAIN drive

(* A change of the drive is noted. *)
LEMMA ChangeIs ==
  ASSUME TypeInv, NEW d, NEW clean \in BOOLEAN, Change(d, clean)
  PROVE  /\ drive' = d
         /\ stale'.now <=> stale.now \/ ~clean \/ Refreshes
         /\ stale'.raced <=> stale.raced \/ Refreshes
         /\ stale'.overlap <=> stale.overlap \/ Refreshes
<1>1. stale \in [now : BOOLEAN, raced : BOOLEAN, overlap : BOOLEAN]
  BY StaleOK
<1>2. drive' = d /\ stale' = [stale EXCEPT !.now = @ \/ ~clean \/ Refreshes,
                                           !.raced = @ \/ Refreshes, !.overlap = @ \/ Refreshes]
  BY DEF Change
<1>3. /\ stale'.now = (stale.now \/ ~clean \/ Refreshes)
      /\ stale'.raced = (stale.raced \/ Refreshes)
      /\ stale'.overlap = (stale.overlap \/ Refreshes)
  BY <1>1, <1>2
<1> QED BY <1>2, <1>3

(* If none has lost its paths, no more are lost. *)
LEMMA NoWorseLost ==
  ASSUME NEW m, NEW m2, NoWorse(m, m2) PROVE Lost(m2) \subseteq Lost(m)
BY DEF NoWorse, Lost

(* For the steps that are not of the refresh thread. *)
LEMMA CountKept ==
  ASSUME TypeInv, CountInv, UNCHANGED refresh, Live' \subseteq Live,
         UNCHANGED service \/ \E d : \E clean \in BOOLEAN : Change(d, clean),
         Lost(inodes') \subseteq Lost(inodes),
         Removing' => \/ Removing /\ UNCHANGED <<fuse, client>>
                      \/ fuse'.id \notin Live' /\ fuse'.id \notin DOMAIN client'.items,
         fuse'.pc # "dead" => fuse.pc # "dead",
         \A i \in DOMAIN client'.items :
           \/ i \in DOMAIN client.items /\ client'.items[i] = client.items[i]
           \/ i \in DOMAIN drive' \/ client'.items[i].kind = "empty",
         refresh.pc = "idle" /\ fuse'.pc # "dead" =>
           \A i \in DOMAIN client'.items : i \in DOMAIN client.items \/ i \in DOMAIN drive'
  PROVE  CountInv'
<1>1. /\ stale.raced => stale'.raced
      /\ stale.overlap => stale'.overlap
      /\ Refreshes => stale'.overlap \/ UNCHANGED service
  BY ChangeIs DEF service
<1>2. (Lost(inodes) \cap Live = {})'
  BY DEF CountInv
<1>3. (Removing => fuse.id \notin Live)'
  BY DEF CountInv
<1>4. (refresh.pc = "idle" /\ fuse.pc # "dead" /\ ~stale.raced =>
         /\ Lost(inodes) \cap DOMAIN client.items = {}
         /\ Removing => fuse.id \notin DOMAIN client.items)'
  <2>1. SUFFICES ASSUME refresh.pc = "idle", fuse'.pc # "dead", ~stale'.raced
                 PROVE  /\ Lost(inodes') \cap DOMAIN client'.items = {}
                        /\ Removing' => fuse'.id \notin DOMAIN client'.items
    OBVIOUS
  <2>2. /\ Lost(inodes) \cap DOMAIN client.items = {} /\ Lost(inodes) \cap Live = {}
        /\ Removing => fuse.id \notin DOMAIN client.items
    BY <1>1, <2>1 DEF CountInv
  <2>3. DOMAIN drive' \subseteq Live
    BY DEF Live
  <2>4. Lost(inodes') \cap DOMAIN client'.items = {}
    BY <2>1, <2>2, <2>3
  <2>5. Removing' => fuse'.id \notin DOMAIN client'.items
    BY <2>2
  <2> QED BY <2>4, <2>5
<1>5. (Refreshes /\ ~stale.overlap =>
         \A i \in DOMAIN client.items : i \in DOMAIN drive \/ client.items[i].kind = "empty")'
  <2>1. SUFFICES ASSUME Refreshes, ~stale'.overlap
                 PROVE  \A i \in DOMAIN client'.items : i \in DOMAIN drive' \/ client'.items[i].kind = "empty"
    BY DEF Refreshes
  <2>2. drive' = drive /\ \A i \in DOMAIN client.items : i \in DOMAIN drive \/ client.items[i].kind = "empty"
    BY <1>1, <2>1 DEF CountInv, service
  <2> QED BY <2>2
<1>6. (refresh.pc = "store" /\ ~stale.overlap => DOMAIN refresh.answer \subseteq DOMAIN drive)'
  <2>1. SUFFICES ASSUME refresh.pc = "store", ~stale'.overlap
                 PROVE  DOMAIN refresh.answer \subseteq DOMAIN drive'
    OBVIOUS
  <2>2. drive' = drive /\ DOMAIN refresh.answer \subseteq DOMAIN drive
    BY <1>1, <2>1 DEF CountInv, service, Refreshes
  <2> QED BY <2>2
<1> QED BY <1>2, <1>3, <1>4, <1>5, <1>6 DEF CountInv

(* For those that leave the drive and the client alone. *)
LEMMA CountNoted ==
  ASSUME TypeInv, CountInv, UNCHANGED <<service, client, refresh>>, Lost(inodes') \subseteq Lost(inodes),
         ~Removing', fuse'.pc # "dead" => fuse.pc # "dead"
  PROVE  CountInv'
<1>1. Live' = Live /\ UNCHANGED refresh /\ UNCHANGED service /\ client' = client
  BY DEF Live, service
<1> QED BY <1>1, CountKept

(* A request that ends the loop keeps the inodes with look-ups named. *)
LEMMA DeadCount ==
  ASSUME TypeInv, CountInv, UNCHANGED <<service, client, refresh, inodes>>, Die
  PROVE  CountInv'
<1>1. fuse'.pc = "dead"
  BY DEF Die, NoRequest
<1> QED BY <1>1, CountNoted DEF Removing

(* A lookup keeps the inodes with look-ups named. *)
LEMMA LookupCount ==
  ASSUME TypeInv, CountInv, NEW p \in Folders \cup {Root}, NEW n \in Names, Lookup(p, n) PROVE CountInv'
<1>1. /\ Idle /\ UNCHANGED <<service, client, inodes, refresh>> /\ (UNCHANGED fuse \/ Die)
  BY DEF Lookup
<1>2. CASE UNCHANGED fuse
  BY <1>1, <1>2, CountNoted DEF Removing, Idle
<1> QED BY <1>1, <1>2, DeadCount

(* A getattr keeps the inodes with look-ups named. *)
LEMMA GetattrCount == ASSUME TypeInv, CountInv, NEW i \in Ids, Getattr(i) PROVE CountInv'
BY DeadCount DEF Getattr

(* For the handlers that load a folder of the drive. *)
LEMMA LoadCount ==
  ASSUME TypeInv, CountInv, Idle, UNCHANGED <<service, refresh>>,
         Grown(client, client', drive, {"unset", "empty"}), ClientIn(client', Known),
         \/ Die /\ UNCHANGED inodes
         \/ /\ Readable(NewTree) /\ NoWorse(inodes, inodes')
            /\ fuse'.pc \in {"idle", "call"}
  PROVE  CountInv'
<1>1. Lost(inodes') \subseteq Lost(inodes)
  BY NoWorseLost
<1>2. ~Removing' /\ (fuse'.pc # "dead" => Readable(NewTree))
  BY DEF Removing, Die, NoRequest
<1>3. \A i \in DOMAIN client'.items :
        \/ i \in DOMAIN client.items /\ client'.items[i] = client.items[i]
        \/ i \in DOMAIN drive \/ client'.items[i].kind = "empty"
  BY DEF Grown
<1>4. ASSUME refresh.pc = "idle", fuse'.pc # "dead", NEW i \in DOMAIN client'.items
      PROVE  i \in DOMAIN client.items \/ i \in DOMAIN drive
  <2>1. Readable(client'.items) /\ TreeOK(client'.items)
    BY <1>2, <1>4 DEF NewTree, Loading, ClientIn
  <2>2. client'.items[i].kind # "empty"
    BY <2>1, ReadableWalkable DEF Walkable
  <2> QED BY <1>3, <2>2
<1>5. drive' = drive /\ Live' \subseteq Live
  BY DEF Live, service
<1>6. fuse.pc # "dead" /\ UNCHANGED refresh /\ UNCHANGED service
  BY DEF Idle
<1> QED BY <1>1, <1>2, <1>3, <1>4, <1>5, <1>6, CountKept

(* A listing keeps the inodes with look-ups named. *)
LEMMA ReaddirCount ==
  ASSUME TypeInv, CountInv, NEW f \in Folders \cup {Root}, Readdir(f) PROVE CountInv'
<1>1. /\ Idle /\ UNCHANGED <<service, refresh>>
      /\ ClientIn(client', Known) /\ Grown(client, client', drive, {"unset", "empty"})
      /\ \/ Die /\ UNCHANGED inodes
         \/ Readable(NewTree) /\ UNCHANGED fuse /\ NoWorse(inodes, inodes')
  BY ReaddirIs
<1>2. UNCHANGED fuse => fuse'.pc \in {"idle", "call"}
  BY <1>1 DEF Idle
<1> QED BY <1>1, <1>2, LoadCount

(* The start of rename keeps the inodes with look-ups named. *)
LEMMA StartRenameCount ==
  ASSUME TypeInv, CountInv, NEW i \in Ids, NEW p2 \in Folders, NEW n2 \in Given, StartRename(i, p2, n2)
  PROVE  CountInv'
<1>1. /\ Idle /\ UNCHANGED <<service, refresh>>
      /\ ClientIn(client', Known) /\ Grown(client, client', drive, {"unset", "empty"})
      /\ \/ Die /\ UNCHANGED inodes
         \/ Readable(NewTree) /\ fuse'.pc = "call" /\ NoWorse(inodes, inodes')
  BY StartRenameIs
<1> QED BY <1>1, LoadCount

(* A forget keeps the inodes with look-ups named. *)
LEMMA ForgetCount == ASSUME TypeInv, CountInv, NEW i \in Ids, Forget(i) PROVE CountInv'
<1>1. /\ Idle /\ i \in DOMAIN kernel /\ inodes' = Forgotten(inodes, i, kernel[i].n)
      /\ UNCHANGED <<service, client, refresh, fuse>>
  BY DEF Forget
<1>2. kernel[i].n \in Nat
  BY <1>1, OptionsAssumption, DriveKnown DEF KernelIn
<1>3. Lost(inodes') \subseteq Lost(inodes)
  BY <1>1, <1>2, DriveKnown, ForgottenOK, NoWorseLost
<1> QED BY <1>1, <1>3, CountNoted DEF Removing, Idle

(* For the requests that look something up before they call the client. *)
LEMMA StartCount ==
  ASSUME TypeInv, CountInv, Idle, UNCHANGED <<service, client, refresh, inodes>>, Die \/ fuse'.pc = "call"
  PROVE  CountInv'
BY DeadCount, CountNoted DEF Removing, Idle

(* The start of unlink or rmdir keeps the inodes with look-ups named. *)
LEMMA StartRemoveCount == ASSUME TypeInv, CountInv, NEW i \in Ids, StartRemove(i) PROVE CountInv'
<1> DEFINE p == kernel[i].parent
           n == kernel[i].name
<1>1. Idle /\ UNCHANGED <<service, client, inodes, refresh>>
  BY DEF StartRemove
<1>2. PICK q \in PathsOf(inodes, p) :
        LET id == First(Tree, Append(q, n))
        IN IF p = Root \/ id = NoItem THEN Die
           ELSE fuse' = [NoRequest EXCEPT !.pc = "call", !.op = "remove", !.id = id,
                           !.parent = p, !.name = n, !.path = Append(q, n)]
  BY DEF StartRemove
<1>3. Die \/ fuse'.pc = "call"
  BY <1>2 DEF NoRequest
<1> QED BY <1>1, <1>3, StartCount

(* The start of mkdir keeps the inodes with look-ups named. *)
LEMMA StartMkdirCount ==
  ASSUME TypeInv, CountInv, NEW p \in Folders \cup {Root}, NEW n \in Given, StartMkdir(p, n) PROVE CountInv'
<1>1. Idle /\ UNCHANGED <<service, client, inodes, refresh>>
  BY DEF StartMkdir
<1>2. Die \/ fuse'.pc = "call"
  <2>1. CASE p = Root
    BY <2>1 DEF StartMkdir
  <2>2. CASE p # Root
    <3>1. PICK q \in PathsOf(inodes, p) :
            LET bases == IF Cardinality(PathsOf(inodes, p)) = 1 THEN Named(Tree, Last(q))
                         ELSE AtPath(Tree, q)
            IN IF bases = {} THEN Die
               ELSE fuse' = [NoRequest EXCEPT !.pc = "call", !.op = "mkdir",
                               !.id = FirstOf(Tree, bases), !.parent = p, !.name = n]
      BY <2>2 DEF StartMkdir
    <3> QED BY <3>1 DEF NoRequest
  <2> QED BY <2>1, <2>2
<1> QED BY <1>1, <1>2, StartCount

(* What has been removed is nowhere. *)
LEMMA CallRemoveCount == ASSUME TypeInv, CountInv, CallRemove PROVE CountInv'
<1>1. /\ fuse.pc = "call" /\ fuse.op = "remove" /\ UNCHANGED <<inodes, refresh>>
  BY DEF CallRemove
<1> DEFINE c2 == [client EXCEPT !.items = Without(@, {fuse.id})]
           f2 == [fuse EXCEPT !.pc = "note"]
<1>2. /\ DOMAIN c2.items = DOMAIN client.items \ {fuse.id}
      /\ \A j \in DOMAIN c2.items : c2.items[j] = client.items[j]
  <2>1. IsTaken(c2, client, fuse.id)
    BY DriveKnown, TakeOne
  <2> HIDE DEF c2
  <2> QED BY <2>1 DEF IsTaken
<1>3. f2.id = fuse.id /\ f2.pc = "note"
  BY <1>1, DriveKnown DEF RequestIn
<1>4. fuse.id \in Known /\ fuse.id \notin unused
  BY <1>1, DriveKnown DEF RequestIn, Known
<1> HIDE DEF c2, f2
<1>5. CASE /\ fuse.id \in DOMAIN drive
           /\ Change(Without(drive, Subtree(drive, fuse.id)), NothingBelow(client, fuse.id))
           /\ client' = c2 /\ fuse' = f2 /\ UNCHANGED unused
  <2> DEFINE d == Without(drive, Subtree(drive, fuse.id))
  <2>1. DOMAIN d = DOMAIN drive \ Subtree(drive, fuse.id)
    BY DriveKnown, DriveRemoved
  <2>2. fuse.id \notin DOMAIN d
    BY <1>5, <2>1, SubtreeIs
  <2>3. NothingBelow(client, fuse.id) \in BOOLEAN
    BY DEF NothingBelow
  <2>4. Change(d, NothingBelow(client, fuse.id)) /\ drive' = d
    BY <1>5 DEF Change
  <2> HIDE DEF d
  <2>5. Live' \subseteq Live /\ fuse.id \notin Live'
    BY <1>4, <1>5, <2>1, <2>2, <2>4 DEF Live
  <2>6. UNCHANGED service \/ \E e : \E clean \in BOOLEAN : Change(e, clean)
    BY <2>3, <2>4
  <2>7. Lost(inodes') \subseteq Lost(inodes)
    BY <1>1
  <2> QED BY <1>1, <1>2, <1>3, <1>5, <2>5, <2>6, <2>7, CountKept
<1>6. CASE fuse.id \notin DOMAIN drive /\ client' = c2 /\ fuse' = f2 /\ UNCHANGED service
  <2>1. Live' \subseteq Live /\ fuse.id \notin Live'
    BY <1>4, <1>6 DEF Live, service
  <2>2. Lost(inodes') \subseteq Lost(inodes)
    BY <1>1
  <2> QED BY <1>1, <1>2, <1>3, <1>6, <2>1, <2>2, CountKept
<1>7. CASE Die /\ UNCHANGED <<client, service>>
  BY <1>1, <1>7, DeadCount
<1>8. \/ /\ fuse.id \in DOMAIN drive
         /\ Change(Without(drive, Subtree(drive, fuse.id)), NothingBelow(client, fuse.id))
         /\ client' = c2 /\ fuse' = f2 /\ UNCHANGED unused
      \/ fuse.id \notin DOMAIN drive /\ client' = c2 /\ fuse' = f2 /\ UNCHANGED service
      \/ Die /\ UNCHANGED <<client, service>>
  BY DEF CallRemove, c2, f2
<1> QED BY <1>5, <1>6, <1>7, <1>8

(* The one inode that may lose its last path is of the item that is gone. *)
LEMMA NoteRemoveCount == ASSUME TypeInv, CountInv, NoteRemove PROVE CountInv'
<1>1. /\ Removing /\ UNCHANGED <<service, client, refresh>>
      /\ \/ Reply /\ UNCHANGED inodes
         \/ Die /\ UNCHANGED inodes
         \/ PathsOf(inodes, fuse.id) # {} /\ Reply /\ inodes' = MinusPath(inodes, fuse.id, fuse.path)
  BY DEF NoteRemove, Removing
<1>2. CASE Die /\ UNCHANGED inodes
  BY <1>1, <1>2, DeadCount
<1>3. CASE Reply /\ UNCHANGED inodes
  <2>1. fuse.pc # "dead" /\ fuse'.pc = "idle"
    BY <1>1, <1>3 DEF Removing, Reply, NoRequest
  <2> QED BY <1>1, <1>3, <2>1, CountNoted DEF Removing
<1>4. CASE PathsOf(inodes, fuse.id) # {} /\ Reply /\ inodes' = MinusPath(inodes, fuse.id, fuse.path)
  <2>1. fuse.id \in Known /\ fuse.id # Root /\ fuse.pc # "dead" /\ fuse'.pc = "idle"
    BY <1>1, <1>4, DriveKnown, ItemsAssumption DEF RequestIn, Removing, Reply, NoRequest
  <2>2. fuse.id \in DOMAIN inodes.paths
    BY <1>4, <2>1 DEF PathsOf
  <2>3. inodes'.count = inodes.count /\ DOMAIN inodes.paths \ {fuse.id} \subseteq DOMAIN inodes'.paths
    BY <1>4, <2>2, DriveKnown, MinusPathOK
  <2>4. Lost(inodes') \subseteq Lost(inodes) \cup {fuse.id}
    BY <2>3 DEF Lost
  <2>5. Live' = Live /\ client' = client /\ refresh' = refresh /\ stale' = stale /\ drive' = drive
    BY <1>1 DEF Live, service
  <2>6. ~Removing' /\ fuse.id \notin Live
    BY <1>1, <2>1 DEF Removing, CountInv
  <2>7. (Lost(inodes) \cap Live = {})'
    BY <2>4, <2>5, <2>6 DEF CountInv
  <2>8. (refresh.pc = "idle" /\ fuse.pc # "dead" /\ ~stale.raced =>
           /\ Lost(inodes) \cap DOMAIN client.items = {}
           /\ Removing => fuse.id \notin DOMAIN client.items)'
    BY <1>1, <2>1, <2>4, <2>5, <2>6 DEF CountInv
  <2>9. (Refreshes /\ ~stale.overlap =>
           \A i \in DOMAIN client.items : i \in DOMAIN drive \/ client.items[i].kind = "empty")'
    BY <2>5 DEF CountInv, Refreshes
  <2>10. (refresh.pc = "store" /\ ~stale.overlap => DOMAIN refresh.answer \subseteq DOMAIN drive)'
    BY <2>5 DEF CountInv
  <2> QED BY <2>6, <2>7, <2>8, <2>9, <2>10 DEF CountInv
<1> QED BY <1>1, <1>2, <1>3, <1>4

(* The renaming at the service keeps the inodes with look-ups named. *)
LEMMA CallRenameCount == ASSUME TypeInv, CountInv, CallRename PROVE CountInv'
<1>1. fuse.op = "rename" /\ fuse.pc = "call" /\ UNCHANGED <<inodes, refresh>>
  BY RenameCalls
<1>2. CASE UNCHANGED <<service, client>> /\ (Die \/ Reply)
  BY <1>1, <1>2, CountNoted, DeadCount DEF Removing, Reply, NoRequest
<1>3. CASE /\ \E id, c, p, n : Moved(id, c, p, n)
           /\ \/ Reply
              \/ \E q \in Seq(Names) : fuse' = [fuse EXCEPT !.pc = "note", !.newPath = q]
  <2>1. PICK id, c, p, n : Moved(id, c, p, n)
    BY <1>3
  <2>2. /\ DOMAIN drive' = DOMAIN drive /\ unused' = unused
        /\ Change(drive', NothingBelow(c, id)) /\ Grown(c, client', drive', {})
    BY <2>1, MovedDrive
  <2>3. Grown(client, c, drive, {"unset"})
    BY <2>1 DEF Moved
  <2>4. fuse'.op # "remove" /\ fuse'.pc # "dead"
    <3>1. CASE Reply
      BY <3>1 DEF Reply, NoRequest
    <3>2. CASE \E q \in Seq(Names) : fuse' = [fuse EXCEPT !.pc = "note", !.newPath = q]
      BY <1>1, <3>2, DriveKnown DEF RequestIn
    <3> QED BY <1>3, <3>1, <3>2
  <2>5. \A i \in DOMAIN client'.items :
          (i \in DOMAIN client.items /\ client'.items[i] = client.items[i]) \/ i \in DOMAIN drive'
    <3>1. \A i \in DOMAIN client'.items :
            (i \in DOMAIN c.items /\ client'.items[i] = c.items[i]) \/ i \in DOMAIN drive'
      BY <2>2 DEF Grown
    <3>2. \A i \in DOMAIN c.items :
            (i \in DOMAIN client.items /\ c.items[i] = client.items[i]) \/ i \in DOMAIN drive
      BY <2>3 DEF Grown
    <3> QED BY <2>2, <3>1, <3>2
  <2>6. NothingBelow(c, id) \in BOOLEAN
    BY DEF NothingBelow
  <2>7. Live' \subseteq Live /\ Lost(inodes') \subseteq Lost(inodes) /\ ~Removing' /\ fuse.pc # "dead" /\ UNCHANGED refresh
    BY <1>1, <2>2, <2>4 DEF Live, Removing
  <2> QED BY <2>2, <2>5, <2>6, <2>7, CountKept
<1> QED BY <1>2, <1>3, RenameCalls

(* The noting of a renaming keeps the inodes with look-ups named. *)
LEMMA NoteRenameCount == ASSUME TypeInv, CountInv, NoteRename PROVE CountInv'
<1>1. /\ UNCHANGED <<service, client, refresh>> /\ fuse.pc = "note"
      /\ \/ Die /\ UNCHANGED inodes
         \/ /\ fuse.id \in DOMAIN inodes.paths /\ Reply
            /\ \E P : inodes' = [inodes EXCEPT !.paths[fuse.id] = P]
  BY DEF NoteRename
<1>2. CASE Die /\ UNCHANGED inodes
  BY <1>1, <1>2, DeadCount
<1>3. CASE Reply /\ \E P : inodes' = [inodes EXCEPT !.paths[fuse.id] = P]
  <2>1. inodes = [paths |-> inodes.paths, count |-> inodes.count]
    BY DriveKnown DEF InodesOK
  <2>2. inodes'.count = inodes.count /\ DOMAIN inodes'.paths = DOMAIN inodes.paths
    BY <1>3, <2>1
  <2>3. Lost(inodes') \subseteq Lost(inodes) /\ ~Removing'
    BY <1>3, <2>2 DEF Lost, Removing, Reply, NoRequest
  <2> QED BY <1>1, <2>3, CountNoted
<1> QED BY <1>1, <1>2, <1>3

(* The new folder at the service keeps the inodes with look-ups named. *)
LEMMA CallMkdirCount == ASSUME TypeInv, CountInv, CallMkdir PROVE CountInv'
<1>1. fuse.op = "mkdir" /\ fuse.pc = "call" /\ UNCHANGED <<inodes, refresh>>
  BY MkdirCalls
<1>2. CASE UNCHANGED <<service, client>> /\ Die
  BY <1>1, <1>2, DeadCount
<1>3. ASSUME NEW i, fuse' = [fuse EXCEPT !.pc = "note", !.id = i]
      PROVE  fuse.pc # "dead" /\ ~Removing' /\ Lost(inodes') \subseteq Lost(inodes) /\ UNCHANGED refresh
  BY <1>1, <1>3, DriveKnown DEF RequestIn, Removing
<1>4. CASE /\ UNCHANGED service /\ Grown(client, client', drive, {})
           /\ \E i \in Known : fuse' = [fuse EXCEPT !.pc = "note", !.id = i]
  <2>1. \A i \in DOMAIN client'.items :
          (i \in DOMAIN client.items /\ client'.items[i] = client.items[i]) \/ i \in DOMAIN drive
    BY <1>4 DEF Grown
  <2>2. drive' = drive /\ Live' \subseteq Live
    BY <1>4 DEF Live, service
  <2> QED BY <1>3, <1>4, <2>1, <2>2, CountKept
<1>5. CASE \E i, c, p, n : Made(c, i, p, n) /\ fuse' = [fuse EXCEPT !.pc = "note", !.id = i]
  <2>1. PICK i, c, p, n : Made(c, i, p, n) /\ fuse' = [fuse EXCEPT !.pc = "note", !.id = i]
    BY <1>5
  <2>2. /\ DOMAIN drive' = DOMAIN drive \cup {i} /\ unused' = unused \ {i} /\ i \in unused
        /\ Change(drive', TRUE) /\ Grown(c, client', drive', {})
    BY <2>1, MadeDrive
  <2>3. Grown(client, c, drive, {})
    BY <2>1 DEF Made
  <2>4. \A j \in DOMAIN client'.items :
          (j \in DOMAIN client.items /\ client'.items[j] = client.items[j]) \/ j \in DOMAIN drive'
    <3>1. \A j \in DOMAIN client'.items :
            (j \in DOMAIN c.items /\ client'.items[j] = c.items[j]) \/ j \in DOMAIN drive'
      BY <2>2 DEF Grown
    <3>2. \A j \in DOMAIN c.items :
            (j \in DOMAIN client.items /\ c.items[j] = client.items[j]) \/ j \in DOMAIN drive
      BY <2>3 DEF Grown
    <3> QED BY <2>2, <3>1, <3>2
  <2>5. Live' \subseteq Live
    BY <2>2 DEF Live
  <2> QED BY <1>3, <2>1, <2>2, <2>4, <2>5, CountKept
<1> QED BY <1>2, <1>4, <1>5, MkdirCalls

(* The noting of a new folder keeps the inodes with look-ups named. *)
LEMMA NoteMkdirCount == ASSUME TypeInv, CountInv, NoteMkdir PROVE CountInv'
<1> DEFINE i == FirstOf(Tree, Named(Tree, Tree[fuse.id].name))
           news == Only(i, Tree[fuse.id].path)
<1>1. /\ fuse.pc = "note" /\ UNCHANGED <<service, client, refresh>>
      /\ \/ Die /\ UNCHANGED inodes
         \/ fuse.id \in DOMAIN Tree /\ inodes' = AddPaths(inodes, news) /\ Reply
  BY DEF NoteMkdir
<1>2. CASE fuse.id \in DOMAIN Tree /\ inodes' = AddPaths(inodes, news) /\ Reply
  <2>1. TreeOK(Tree)
    BY TreeKnown DEF TreeIn
  <2>2. DOMAIN news \subseteq Ids /\ \A j \in DOMAIN news : news[j] \in Seq(Names)
    <3>1. fuse.id \in Named(Tree, Tree[fuse.id].name) /\ Named(Tree, Tree[fuse.id].name) \subseteq DOMAIN Tree
      BY <1>2 DEF Named
    <3>2. i \in Ids
      BY <2>1, <3>1, FirstOfIs DEF TreeOK
    <3>3. Tree[fuse.id].path \in Seq(Names)
      BY <1>2, <2>1, ElementIs DEF TreeOK
    <3> HIDE DEF i
    <3> QED BY <3>2, <3>3 DEF Only
  <2> HIDE DEF news
  <2>3. Lost(inodes') \subseteq Lost(inodes) /\ ~Removing'
    BY <1>2, <2>2, DriveKnown, AddPathsOK, NoWorseLost DEF Removing, Reply, NoRequest
  <2> QED BY <1>1, <2>3, CountNoted
<1> HIDE DEF news
<1> QED BY <1>1, <1>2, DeadCount

(* A change by another client keeps the inodes with look-ups named. *)
LEMMA RemoteChangeCount == ASSUME TypeInv, CountInv, RemoteChange PROVE CountInv'
<1>1. /\ UNCHANGED <<client, inodes, refresh, fuse>> /\ Change(drive', FALSE)
      /\ DOMAIN drive' \cup unused' \subseteq DOMAIN drive \cup unused
  BY RemoteChangeIs
<1>2. Live' \subseteq Live
  BY <1>1 DEF Live
<1> QED BY <1>1, <1>2, CountKept DEF Removing

(* A load begins with nothing, adds what the drive has, and ends with paths *)
(* for all of it.                                                            *)
LEMMA LoadingCount ==
  ASSUME TypeInv, CountInv, UNCHANGED <<service, inodes, fuse>>, refresh'.pc # "idle",
         Refreshes' /\ ~stale.overlap =>
           \A i \in DOMAIN client'.items : i \in DOMAIN drive \/ client'.items[i].kind = "empty",
         refresh'.pc = "store" /\ ~stale.overlap => DOMAIN refresh'.answer \subseteq DOMAIN drive
  PROVE  CountInv'
<1>1. Live' = Live /\ drive' = drive /\ stale' = stale /\ Removing' = Removing
  BY DEF Live, service, Removing
<1> QED BY <1>1 DEF CountInv

(* The start of a load keeps the inodes with look-ups named. *)
LEMMA ResetCount == ASSUME TypeInv, CountInv, Reset PROVE CountInv'
<1>1. /\ refresh'.pc = "list" /\ DOMAIN client'.items = {} /\ UNCHANGED <<drive, unused, inodes, fuse>>
  BY DEF Reset, Nothing, Asleep
<1>2. Live' = Live /\ Removing' = Removing
  BY <1>1 DEF Live, Removing
<1> QED BY <1>1, <1>2 DEF CountInv

(* A folder listed in a load keeps the inodes with look-ups named. *)
LEMMA ListFolderCount == ASSUME TypeInv, CountInv, ListFolder PROVE CountInv'
<1> DEFINE i == Head(refresh.todo)
<1>1. /\ refresh.pc = "list" /\ UNCHANGED <<service, client, inodes, fuse>>
      /\ \/ refresh' = [refresh EXCEPT !.todo = Descend(client.contents[i])]
         \/ refresh' = [refresh EXCEPT !.pc = "store", !.answer = Listing(drive, i)]
  BY DEF ListFolder
<1>2. DOMAIN Listing(drive, i) \subseteq DOMAIN drive
  BY DriveKnown, ListingOf
<1> HIDE DEF i
<1>3. refresh'.pc \in {"list", "store"}
      /\ (refresh'.pc = "store" => DOMAIN refresh'.answer \subseteq DOMAIN drive)
  BY <1>1, <1>2 DEF TypeInv, RefreshIn
<1>4. ~stale.overlap => \A j \in DOMAIN client'.items : j \in DOMAIN drive \/ client'.items[j].kind = "empty"
  BY <1>1 DEF CountInv, Refreshes
<1>5. UNCHANGED <<service, inodes, fuse>>
  BY <1>1
<1> QED BY <1>3, <1>4, <1>5, LoadingCount

(* A listing stored by a load keeps the inodes with look-ups named. *)
LEMMA StoreFolderCount == ASSUME TypeInv, CountInv, StoreFolder PROVE CountInv'
<1>1. /\ refresh.pc = "store" /\ client' = Stored(client, Head(refresh.todo), refresh.answer)
      /\ refresh' = [refresh EXCEPT !.pc = "list", !.answer = Nothing, !.todo = Descend(refresh.answer)]
      /\ UNCHANGED <<service, inodes, fuse>>
  BY DEF StoreFolder
<1>2. refresh'.pc = "list"
  BY <1>1 DEF TypeInv, RefreshIn
<1>3. TreeOK(refresh.answer) /\ DOMAIN refresh.answer \subseteq Known
  BY DEF TypeInv, RefreshIn, TreeIn
<1>4. IsPut(client'.items, client.items, refresh.answer)
  <2>1. IsStored(client', client, Head(refresh.todo), refresh.answer)
    BY <1>1, <1>3, DriveKnown, StoredIs
  <2> QED BY <2>1 DEF IsStored
<1>5. ~stale.overlap => \A j \in DOMAIN client'.items : j \in DOMAIN drive \/ client'.items[j].kind = "empty"
  BY <1>1, <1>4 DEF CountInv, Refreshes, IsPut
<1> QED BY <1>1, <1>2, <1>5, LoadingCount

(* A failed query of a load keeps the inodes with look-ups named. *)
LEMMA QueryFailsCount == ASSUME TypeInv, CountInv, QueryFails PROVE CountInv'
<1>1. refresh'.pc = "lost" /\ UNCHANGED <<service, inodes, fuse>>
  BY DEF QueryFails, Asleep
<1> QED BY <1>1, LoadingCount DEF Refreshes

(* The return from a load keeps the inodes with look-ups named. *)
LEMMA SwapCount == ASSUME TypeInv, CountInv, Swap PROVE CountInv'
<1>1. refresh.pc = "list" /\ refresh'.pc = "paths" /\ UNCHANGED <<service, client, inodes, fuse>>
  BY DEF Swap, Asleep
<1>2. ~stale.overlap => \A j \in DOMAIN client'.items : j \in DOMAIN drive \/ client'.items[j].kind = "empty"
  BY <1>1 DEF CountInv, Refreshes
<1> QED BY <1>1, <1>2, LoadingCount

(* The noting of paths keeps the inodes with look-ups named. *)
LEMMA NotePathsCount == ASSUME TypeInv, CountInv, NotePaths PROVE CountInv'
<1>1. /\ refresh.pc = "paths" /\ UNCHANGED <<drive, unused, client, fuse>>
      /\ \/ /\ Readable(client.items) /\ inodes' = RefreshedPaths(inodes, client.items)
            /\ refresh' = Asleep
            /\ stale' = [now |-> stale.overlap, raced |-> stale.overlap, overlap |-> FALSE]
         \/ refresh' = [Asleep EXCEPT !.pc = "dead"] /\ UNCHANGED <<inodes, stale>>
  BY DEF NotePaths
<1>2. CASE /\ Readable(client.items) /\ inodes' = RefreshedPaths(inodes, client.items)
           /\ refresh' = Asleep
           /\ stale' = [now |-> stale.overlap, raced |-> stale.overlap, overlap |-> FALSE]
  <2>1. refresh'.pc = "idle" /\ stale'.raced = stale.overlap
    BY <1>2 DEF Asleep
  <2>2. TreeOK(client.items) /\ Walkable(client.items)
    BY <1>2, DriveKnown, ReadableWalkable DEF ClientIn
  <2>3. Lost(inodes') \subseteq Lost(inodes)
    BY <1>2, <2>2, DriveKnown, RefreshedPathsOK, NoWorseLost
  <2>4. ~stale.overlap => DOMAIN client.items \subseteq DOMAIN drive
    BY <1>1, <2>2 DEF CountInv, Refreshes, Walkable
  <2>5. Live' = Live /\ Removing' = Removing /\ DOMAIN drive \subseteq Live
    BY <1>1 DEF Live, Removing
  <2>6. ~stale'.raced => /\ Lost(inodes') \cap DOMAIN client'.items = {}
                         /\ Removing' => fuse'.id \notin DOMAIN client'.items
    BY <1>1, <2>1, <2>3, <2>4, <2>5 DEF CountInv
  <2> QED BY <1>1, <2>1, <2>3, <2>5, <2>6 DEF CountInv, Refreshes
<1>3. CASE refresh' = [Asleep EXCEPT !.pc = "dead"] /\ UNCHANGED <<inodes, stale>>
  <2>1. refresh'.pc = "dead" /\ UNCHANGED <<service, inodes, fuse>>
    BY <1>1, <1>3 DEF Asleep, service
  <2> QED BY <2>1, LoadingCount DEF Refreshes
<1> QED BY <1>1, <1>2, <1>3

(* The lost inodes, at first: none. *)
LEMMA CountAtFirst == Init => CountInv
<1> SUFFICES ASSUME Init PROVE CountInv
  OBVIOUS
<1>1. /\ inodes = [paths |-> [i \in DOMAIN client.items |-> {client.items[i].path}],
                   count |-> [i \in Ids |-> IF i \in DOMAIN client.items THEN 1 ELSE 0]]
      /\ refresh.pc = "idle" /\ fuse.pc = "idle"
  BY DEF Init, Asleep, NoRequest
<1>2. Lost(inodes) = {}
  BY <1>1 DEF Lost
<1> QED BY <1>1, <1>2 DEF CountInv, Removing, Refreshes

(* The lost inodes, by any step. *)
LEMMA CountStep == TypeInv /\ CountInv /\ [Next]_vars => CountInv'
<1> SUFFICES ASSUME TypeInv, CountInv, [Next]_vars PROVE CountInv'
  OBVIOUS
<1>1. CASE UNCHANGED vars
  BY <1>1 DEF vars, CountInv, Live, Removing, Refreshes
<1>2. CASE Handler
  BY <1>2, LookupCount, StartMkdirCount, ReaddirCount, GetattrCount, ForgetCount, StartRemoveCount,
     StartRenameCount, CallRemoveCount, NoteRemoveCount, CallRenameCount, NoteRenameCount,
     CallMkdirCount, NoteMkdirCount, ItemsAssumption DEF Handler
<1>3. CASE RemoteChange
  BY <1>3, RemoteChangeCount
<1>4. CASE RefreshStep
  BY <1>4, ResetCount, ListFolderCount, StoreFolderCount, SwapCount, NotePathsCount DEF RefreshStep
<1>5. CASE QueryFails
  BY <1>5, QueryFailsCount
<1> QED BY <1>1, <1>2, <1>3, <1>4, <1>5 DEF Next

(* CountedHasPath: an inode with look-ups has a path in the map of inodes.  *)
(* forget and unlink take paths away, _refresh_path only adds them; unlink  *)
(* takes the last one of an item that is gone from the drive, and a load    *)
(* that no change fell into cannot bring it back into the tree.             *)
THEOREM CountedKeepPaths == Spec => []CountedHasPath
<1>1. Init => CountInv
  BY CountAtFirst
<1>2. TypeInv /\ CountInv /\ [Next]_vars => CountInv'
  BY CountStep
<1>3. TypeInv /\ CountInv => CountedHasPath
  BY DEF CountInv, CountedHasPath, Steady, Idle, Lost, TypeInv, ClientIn, TreeOK
<1> QED BY <1>1, <1>2, <1>3, TypesKept, PTL DEF Spec

-----------------------------------------------------------------------------
(***************************************************************************)
(* The tree is the drive.  As long as nothing has made it stale, and while *)
(* a load goes on that no change fell into, what the client has is what    *)
(* the drive has, listed folders have all their items in the dictionary,   *)
(* and what a load still has to list leads to all that is missing.         *)
(***************************************************************************)
Clean ==
  \/ refresh.pc = "idle" /\ ~stale.now
  \/ Refreshes /\ ~stale.overlap

Told(t, d) ==
  \A i \in DOMAIN t :
    \/ t[i].kind = "empty"
    \/ i \in DOMAIN d /\ (Like(t[i], Element(d, i)) \/ t[i].kind = "unset")

(* Some folders, and all folders below them. *)
Below(d, T) ==
  { g \in DOMAIN d \cup {Root} :
      \A S \in SUBSET (DOMAIN d \cup {Root}) :
        T \cap (DOMAIN d \cup {Root}) \subseteq S /\ (\A k \in DOMAIN d \cap Folders : d[k].parent \in S => k \in S)
          => g \in S }

Reaches(t, d, todo) ==
  \A f \in (DOMAIN d \cap Folders) \cup {Root} : KidsOf(d, f) \subseteq DOMAIN t \/ f \in Below(d, Range(todo))

TreeInv ==
  Clean =>
    /\ Told(client.items, drive) /\ HeldIn(client, drive)
    /\ refresh.pc = "idle" /\ fuse.pc # "dead" => Readable(client.items)
    /\ mode = "eager" /\ refresh.pc \in {"idle", "paths"} => DOMAIN drive \subseteq DOMAIN client.items
    /\ refresh.pc \in {"list", "store"} =>
         /\ \A f \in DOMAIN client.contents : DOMAIN client.contents[f] = KidsOf(drive, f)
         /\ mode = "eager" => Reaches(client.items, drive, refresh.todo)
    /\ refresh.pc = "store" => refresh.answer = Listing(drive, Head(refresh.todo))

(* All folders are below the root. *)
LEMMA BelowRoot ==
  ASSUME NEW d, DriveOK(d) PROVE (DOMAIN d \cap Folders) \cup {Root} \subseteq Below(d, {Root})
<1> SUFFICES ASSUME NEW g \in (DOMAIN d \cap Folders) \cup {Root}, NEW S \in SUBSET (DOMAIN d \cup {Root}),
                    Root \in S, \A k \in DOMAIN d \cap Folders : d[k].parent \in S => k \in S
             PROVE  g \in S
  BY DEF Below
<1> DEFINE M == (DOMAIN d \cap Folders) \ S
<1>1. SUFFICES ASSUME M # {} PROVE FALSE
  OBVIOUS
<1>2. PICK j \in M : d[j].parent \notin M
  BY <1>1, DriveIs
<1>3. d[j].parent \in (DOMAIN d \cap Folders) \cup {Root}
  BY <1>2, DriveIs
<1> QED BY <1>2, <1>3

(* Nothing is below no folder. *)
LEMMA BelowNone == ASSUME NEW d PROVE Below(d, {}) = {}
<1>1. SUFFICES ASSUME NEW g \in Below(d, {}) PROVE FALSE
  OBVIOUS
<1>2. \A S \in SUBSET (DOMAIN d \cup {Root}) :
        {} \cap (DOMAIN d \cup {Root}) \subseteq S /\ (\A k \in DOMAIN d \cap Folders : d[k].parent \in S => k \in S)
          => g \in S
  BY DEF Below
<1>3. {} \in SUBSET (DOMAIN d \cup {Root})
  OBVIOUS
<1> QED BY <1>2, <1>3

(* To list a folder leaves its folders to list. *)
LEMMA BelowNext ==
  ASSUME NEW d, NEW i, NEW T, NEW T1, NEW T2, T \subseteq {i} \cup T1, (KidsOf(d, i) \cap Folders) \cup T1 \subseteq T2
  PROVE  Below(d, T) \subseteq {i} \cup Below(d, T2)
<1> DEFINE N == DOMAIN d \cup {Root}
<1> SUFFICES ASSUME NEW g \in Below(d, T), g # i, NEW S \in SUBSET N,
                    T2 \cap N \subseteq S, \A k \in DOMAIN d \cap Folders : d[k].parent \in S => k \in S
             PROVE  g \in S
  BY DEF Below
<1> DEFINE R == S \cup ({i} \cap N)
<1>1. T \cap N \subseteq R
  OBVIOUS
<1>2. \A k \in DOMAIN d \cap Folders : d[k].parent \in R => k \in R
  BY DEF KidsOf
<1>3. R \in SUBSET N
  OBVIOUS
<1>4. g \in R
  BY <1>1, <1>2, <1>3 DEF Below
<1> QED BY <1>4

(* What tree lists next: the folders in a folder, and then what was left. *)
LEMMA Descended ==
  ASSUME TypeInv, refresh.todo # << >>, mode = "eager", NEW kids, DOMAIN kids \subseteq Ids
  PROVE  /\ Range(refresh.todo) \subseteq {Head(refresh.todo)} \cup Range(Tail(refresh.todo))
         /\ (DOMAIN kids \cap Folders) \cup Range(Tail(refresh.todo)) \subseteq Range(Descend(kids))
<1> DEFINE F == Folders \cup {Root}
           S == DOMAIN kids \cap Folders
           todo == refresh.todo
           o == InOrder(S)
<1>1. todo \in Seq(F) /\ Tail(todo) \in Seq(F)
  BY HeadTailProperties DEF TypeInv, RefreshIn
<1>2. o \in Seq(F) /\ \A x \in S : \E k \in DOMAIN o : o[k] = x
  <2>1. S \in SUBSET Ids
    OBVIOUS
  <2>2. o \in Seq(S) /\ \A x \in S : \E k \in DOMAIN o : o[k] = x
    BY <2>1, InOrderIs
  <2> HIDE DEF o
  <2> QED BY <2>2
<1>3. Descend(kids) = o \o Tail(todo)
  BY DEF Descend
<1> HIDE DEF o, S, todo, F
<1>4. Range(todo) \subseteq {Head(todo)} \cup Range(Tail(todo))
  <2>1. SUFFICES ASSUME NEW k \in DOMAIN todo, k # 1 PROVE todo[k] \in Range(Tail(todo))
    BY <1>1 DEF Range, todo
  <2>2. todo # << >>
    BY DEF todo
  <2>3. k - 1 \in DOMAIN Tail(todo) /\ Tail(todo)[k - 1] = todo[k]
    BY <1>1, <2>1, <2>2
  <2> QED BY <2>3 DEF Range
<1>5. S \cup Range(Tail(todo)) \subseteq Range(o \o Tail(todo))
  <2>1. ASSUME NEW x \in S PROVE x \in Range(o \o Tail(todo))
    <3>1. PICK k \in DOMAIN o : o[k] = x
      BY <1>2
    <3>2. k \in DOMAIN (o \o Tail(todo)) /\ (o \o Tail(todo))[k] = x
      BY <1>1, <1>2, <3>1
    <3> QED BY <3>2 DEF Range
  <2>2. ASSUME NEW x \in Range(Tail(todo)) PROVE x \in Range(o \o Tail(todo))
    <3>1. PICK k \in DOMAIN Tail(todo) : Tail(todo)[k] = x
      BY DEF Range
    <3>2. Len(o) + k \in DOMAIN (o \o Tail(todo)) /\ (o \o Tail(todo))[Len(o) + k] = x
      BY <1>1, <1>2, <3>1
    <3> QED BY <3>2 DEF Range
  <2> QED BY <2>1, <2>2
<1> QED BY <1>3, <1>4, <1>5 DEF S, todo

(* To list folder i, and have its items, leaves less to list. *)
LEMMA ReachesNext ==
  ASSUME TypeInv, refresh.todo # << >>, mode = "eager", NEW t, NEW t2, NEW kids, DOMAIN kids \subseteq Ids,
         DOMAIN kids = KidsOf(drive, Head(refresh.todo)), Reaches(t, drive, refresh.todo),
         DOMAIN t \subseteq DOMAIN t2, KidsOf(drive, Head(refresh.todo)) \subseteq DOMAIN t2
  PROVE  Reaches(t2, drive, Descend(kids))
<1> DEFINE i == Head(refresh.todo)
<1>1. /\ Range(refresh.todo) \subseteq {i} \cup Range(Tail(refresh.todo))
      /\ (KidsOf(drive, i) \cap Folders) \cup Range(Tail(refresh.todo)) \subseteq Range(Descend(kids))
  BY Descended
<1> HIDE DEF i
<1>2. Below(drive, Range(refresh.todo)) \subseteq {i} \cup Below(drive, Range(Descend(kids)))
  BY <1>1, BelowNext
<1> QED BY <1>2 DEF Reaches, i

(* The client has been told of what it learns. *)
LEMMA GrownTold ==
  ASSUME NEW c, NEW c2, NEW d, Grown(c, c2, d, {"unset", "empty"}), Told(c.items, d) PROVE Told(c2.items, d)
BY DEF Grown, Told

(* What a readable tree tells of an item is what the drive has. *)
LEMMA ToldReadable ==
  ASSUME NEW t, TreeOK(t), NEW d, DriveOK(d), Told(t, d), Readable(t), NEW i \in DOMAIN t
  PROVE  i \in DOMAIN d /\ Like(t[i], Element(d, i))
BY ItemsAssumption DEF Told, Readable, Unreadable, TreeOK

(* What is listed can be read. *)
LEMMA GrownReadable ==
  ASSUME NEW c, NEW c2, NEW d, DriveOK(d), Grown(c, c2, d, {}), Readable(c.items) PROVE Readable(c2.items)
<1>1. SUFFICES ASSUME NEW i \in DOMAIN c2.items PROVE ~Unreadable(c2.items, i)
  BY DEF Readable
<1>2. CASE i \in DOMAIN c.items /\ c2.items[i] = c.items[i]
  BY <1>2 DEF Readable, Unreadable
<1>3. CASE i \in DOMAIN d /\ Like(c2.items[i], Element(d, i))
  <2>1. ElementOK(Element(d, i)) /\ Element(d, i).kind \in {"folder", "file"}
    BY <1>3, ElementOf
  <2>2. c2.items[i].kind = Element(d, i).kind
    BY <1>3, <2>1, LikeIs
  <2> QED BY <2>1, <2>2 DEF Unreadable
<1> QED BY <1>2, <1>3 DEF Grown

(* Where items keep their names and folders, they keep their elements. *)
LEMMA SameElements ==
  ASSUME NEW d, DriveOK(d), NEW e, DriveOK(e), NEW A \in SUBSET (DOMAIN d \cap DOMAIN e),
         \A j \in A : d[j] = e[j] /\ d[j].parent \in A \cup {Root}
  PROVE  \A j \in A : Element(d, j) = Element(e, j)
BY SamePaths DEF Element

(* For the steps of handlers that leave the drive alone. *)
LEMMA TreeHandled ==
  ASSUME TypeInv, TreeInv, UNCHANGED <<service, refresh, mode>>,
         Told(client.items, drive) => Told(client'.items, drive),
         HeldIn(client, drive) => HeldIn(client', drive),
         DOMAIN client.items \cap DOMAIN drive \subseteq DOMAIN client'.items,
         \A f \in DOMAIN client'.contents :
           \/ f \in DOMAIN client.contents /\ client'.contents[f] = client.contents[f]
           \/ DOMAIN client'.contents[f] = KidsOf(drive, f),
         refresh.pc = "idle" /\ fuse'.pc # "dead" =>
           fuse.pc # "dead" /\ (Readable(client.items) => Readable(client'.items))
  PROVE  TreeInv'
<1>1. /\ drive' = drive /\ stale' = stale /\ refresh' = refresh /\ mode' = mode
      /\ Clean' = Clean
  BY DEF service, Clean, Refreshes
<1>2. SUFFICES ASSUME Clean
      PROVE  /\ Told(client'.items, drive) /\ HeldIn(client', drive)
             /\ refresh.pc = "idle" /\ fuse'.pc # "dead" => Readable(client'.items)
             /\ mode = "eager" /\ refresh.pc \in {"idle", "paths"} => DOMAIN drive \subseteq DOMAIN client'.items
             /\ refresh.pc \in {"list", "store"} =>
                  /\ \A f \in DOMAIN client'.contents : DOMAIN client'.contents[f] = KidsOf(drive, f)
                  /\ mode = "eager" => Reaches(client'.items, drive, refresh.todo)
             /\ refresh.pc = "store" => refresh.answer = Listing(drive, Head(refresh.todo))
  BY <1>1 DEF TreeInv
<1>3. /\ Told(client.items, drive) /\ HeldIn(client, drive)
      /\ refresh.pc = "idle" /\ fuse.pc # "dead" => Readable(client.items)
      /\ mode = "eager" /\ refresh.pc \in {"idle", "paths"} => DOMAIN drive \subseteq DOMAIN client.items
      /\ refresh.pc \in {"list", "store"} =>
           /\ \A f \in DOMAIN client.contents : DOMAIN client.contents[f] = KidsOf(drive, f)
           /\ mode = "eager" => Reaches(client.items, drive, refresh.todo)
      /\ refresh.pc = "store" => refresh.answer = Listing(drive, Head(refresh.todo))
  BY <1>2 DEF TreeInv
<1>4. Reaches(client.items, drive, refresh.todo) => Reaches(client'.items, drive, refresh.todo)
  BY DEF Reaches, KidsOf
<1>5. refresh.pc = "idle" /\ fuse'.pc # "dead" => Readable(client'.items)
  BY <1>3
<1>6. mode = "eager" /\ refresh.pc \in {"idle", "paths"} => DOMAIN drive \subseteq DOMAIN client'.items
  BY <1>3
<1>7. refresh.pc \in {"list", "store"} =>
        \A f \in DOMAIN client'.contents : DOMAIN client'.contents[f] = KidsOf(drive, f)
  BY <1>3
<1> QED BY <1>3, <1>4, <1>5, <1>6, <1>7

(* For those that leave the client alone too. *)
LEMMA TreeNoted ==
  ASSUME TypeInv, TreeInv, UNCHANGED <<service, client, refresh, mode>>, fuse'.pc # "dead" => fuse.pc # "dead"
  PROVE  TreeInv'
<1>1. client' = client /\ UNCHANGED <<service, refresh, mode>>
  OBVIOUS
<1> QED BY <1>1, TreeHandled

(* A request that ends the loop keeps the tree true to the drive. *)
LEMMA DeadTree ==
  ASSUME TypeInv, TreeInv, UNCHANGED <<service, client, refresh, mode>>, Die PROVE TreeInv'
BY TreeNoted DEF Die, NoRequest

(* For those that have the client load more of the drive. *)
LEMMA TreeGrown ==
  ASSUME TypeInv, TreeInv, UNCHANGED <<service, refresh, mode>>,
         Grown(client, client', drive, {"unset", "empty"}),
         refresh.pc = "idle" /\ fuse'.pc # "dead" =>
           fuse.pc # "dead" /\ (Readable(client.items) => Readable(client'.items))
  PROVE  TreeInv'
<1>1. DriveOK(drive)
  BY DriveKnown
<1>2. Told(client.items, drive) => Told(client'.items, drive)
  BY GrownTold
<1>3. HeldIn(client, drive) => HeldIn(client', drive)
  BY <1>1, GrownHolds
<1>4. DOMAIN client.items \cap DOMAIN drive \subseteq DOMAIN client'.items
  BY DEF Grown
<1>5. \A f \in DOMAIN client'.contents :
        \/ f \in DOMAIN client.contents /\ client'.contents[f] = client.contents[f]
        \/ DOMAIN client'.contents[f] = KidsOf(drive, f)
  BY <1>1, ListingOf DEF Grown
<1> QED BY <1>2, <1>3, <1>4, <1>5, TreeHandled

(* For the steps that change the drive. *)
LEMMA TreeChanged ==
  ASSUME TypeInv, TreeInv, NEW clean \in BOOLEAN, Change(drive', clean), UNCHANGED <<refresh, mode>>,
         clean /\ refresh.pc = "idle" /\ Clean =>
           /\ Told(client'.items, drive') /\ HeldIn(client', drive')
           /\ fuse'.pc # "dead" => Readable(client'.items)
           /\ mode = "eager" => DOMAIN drive' \subseteq DOMAIN client'.items
  PROVE  TreeInv'
<1>1. /\ stale'.now <=> stale.now \/ ~clean \/ Refreshes
      /\ stale'.overlap <=> stale.overlap \/ Refreshes
  BY ChangeIs
<1>2. Clean' => clean /\ refresh.pc = "idle" /\ Clean
  BY <1>1 DEF Clean, Refreshes
<1> QED BY <1>2 DEF TreeInv

(* A lookup keeps the tree true to the drive. *)
LEMMA LookupTree ==
  ASSUME TypeInv, TreeInv, NEW p \in Folders \cup {Root}, NEW n \in Names, Lookup(p, n) PROVE TreeInv'
<1>1. Idle /\ UNCHANGED <<service, client, refresh, mode>> /\ (UNCHANGED fuse \/ Die)
  BY DEF Lookup
<1> QED BY <1>1, TreeNoted DEF Idle

(* A getattr keeps the tree true to the drive. *)
LEMMA GetattrTree == ASSUME TypeInv, TreeInv, NEW i \in Ids, Getattr(i) PROVE TreeInv'
BY DeadTree DEF Getattr

(* A request that has a folder loaded keeps the tree true to the drive. *)
LEMMA LoadTree ==
  ASSUME TypeInv, TreeInv, Idle, UNCHANGED <<service, refresh, mode>>,
         Grown(client, client', drive, {"unset", "empty"}), Die \/ Readable(NewTree)
  PROVE  TreeInv'
<1>1. refresh.pc = "idle" /\ fuse'.pc # "dead" => fuse.pc # "dead" /\ Readable(client'.items)
  BY DEF NewTree, Loading, Idle, Die, NoRequest
<1> QED BY <1>1, TreeGrown

(* A listing keeps the tree true to the drive. *)
LEMMA ReaddirTree ==
  ASSUME TypeInv, TreeInv, NEW f \in Folders \cup {Root}, Readdir(f) PROVE TreeInv'
<1>1. /\ Idle /\ UNCHANGED <<service, refresh, mode>>
      /\ Grown(client, client', drive, {"unset", "empty"}) /\ (Die \/ Readable(NewTree))
  BY ReaddirIs
<1> QED BY <1>1, LoadTree

(* The start of rename keeps the tree true to the drive. *)
LEMMA StartRenameTree ==
  ASSUME TypeInv, TreeInv, NEW i \in Ids, NEW p2 \in Folders, NEW n2 \in Given, StartRename(i, p2, n2)
  PROVE  TreeInv'
<1>1. /\ Idle /\ UNCHANGED <<service, refresh, mode>>
      /\ Grown(client, client', drive, {"unset", "empty"}) /\ (Die \/ Readable(NewTree))
  BY StartRenameIs
<1> QED BY <1>1, LoadTree

(* For the steps of handlers that look up or note something. *)
LEMMA QuietTree ==
  ASSUME TypeInv, TreeInv, \/ \E i \in Ids : Forget(i) \/ StartRemove(i)
                           \/ \E p \in Folders \cup {Root}, n \in Given : StartMkdir(p, n)
                           \/ NoteRemove \/ NoteRename \/ NoteMkdir
  PROVE  TreeInv'
<1>1. UNCHANGED <<service, client, refresh, mode>> /\ fuse.pc \in {"idle", "note"}
  BY DEF Forget, StartRemove, StartMkdir, NoteRemove, NoteRename, NoteMkdir, Idle
<1> QED BY <1>1, TreeNoted

(* What is removed is taken out of the dictionary, and nothing is below it. *)
LEMMA CallRemoveTree == ASSUME TypeInv, TreeInv, CallRemove PROVE TreeInv'
<1>1. fuse.pc = "call" /\ UNCHANGED <<refresh, mode>>
  BY DEF CallRemove
<1> DEFINE id == fuse.id
           c2 == [client EXCEPT !.items = Without(@, {id})]
<1>2. /\ c2.contents = client.contents /\ DOMAIN c2.items = DOMAIN client.items \ {id}
      /\ \A j \in DOMAIN c2.items : c2.items[j] = client.items[j]
  <2>1. IsTaken(c2, client, id)
    BY DriveKnown, TakeOne
  <2> HIDE DEF c2
  <2> QED BY <2>1 DEF IsTaken
<1>3. DriveOK(drive)
  BY DriveKnown
<1> HIDE DEF id, c2
<1>4. CASE /\ Change(Without(drive, Subtree(drive, id)), NothingBelow(client, id))
           /\ client' = c2 /\ id \in DOMAIN drive
  <2> DEFINE d == Without(drive, Subtree(drive, id))
  <2>1. /\ DriveOK(d) /\ DOMAIN d = DOMAIN drive \ Subtree(drive, id)
        /\ \A j \in DOMAIN drive \ Subtree(drive, id) : d[j] = drive[j]
    BY <1>3, DriveRemoved
  <2>2. NothingBelow(client, id) \in BOOLEAN
    BY DEF NothingBelow
  <2>3. Change(d, NothingBelow(client, id)) /\ drive' = d
    BY <1>4 DEF Change
  <2> HIDE DEF d
  <2>4. \A j \in DOMAIN d : Element(drive, j) = Element(d, j)
    <3>1. \A j \in DOMAIN d : drive[j] = d[j] /\ drive[j].parent \in DOMAIN d \cup {Root}
      BY <1>3, <2>1, SubtreeIs, DriveIs
    <3>2. DOMAIN d \in SUBSET (DOMAIN drive \cap DOMAIN d)
      BY <2>1
    <3> QED BY <1>3, <2>1, <3>1, <3>2, SameElements
  <2>5. ASSUME NothingBelow(client, id), refresh.pc = "idle", Clean
        PROVE  /\ Told(c2.items, d) /\ HeldIn(c2, d)
               /\ Readable(c2.items)
               /\ mode = "eager" => DOMAIN d \subseteq DOMAIN c2.items
    <3>1. /\ Told(client.items, drive) /\ HeldIn(client, drive) /\ Readable(client.items)
          /\ mode = "eager" => DOMAIN drive \subseteq DOMAIN client.items
      BY <1>1, <2>5 DEF TreeInv
    <3>2. Subtree(drive, id) \cap DOMAIN c2.items = {} /\ id \notin DOMAIN d
      BY <1>2, <1>4, <2>1, <2>5, SubtreeIs DEF NothingBelow
    <3>3. Told(c2.items, d)
      BY <1>2, <2>1, <2>4, <3>1, <3>2 DEF Told
    <3>4. HeldIn(c2, d)
      BY <1>2, <2>1, <3>1, <3>2 DEF HeldIn
    <3>5. Readable(c2.items)
      BY <1>2, <3>1 DEF Readable, Unreadable
    <3> QED BY <1>2, <2>1, <3>1, <3>2, <3>3, <3>4, <3>5
  <2>6. Change(drive', NothingBelow(client, id))
    BY <2>3
  <2> QED BY <1>1, <1>4, <2>2, <2>3, <2>5, <2>6, TreeChanged
<1>5. CASE id \notin DOMAIN drive /\ client' = c2 /\ UNCHANGED service
  <2>1. Told(client.items, drive) => Told(client'.items, drive)
    BY <1>2, <1>5 DEF Told
  <2>2. HeldIn(client, drive) => HeldIn(client', drive)
    BY <1>2, <1>5 DEF HeldIn
  <2>3. Readable(client.items) => Readable(client'.items)
    BY <1>2, <1>5 DEF Readable, Unreadable
  <2> QED BY <1>1, <1>2, <1>5, <2>1, <2>2, <2>3, TreeHandled
<1>6. CASE Die /\ UNCHANGED <<client, service>>
  BY <1>1, <1>6, DeadTree
<1>7. \/ /\ Change(Without(drive, Subtree(drive, id)), NothingBelow(client, id))
         /\ client' = c2 /\ id \in DOMAIN drive
      \/ id \notin DOMAIN drive /\ client' = c2 /\ UNCHANGED service
      \/ Die /\ UNCHANGED <<client, service>>
  BY DEF CallRemove, c2, id
<1> QED BY <1>4, <1>5, <1>6, <1>7

(* Of what is moved, and not below it, the client has the new element.     *)
LEMMA CallRenameTree == ASSUME TypeInv, TreeInv, CallRename PROVE TreeInv'
<1>1. fuse.pc = "call" /\ UNCHANGED <<refresh, mode>>
  BY RenameCalls
<1>2. CASE UNCHANGED <<service, client>> /\ (Die \/ Reply)
  BY <1>1, <1>2, TreeNoted
<1>3. CASE \E id, c, p, n : Moved(id, c, p, n)
  <2>1. PICK id, c, p, n : Moved(id, c, p, n)
    BY <1>3
  <2>2. /\ DriveOK(drive') /\ DOMAIN drive' = DOMAIN drive /\ id \in DOMAIN drive
        /\ \A j \in DOMAIN drive : j # id => drive'[j] = drive[j]
        /\ Change(drive', NothingBelow(c, id)) /\ Grown(c, client', drive', {})
        /\ id \in DOMAIN client'.items /\ Like(client'.items[id], Element(drive', id))
    BY <2>1, MovedDrive
  <2>3. DriveOK(drive) /\ (HeldIn(client, drive) => Grown(client, c, drive, {}))
    BY <2>1, DriveKnown DEF Moved
  <2> DEFINE A == DOMAIN drive \ Subtree(drive, id)
  <2>4. \A j \in A : Element(drive, j) = Element(drive', j)
    <3>1. \A j \in A : drive[j] = drive'[j] /\ drive[j].parent \in A \cup {Root}
      BY <2>2, <2>3, SubtreeIs, DriveIs
    <3>2. A \in SUBSET (DOMAIN drive \cap DOMAIN drive')
      BY <2>2
    <3> HIDE DEF A
    <3> QED BY <2>2, <2>3, <3>1, <3>2, SameElements
  <2>5. NothingBelow(c, id) \in BOOLEAN
    BY DEF NothingBelow
  <2>6. ASSUME NothingBelow(c, id), refresh.pc = "idle", Clean
        PROVE  /\ Told(client'.items, drive') /\ HeldIn(client', drive') /\ Readable(client'.items)
               /\ mode = "eager" => DOMAIN drive' \subseteq DOMAIN client'.items
    <3>1. /\ Told(client.items, drive) /\ HeldIn(client, drive) /\ Readable(client.items)
          /\ mode = "eager" => DOMAIN drive \subseteq DOMAIN client.items
      BY <1>1, <2>6 DEF TreeInv
    <3>2. Grown(client, c, drive, {}) /\ Grown(client, c, drive, {"unset", "empty"})
      BY <2>3, <3>1, GrownOdder
    <3>3. Told(c.items, drive) /\ Readable(c.items) /\ HeldIn(c, drive)
      BY <2>3, <3>1, <3>2, GrownTold, GrownReadable, GrownHolds
    <3>4. Told(client'.items, drive')
      <4>1. SUFFICES ASSUME NEW j \in DOMAIN client'.items, client'.items[j].kind # "empty", j # id
                     PROVE j \in DOMAIN drive' /\ (Like(client'.items[j], Element(drive', j)) \/ client'.items[j].kind = "unset")
        BY <2>2 DEF Told
      <4>2. CASE j \in DOMAIN c.items /\ client'.items[j] = c.items[j]
        <5>1. j \in DOMAIN drive /\ (Like(c.items[j], Element(drive, j)) \/ c.items[j].kind = "unset")
          BY <3>3, <4>1, <4>2 DEF Told
        <5>2. j \in A
          BY <2>6, <4>1, <4>2, <5>1 DEF NothingBelow
        <5> QED BY <2>2, <2>4, <4>2, <5>1, <5>2
      <4>3. CASE j \in DOMAIN drive' /\ Like(client'.items[j], Element(drive', j))
        BY <4>3
      <4> QED BY <2>2, <4>2, <4>3 DEF Grown
    <3>5. HeldIn(client', drive')
      <4>1. HeldIn(c, drive')
        BY <2>2, <3>3 DEF HeldIn
      <4> QED BY <2>2, <4>1, GrownHolds
    <3>6. Readable(client'.items)
      BY <2>2, <3>3, GrownReadable
    <3>7. mode = "eager" => DOMAIN drive' \subseteq DOMAIN client'.items
      BY <2>2, <3>1, <3>2 DEF Grown
    <3> QED BY <3>4, <3>5, <3>6, <3>7
  <2> QED BY <1>1, <2>2, <2>5, <2>6, TreeChanged
<1> QED BY <1>2, <1>3, RenameCalls

(* A new folder takes no other place on the drive than its own.            *)
LEMMA CallMkdirTree == ASSUME TypeInv, TreeInv, CallMkdir PROVE TreeInv'
<1>1. fuse.pc = "call" /\ UNCHANGED <<refresh, mode>>
  BY MkdirCalls
<1>2. CASE UNCHANGED <<service, client>> /\ Die
  BY <1>1, <1>2, DeadTree
<1>3. CASE UNCHANGED service /\ Grown(client, client', drive, {})
  <2>1. Grown(client, client', drive, {"unset", "empty"})
    BY <1>3, GrownOdder
  <2>2. Readable(client.items) => Readable(client'.items)
    BY <1>3, DriveKnown, GrownReadable
  <2> QED BY <1>1, <1>3, <2>1, <2>2, TreeGrown
<1>4. CASE \E i, c, p, n : Made(c, i, p, n)
  <2>1. PICK i, c, p, n : Made(c, i, p, n)
    BY <1>4
  <2>2. /\ DriveOK(drive') /\ DOMAIN drive' = DOMAIN drive \cup {i} /\ i \in unused /\ i \notin DOMAIN drive
        /\ \A j \in DOMAIN drive : drive'[j] = drive[j]
        /\ Change(drive', TRUE) /\ Grown(c, client', drive', {})
        /\ i \in DOMAIN client'.items
    BY <2>1, MadeDrive
  <2>3. DriveOK(drive) /\ Grown(client, c, drive, {}) /\ ClientIn(c, Known)
    BY <2>1, DriveKnown DEF Made
  <2>4. \A j \in DOMAIN drive : Element(drive, j) = Element(drive', j)
    <3>1. \A j \in DOMAIN drive : drive[j] = drive'[j] /\ drive[j].parent \in DOMAIN drive \cup {Root}
      BY <2>2, <2>3, DriveIs
    <3>2. DOMAIN drive \in SUBSET (DOMAIN drive \cap DOMAIN drive')
      BY <2>2
    <3> QED BY <2>2, <2>3, <3>1, <3>2, SameElements
  <2>5. ASSUME refresh.pc = "idle", Clean
        PROVE  /\ Told(client'.items, drive') /\ HeldIn(client', drive') /\ Readable(client'.items)
               /\ mode = "eager" => DOMAIN drive' \subseteq DOMAIN client'.items
    <3>1. /\ Told(client.items, drive) /\ HeldIn(client, drive) /\ Readable(client.items)
          /\ mode = "eager" => DOMAIN drive \subseteq DOMAIN client.items
      BY <1>1, <2>5 DEF TreeInv
    <3>2. Grown(client, c, drive, {"unset", "empty"}) /\ Grown(c, client', drive', {"unset", "empty"})
      BY <2>2, <2>3, GrownOdder
    <3>3. Told(c.items, drive) /\ Readable(c.items) /\ HeldIn(c, drive)
      BY <2>3, <3>1, <3>2, GrownTold, GrownReadable, GrownHolds
    <3>4. Told(c.items, drive')
      BY <2>2, <2>4, <3>3 DEF Told
    <3>5. HeldIn(c, drive')
      <4>1. \A f \in DOMAIN c.contents : i \notin DOMAIN c.contents[f]
        BY <2>2, <2>3 DEF ClientIn, Known
      <4> QED BY <2>2, <3>3, <4>1 DEF HeldIn
    <3>6. Told(client'.items, drive')
      BY <3>2, <3>4, GrownTold
    <3>7. HeldIn(client', drive')
      BY <2>2, <3>5, GrownHolds
    <3>8. Readable(client'.items)
      BY <2>2, <3>3, GrownReadable
    <3>9. mode = "eager" => DOMAIN drive' \subseteq DOMAIN client'.items
      BY <2>2, <2>3, <3>1 DEF Grown
    <3> QED BY <3>6, <3>7, <3>8, <3>9
  <2> QED BY <1>1, <2>2, <2>5, TreeChanged
<1> QED BY <1>2, <1>3, <1>4, MkdirCalls

(* A change by another client keeps the tree true to the drive. *)
LEMMA RemoteChangeTree == ASSUME TypeInv, TreeInv, RemoteChange PROVE TreeInv'
<1>1. UNCHANGED <<refresh, mode>> /\ Change(drive', FALSE)
  BY RemoteChangeIs
<1> QED BY <1>1, TreeChanged

-----------------------------------------------------------------------------
(* A load begins with nothing, and all folders to list. *)
LEMMA ResetTree == ASSUME TypeInv, TreeInv, Reset PROVE TreeInv'
<1>1. /\ refresh'.pc = "list" /\ refresh'.todo = <<Root>> /\ client' = [items |-> Nothing, contents |-> Nothing]
      /\ UNCHANGED <<drive, mode>>
  BY DEF Reset, Asleep
<1>2. client'.items = Nothing /\ client'.contents = Nothing /\ DOMAIN Nothing = {}
  BY <1>1 DEF Nothing
<1>3. Told(client'.items, drive) /\ HeldIn(client', drive)
  BY <1>2 DEF Told, HeldIn
<1>4. Reaches(client'.items, drive, refresh'.todo)
  <2>1. Range(refresh'.todo) = {Root}
    BY <1>1 DEF Range
  <2> QED BY <2>1, DriveKnown, BelowRoot DEF Reaches
<1> QED BY <1>1, <1>2, <1>3, <1>4 DEF TreeInv

(* It stays that of what is there, and what is left to list. *)
LEMMA ListFolderTree == ASSUME TypeInv, TreeInv, ListFolder PROVE TreeInv'
<1> DEFINE i == Head(refresh.todo)
<1>1. /\ refresh.pc = "list" /\ refresh.todo # << >> /\ UNCHANGED <<service, client, mode>>
      /\ \/ i \in DOMAIN client.contents /\ refresh' = [refresh EXCEPT !.todo = Descend(client.contents[i])]
         \/ refresh' = [refresh EXCEPT !.pc = "store", !.answer = Listing(drive, i)]
  BY DEF ListFolder
<1>2. refresh = [pc |-> refresh.pc, todo |-> refresh.todo, answer |-> refresh.answer, before |-> refresh.before]
  BY DEF TypeInv, RefreshIn
<1>3. drive' = drive /\ stale' = stale /\ client' = client /\ mode' = mode
  BY <1>1 DEF service
<1>4. refresh'.pc \in {"list", "store"}
  BY <1>1, <1>2
<1>5. Clean' => Clean
  BY <1>1, <1>3, <1>4 DEF Clean, Refreshes
<1>6. SUFFICES ASSUME Clean
      PROVE  /\ Told(client.items, drive) /\ HeldIn(client, drive)
             /\ \A f \in DOMAIN client.contents : DOMAIN client.contents[f] = KidsOf(drive, f)
             /\ mode = "eager" => Reaches(client.items, drive, refresh'.todo)
             /\ refresh'.pc = "store" => refresh'.answer = Listing(drive, Head(refresh'.todo))
  BY <1>3, <1>4, <1>5 DEF TreeInv
<1>7. /\ Told(client.items, drive) /\ HeldIn(client, drive)
      /\ \A f \in DOMAIN client.contents : DOMAIN client.contents[f] = KidsOf(drive, f)
      /\ mode = "eager" => Reaches(client.items, drive, refresh.todo)
  BY <1>1, <1>6 DEF TreeInv
<1>8. CASE i \in DOMAIN client.contents /\ refresh' = [refresh EXCEPT !.todo = Descend(client.contents[i])]
  <2>1. refresh'.pc = "list" /\ refresh'.todo = Descend(client.contents[i])
    BY <1>1, <1>2, <1>8
  <2>2. DOMAIN client.contents[i] = KidsOf(drive, i) /\ DOMAIN client.contents[i] \subseteq Ids
    BY <1>7, <1>8, DriveKnown DEF ClientIn
  <2>3. KidsOf(drive, i) \subseteq DOMAIN client.items
    BY <1>7, <1>8, <2>2 DEF HeldIn, KidsOf
  <2>4. mode = "eager" => Reaches(client.items, drive, Descend(client.contents[i]))
    BY <1>1, <1>7, <2>2, <2>3, ReachesNext
  <2> QED BY <1>7, <2>1, <2>4
<1>9. CASE refresh' = [refresh EXCEPT !.pc = "store", !.answer = Listing(drive, i)]
  <2>1. refresh'.pc = "store" /\ refresh'.todo = refresh.todo /\ refresh'.answer = Listing(drive, i)
    BY <1>2, <1>9
  <2> QED BY <1>7, <2>1
<1> QED BY <1>1, <1>8, <1>9

(* A listing stored by a load keeps the tree true to the drive. *)
LEMMA StoreFolderTree == ASSUME TypeInv, TreeInv, StoreFolder PROVE TreeInv'
<1> DEFINE i == Head(refresh.todo)
<1>1. /\ refresh.pc = "store" /\ client' = Stored(client, i, refresh.answer)
      /\ refresh' = [refresh EXCEPT !.pc = "list", !.answer = Nothing, !.todo = Descend(refresh.answer)]
      /\ UNCHANGED <<service, mode>>
  BY DEF StoreFolder
<1>2. /\ refresh = [pc |-> refresh.pc, todo |-> refresh.todo, answer |-> refresh.answer, before |-> refresh.before]
      /\ refresh.todo # << >> /\ TreeOK(refresh.answer) /\ DOMAIN refresh.answer \subseteq Known
      /\ DOMAIN refresh.answer \subseteq Ids
  BY <1>1 DEF TypeInv, RefreshIn, TreeIn, TreeOK
<1>3. drive' = drive /\ stale' = stale /\ mode' = mode /\ refresh'.pc = "list" /\ refresh'.todo = Descend(refresh.answer)
  BY <1>1, <1>2 DEF service
<1>4. /\ IsPut(client'.items, client.items, refresh.answer)
      /\ DOMAIN client'.contents = DOMAIN client.contents \cup {i} /\ client'.contents[i] = refresh.answer
      /\ \A g \in DOMAIN client.contents : g # i => client'.contents[g] = client.contents[g]
  <2>1. IsStored(client', client, i, refresh.answer)
    BY <1>1, <1>2, DriveKnown, StoredIs
  <2> QED BY <2>1 DEF IsStored
<1>5. DriveOK(drive)
  BY DriveKnown
<1>6. Clean' => Clean
  BY <1>1, <1>3 DEF Clean, Refreshes
<1>7. SUFFICES ASSUME Clean
      PROVE  /\ Told(client'.items, drive) /\ HeldIn(client', drive)
             /\ \A f \in DOMAIN client'.contents : DOMAIN client'.contents[f] = KidsOf(drive, f)
             /\ mode = "eager" => Reaches(client'.items, drive, Descend(refresh.answer))
  BY <1>3, <1>6 DEF TreeInv
<1>8. /\ Told(client.items, drive) /\ HeldIn(client, drive)
      /\ \A f \in DOMAIN client.contents : DOMAIN client.contents[f] = KidsOf(drive, f)
      /\ mode = "eager" => Reaches(client.items, drive, refresh.todo)
      /\ refresh.answer = Listing(drive, i)
  BY <1>1, <1>7 DEF TreeInv
<1> HIDE DEF i
<1>9. /\ DOMAIN refresh.answer = KidsOf(drive, i) /\ KidsOf(drive, i) \subseteq DOMAIN drive
      /\ \A j \in KidsOf(drive, i) : refresh.answer[j] = Element(drive, j)
  BY <1>5, <1>8, ListingOf
<1>10. DOMAIN client.items \subseteq DOMAIN client'.items /\ KidsOf(drive, i) \subseteq DOMAIN client'.items
  BY <1>4, <1>9 DEF IsPut
<1>11. Told(client'.items, drive)
  BY <1>4, <1>8, <1>9 DEF IsPut, Told
<1>12. HeldIn(client', drive)
  BY <1>4, <1>8, <1>9, <1>10 DEF HeldIn
<1>13. \A f \in DOMAIN client'.contents : DOMAIN client'.contents[f] = KidsOf(drive, f)
  BY <1>4, <1>8, <1>9
<1>14. mode = "eager" => Reaches(client'.items, drive, Descend(refresh.answer))
  BY <1>2, <1>8, <1>9, <1>10, ReachesNext DEF i
<1> QED BY <1>11, <1>12, <1>13, <1>14

(* When nothing is left to list, nothing is missing. *)
LEMMA SwapTree == ASSUME TypeInv, TreeInv, Swap PROVE TreeInv'
<1>1. /\ refresh.pc = "list" /\ refresh.todo = << >> /\ refresh'.pc = "paths"
      /\ drive' = drive /\ stale' = stale /\ mode' = mode /\ client' = client
  BY DEF Swap, Asleep, service
<1>2. Clean' => Clean
  BY <1>1 DEF Clean, Refreshes
<1>3. SUFFICES ASSUME Clean
      PROVE  /\ Told(client.items, drive) /\ HeldIn(client, drive)
             /\ mode = "eager" => DOMAIN drive \subseteq DOMAIN client.items
  BY <1>1, <1>2 DEF TreeInv
<1>4. /\ Told(client.items, drive) /\ HeldIn(client, drive)
      /\ mode = "eager" => Reaches(client.items, drive, refresh.todo)
  BY <1>1, <1>3 DEF TreeInv
<1>5. ASSUME mode = "eager" PROVE DOMAIN drive \subseteq DOMAIN client.items
  <2>1. Range(refresh.todo) = {}
    BY <1>1 DEF Range
  <2>2. \A f \in (DOMAIN drive \cap Folders) \cup {Root} : KidsOf(drive, f) \subseteq DOMAIN client.items
    BY <1>4, <1>5, <2>1, BelowNone DEF Reaches
  <2>3. \A j \in DOMAIN drive : drive[j].parent \in (DOMAIN drive \cap Folders) \cup {Root}
    BY DriveKnown, DriveIs
  <2> QED BY <2>2, <2>3 DEF KidsOf
<1> QED BY <1>4, <1>5

(* The noting of paths keeps the tree true to the drive. *)
LEMMA NotePathsTree == ASSUME TypeInv, TreeInv, NotePaths PROVE TreeInv'
<1>1. /\ refresh.pc = "paths" /\ UNCHANGED <<drive, client, mode>>
      /\ \/ /\ Readable(client.items) /\ refresh' = Asleep
            /\ stale' = [now |-> stale.overlap, raced |-> stale.overlap, overlap |-> FALSE]
         \/ refresh' = [Asleep EXCEPT !.pc = "dead"]
  BY DEF NotePaths
<1>2. CASE /\ Readable(client.items) /\ refresh' = Asleep
           /\ stale' = [now |-> stale.overlap, raced |-> stale.overlap, overlap |-> FALSE]
  <2>1. refresh'.pc = "idle" /\ stale'.now = stale.overlap
    BY <1>2 DEF Asleep
  <2>2. Clean' => Clean
    BY <1>1, <2>1 DEF Clean, Refreshes
  <2> QED BY <1>1, <1>2, <2>1, <2>2 DEF TreeInv
<1>3. CASE refresh' = [Asleep EXCEPT !.pc = "dead"]
  <2>1. refresh'.pc = "dead"
    BY <1>3 DEF Asleep
  <2> QED BY <2>1 DEF TreeInv, Clean, Refreshes
<1> QED BY <1>1, <1>2, <1>3

(* A failed query of a load keeps the tree true to the drive. *)
LEMMA QueryFailsTree == ASSUME TypeInv, TreeInv, QueryFails PROVE TreeInv'
<1>1. refresh'.pc = "lost"
  BY DEF QueryFails, Asleep
<1> QED BY <1>1 DEF TreeInv, Clean, Refreshes

(* The tree, as first loaded. *)
LEMMA TreeAtFirst == Init => TreeInv
<1> SUFFICES ASSUME Init PROVE TreeInv
  OBVIOUS
<1>1. /\ DriveOK(drive) /\ ClientIn(client, Known)
      /\ \A i \in DOMAIN client.items : i \in DOMAIN drive /\ Like(client.items[i], Element(drive, i))
      /\ \A f \in DOMAIN client.contents : client.contents[f] = Listing(drive, f) /\ KidsOf(drive, f) \subseteq DOMAIN client.items
      /\ mode = "eager" => DOMAIN client.contents = {Root} \cup (DOMAIN drive \cap Folders)
  BY LoadedAtFirst DEF ServiceOK
<1>2. refresh.pc = "idle"
  BY DEF Init, Asleep
<1>3. Told(client.items, drive)
  BY <1>1 DEF Told
<1>4. HeldIn(client, drive)
  BY <1>1, ListingOf DEF HeldIn
<1>5. Readable(client.items)
  <2>1. SUFFICES ASSUME NEW i \in DOMAIN client.items PROVE client.items[i].kind \in {"folder", "file"}
    BY DEF Readable, Unreadable
  <2>2. ElementOK(Element(drive, i)) /\ Element(drive, i).kind \in {"folder", "file"}
    BY <1>1, ElementOf
  <2> QED BY <1>1, <2>2, LikeIs
<1>6. mode = "eager" => DOMAIN drive \subseteq DOMAIN client.items
  <2>1. \A j \in DOMAIN drive : drive[j].parent \in (DOMAIN drive \cap Folders) \cup {Root}
    BY <1>1, DriveIs
  <2> QED BY <1>1, <2>1 DEF KidsOf
<1> QED BY <1>2, <1>3, <1>4, <1>5, <1>6 DEF TreeInv

(* The tree, by any step. *)
LEMMA TreeStep == TypeInv /\ TreeInv /\ [Next]_vars => TreeInv'
<1> SUFFICES ASSUME TypeInv, TreeInv, [Next]_vars PROVE TreeInv'
  OBVIOUS
<1>1. CASE UNCHANGED vars
  BY <1>1 DEF vars, TreeInv, Clean, Refreshes
<1>2. CASE Handler
  BY <1>2, LookupTree, ReaddirTree, GetattrTree, StartRenameTree, QuietTree, CallRemoveTree,
     CallRenameTree, CallMkdirTree, ItemsAssumption DEF Handler
<1>3. CASE RemoteChange
  BY <1>3, RemoteChangeTree
<1>4. CASE RefreshStep
  BY <1>4, ResetTree, ListFolderTree, StoreFolderTree, SwapTree, NotePathsTree DEF RefreshStep
<1>5. CASE QueryFails
  BY <1>5, QueryFailsTree
<1> QED BY <1>1, <1>2, <1>3, <1>4, <1>5 DEF Next

(* TreeInv is an invariant. *)
LEMMA TreeKept == Spec => [](TypeInv /\ TreeInv)
<1>1. Init => TreeInv
  BY TreeAtFirst
<1>2. TypeInv /\ TreeInv /\ [Next]_vars => TreeInv'
  BY TreeStep
<1> QED BY <1>1, <1>2, TypesKept, PTL DEF Spec

(* TreeIsDrive: between requests and loads the dictionary the handlers use  *)
(* has the drive's properties of each item, and in eager mode each item of  *)
(* the drive, unless something has made it stale that the source leaves to   *)
(* the next load.                                                            *)
THEOREM TreeStaysDrive == Spec => []TreeIsDrive
<1>1. ASSUME TypeInv, TreeInv, Steady, ~stale.now PROVE Current(client.items)
  <2>1. /\ Told(client.items, drive) /\ Readable(client.items)
        /\ mode = "eager" => DOMAIN drive \subseteq DOMAIN client.items
    <3>1. refresh.pc = "idle" /\ fuse.pc = "idle" /\ ~stale.now
      BY <1>1 DEF Steady, Idle
    <3>2. Clean
      BY <3>1 DEF Clean
    <3> QED BY <1>1, <3>1, <3>2 DEF TreeInv
  <2>2. DriveOK(drive) /\ TreeOK(client.items)
    BY <1>1, DriveKnown DEF ClientIn
  <2>3. ASSUME NEW i \in DOMAIN client.items
        PROVE  i \in DOMAIN drive /\ [client.items[i] EXCEPT !.place = 0] = Element(drive, i)
    <3>1. i \in DOMAIN drive /\ Like(client.items[i], Element(drive, i))
      BY <2>1, <2>2, ToldReadable
    <3>2. ElementOK(Element(drive, i)) /\ Element(drive, i).place = 0
      BY <2>2, <3>1, ElementOf
    <3>3. [client.items[i] EXCEPT !.place = 0] = [Element(drive, i) EXCEPT !.place = 0]
      BY <3>1, <3>2, LikeIs
    <3>4. [Element(drive, i) EXCEPT !.place = 0] = Element(drive, i)
      BY <3>2, ElementIs
    <3> QED BY <3>1, <3>3, <3>4
  <2>4. DOMAIN client.items \subseteq DOMAIN drive
    BY <2>3
  <2> QED BY <2>1, <2>3, <2>4 DEF Current
<1>2. TypeInv /\ TreeInv => TreeIsDrive
  BY <1>1 DEF TreeIsDrive
<1> QED BY <1>2, TreeKept, PTL

(* The load alone ends the noting of paths. *)
LEMMA PathsEnd ==
  ASSUME [Next]_vars, refresh.pc = "paths", refresh'.pc = "idle" PROVE NotePaths /\ refresh' = Asleep
<1>1. CASE refresh' = refresh
  BY <1>1
<1>2. CASE Reset \/ ListFolder \/ StoreFolder \/ Swap \/ QueryFails
  BY <1>2 DEF Reset, Due, ListFolder, StoreFolder, Swap, QueryFails
<1>3. CASE NotePaths
  BY <1>3 DEF NotePaths, Asleep
<1>4. CASE UNCHANGED vars \/ Handler \/ RemoteChange
  <2>1. refresh' = refresh
    BY <1>4 DEF vars, Handler, RemoteChange, Lookup, StartMkdir, Readdir, Getattr, Forget, StartRemove,
       StartRename, CallRemove, NoteRemove, CallRename, NoteRename, CallMkdir, NoteMkdir
  <2> QED BY <2>1
<1> QED BY <1>1, <1>2, <1>3, <1>4 DEF Next, RefreshStep

(* RefreshMends: _refresh_path leaves each element with the path it has on   *)
(* the drive and no other, whatever the map of inodes had before, if no      *)
(* change fell into the load.                                                *)
THEOREM RefreshMendsPaths == Spec => RefreshMends
<1>1. ASSUME TypeInv, TreeInv, [Next]_vars, refresh.pc = "paths", refresh'.pc = "idle", ~stale'.now,
             NEW i \in DOMAIN client'.items
      PROVE  \/ PathsOf(inodes', i) = {PathIn(drive, i)}
             \/ \E j \in DOMAIN drive \ {i} : PathIn(drive, j) = PathIn(drive, i)
  <2> DEFINE t == client.items
             f == First(t, t[i].path)
             firsts == { First(t, t[k].path) : k \in DOMAIN t }
             news == { k \in firsts : PathsOf(inodes, k) # {t[k].path} }
             g == [k \in news |-> {t[k].path}]
  <2>1. NotePaths /\ refresh' = Asleep
    BY <1>1, PathsEnd
  <2>2. /\ Readable(t) /\ inodes' = RefreshedPaths(inodes, t) /\ client' = client
        /\ stale' = [now |-> stale.overlap, raced |-> stale.overlap, overlap |-> FALSE]
    BY <2>1 DEF NotePaths, Asleep
  <2>3. Told(t, drive) /\ DriveOK(drive) /\ TreeOK(t) /\ Walkable(t)
    <3>1. ~stale.overlap
      BY <1>1, <2>2
    <3> QED BY <1>1, <2>2, <3>1, DriveKnown, ReadableWalkable DEF TreeInv, Clean, Refreshes, ClientIn
  <2>4. \A k \in DOMAIN t : k \in DOMAIN drive /\ t[k].path = PathIn(drive, k)
    <3>1. SUFFICES ASSUME NEW k \in DOMAIN t PROVE k \in DOMAIN drive /\ t[k].path = PathIn(drive, k)
      OBVIOUS
    <3>2. k \in DOMAIN drive /\ Like(t[k], Element(drive, k))
      BY <2>2, <2>3, ToldReadable
    <3>3. ElementOK(Element(drive, k)) /\ Element(drive, k).path = PathIn(drive, k)
      BY <2>3, <3>2, ElementOf
    <3> QED BY <3>2, <3>3, LikeIs
  <2>5. i \in DOMAIN t /\ f \in DOMAIN t /\ t[f].path = t[i].path
    <3>1. i \in DOMAIN t /\ t[i].kind # "empty"
      BY <1>1, <2>2, <2>3 DEF Walkable
    <3> QED BY <2>3, <3>1, FirstFound
  <2>6. CASE f # i
    BY <2>4, <2>5, <2>6
  <2>7. CASE f = i
    <3>1. i # Root
      BY <2>3, <2>5, ItemsAssumption DEF TreeOK
    <3>2. inodes'.paths = Over(g, inodes.paths) /\ DOMAIN g = news
      BY <2>2 DEF RefreshedPaths
    <3>3. i \in news => g[i] = {t[i].path}
      OBVIOUS
    <3>4. i \notin news => PathsOf(inodes, i) = {t[i].path}
      BY <2>5, <2>7
    <3> HIDE DEF g, news
    <3>5. CASE i \in news
      <4>1. i \in DOMAIN inodes'.paths /\ inodes'.paths[i] = {t[i].path}
        BY <3>2, <3>3, <3>5 DEF Over
      <4> QED BY <2>4, <2>5, <3>1, <4>1 DEF PathsOf
    <3>6. CASE i \notin news
      <4>1. i \in DOMAIN inodes.paths /\ inodes.paths[i] = {t[i].path}
        BY <3>1, <3>4, <3>6 DEF PathsOf
      <4>2. i \in DOMAIN inodes'.paths /\ inodes'.paths[i] = {t[i].path}
        BY <3>2, <3>6, <4>1 DEF Over
      <4> QED BY <2>4, <2>5, <3>1, <4>2 DEF PathsOf
    <3> QED BY <3>5, <3>6
  <2> QED BY <2>6, <2>7
<1>2. TypeInv /\ TreeInv /\ [Next]_vars =>
        (refresh.pc = "paths" /\ refresh'.pc = "idle" /\ ~stale'.now =>
           \A i \in DOMAIN client'.items :
             \/ PathsOf(inodes', i) = {PathIn(drive, i)}
             \/ \E j \in DOMAIN drive \ {i} : PathIn(drive, j) = PathIn(drive, i))
  BY <1>1
<1> QED BY <1>2, TreeKept, PTL DEF Spec, RefreshMends

=============================================================================
