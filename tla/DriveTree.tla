------------------------------ MODULE DriveTree ------------------------------
(***************************************************************************)
(* The tree of the drive: the handlers of src/fuse_degoo.py that look      *)
(* items up and change them, the thread that loads the tree again, and the *)
(* dictionaries of the client (src/degoo/__init__.py) that both work on.   *)
(*                                                                         *)
(* An item has a number.  The kernel uses it as inode, the client as key   *)
(* of __CACHE_ITEMS__; the service keeps the items on the drive.  Handlers *)
(* do not interleave with each other.  The refresh thread interleaves with *)
(* the steps of a handler: what it looks up, the calls it makes to the     *)
(* client, and what it notes afterwards.                                   *)
(***************************************************************************)
EXTENDS Integers, SequencesExt

CONSTANTS
  Ids,          \* the numbers of items
  Root,         \* the root of the drive, and of the mount (--degoo-path /)
  NoItem,       \* not an item
  Folders,      \* the items that are folders
  Devices,      \* the folders in the root: nobody makes or removes them
  Names,        \* names of items
  Given,        \* the names that programs and other clients give to items
  NoName,       \* not a name
  Starts,       \* --mode, what is on the drive at first, and the BOUNDs: `own`
                \* requests to change it, `remote` changes by others, and
                \* `failures` of queries of the refresh thread
  Refreshing,   \* FALSE with --disable-refresh
  MaxLookups    \* BOUND: how often the kernel looks an item up

(* A drive: folders in the root, and items in folders.  However one goes up, *)
(* one comes to the root: of any items one has its folder not among them.    *)
DriveOK(d) ==
  /\ DOMAIN d \subseteq Ids
  /\ d \in [DOMAIN d -> [parent : (DOMAIN d \cap Folders) \cup {Root}, name : Names]]
  /\ \A S \in SUBSET DOMAIN d : S # {} => \E j \in S : d[j].parent \notin S

ASSUME ItemsAssumption ==
  /\ Ids \subseteq Nat /\ IsFiniteSet(Ids)
  /\ Root \notin Ids /\ NoItem \notin Ids /\ Root # NoItem
  /\ Devices \subseteq Folders /\ Folders \subseteq Ids
  /\ Given \subseteq Names /\ NoName \notin Names
  /\ \A s \in Starts :
       /\ s.mode \in {"lazy", "eager"} /\ {s.own, s.remote, s.failures} \subseteq Nat
       /\ DriveOK(s.drive) /\ Devices \subseteq DOMAIN s.drive
ASSUME OptionsAssumption ==
  /\ Refreshing \in BOOLEAN
  /\ MaxLookups \in Nat

VARIABLES
  drive,    \* what the service has: [id -> [parent, name]]
  unused,   \* numbers the service has not given yet
  client,   \* __CACHE_ITEMS__ and __CACHE_CONTENTS__
  oldTree,  \* degoo_tree_content while it is not __CACHE_ITEMS__
  inodes,   \* _inode_path_map and _lookup_cnt
  kernel,   \* the items the kernel knows: times looked up, and its name
  refresh,  \* the refresh thread
  fuse,     \* the FUSE thread, and the request it handles
  mode,     \* --mode
  left,     \* the requests, the changes by others and the failures to come
  stale     \* history: may the tree differ from the drive?

vars == <<drive, unused, client, oldTree, inodes, kernel, refresh, fuse, mode,
          left, stale>>

service == <<drive, unused, stale>>

Nothing == << >>

Without(f, S) == Restrict(f, DOMAIN f \ S)

(* A dictionary with one key. *)
Only(k, v) == [x \in {k} |-> v]

(* The dictionary g, brought up to date with f. *)
Over(f, g) == [x \in DOMAIN f \cup DOMAIN g |-> IF x \in DOMAIN f THEN f[x] ELSE g[x]]

-----------------------------------------------------------------------------
(***************************************************************************)
(* The drive, and the dictionaries with the properties of its items.       *)
(***************************************************************************)
(* FilePath: the names from the device on. *)
PathIn(d, i) ==
  LET path[j \in DOMAIN d \cup {Root}] ==
        IF j = Root THEN << >> ELSE Append(path[d[j].parent], d[j].name)
  IN path[i]

(* The properties the service tells of an item.  `place` is its place in the *)
(* order of the dictionary of items, once it is there.                        *)
Element(d, i) ==
  [parent |-> d[i].parent, name |-> d[i].name, path |-> PathIn(d, i),
   kind |-> IF i \in Folders THEN "folder" ELSE "file", place |-> 0]

(* The children of an item, on a drive or in a dictionary of elements. *)
KidsOf(t, i) == { j \in DOMAIN t : t[j].parent = i }

Named(t, n) == { i \in DOMAIN t : t[i].name = n }

(* Root has the empty path. *)
AtPath(t, p) ==
  IF p = << >> THEN {Root} ELSE { i \in DOMAIN t : t[i].path = p }

(* The one of the elements S that comes first, or last, in the dictionary. *)
FirstOf(t, S) == CHOOSE i \in S : i = Root \/ \A j \in S : t[i].place <= t[j].place

LastOf(t, S) == CHOOSE i \in S : i = Root \/ \A j \in S : t[j].place <= t[i].place

NameFree(d, i, n) == KidsOf(d, i) \cap Named(d, n) = {}

(* An item and all that is below it: what is in every set that has the item *)
(* and the children of its members.                                          *)
Subtree(d, i) ==
  { j \in DOMAIN d :
      \A S \in SUBSET DOMAIN d : i \in S /\ (\A k \in DOMAIN d : d[k].parent \in S => k \in S)
                                   => j \in S }

(* getFileChildren5: a folder that is not there has no children. *)
Listing(d, i) == [j \in KidsOf(d, i) |-> Element(d, j)]

(* getOverlay4 does not set isFolder, and gives an empty dictionary for an *)
(* item that is gone.                                                      *)
Overlay(d, i) ==
  IF i \in DOMAIN d THEN [Element(d, i) EXCEPT !.kind = "unset"]
  ELSE [parent |-> NoItem, name |-> NoName, path |-> << >>, kind |-> "empty", place |-> 0]

(***************************************************************************)
(* The client's look-ups fill its two dictionaries.                        *)
(***************************************************************************)
(* A key keeps its place in a dictionary; a new one comes last.  The service *)
(* lists items in the order of their numbers.                                 *)
Put(t, news) ==
  LET last == IF DOMAIN t = {} THEN 0 ELSE Max({ t[i].place : i \in DOMAIN t })
      place(i) == IF i \in DOMAIN t THEN t[i].place
                  ELSE last + Cardinality({ j \in DOMAIN news \ DOMAIN t : j <= i })
  IN Over([i \in DOMAIN news |-> [news[i] EXCEPT !.place = place(i)]], t)

Stored(c, i, kids) ==
  [items |-> Put(c.items, kids), contents |-> Over(Only(i, kids), c.contents)]

(* device_names lists the root. *)
WithDevices(c, d) ==
  IF Root \in DOMAIN c.contents THEN c ELSE Stored(c, Root, Listing(d, Root))

(* get_children *)
WithChildren(c, i, d) ==
  IF i \in DOMAIN c.contents THEN c
  ELSE Stored(IF KidsOf(d, i) = {} THEN c ELSE WithDevices(c, d), i, Listing(d, i))

(* props, in get_item *)
WithItem(c, i, d) ==
  IF i \in DOMAIN c.items \cup {Root} THEN c
  ELSE [WithDevices(c, d) EXCEPT !.items = Put(@, Only(i, Overlay(d, i)))]

(* MUTANT: the caller has to bring it into the dictionary. *)
NotUpdated(c, i, d) == c

(* update_item *)
Updated(c, i, d) ==
  [WithDevices(c, d) EXCEPT !.items = Put(@, Only(i, Element(d, i)))]

(* One step of get_item from a folder to what has a name in it; `id` is the *)
(* item found so far, or NoItem.                                             *)
Down(s, n, d) ==
  IF s.id = NoItem THEN s
  ELSE LET c    == WithChildren(s.client, s.id, d)
           hits == Named(c.contents[s.id], n)
       IN [id |-> IF hits = {} THEN NoItem ELSE Max(hits), client |-> c]

Walk(c, p, d) ==
  LET walk[k \in 0..Len(p)] ==
        IF k = 0 THEN [id |-> Root, client |-> c] ELSE Down(walk[k - 1], p[k], d)
  IN walk[Len(p)]

(* get_item of a path: the last of the cached items that have it, or a walk  *)
(* from the root.  The item found, or NoItem, and the dictionaries after that. *)
ItemAt(c, p, d) ==
  LET found == AtPath(c.items, p)
      walk  == Walk(c, p, d)
  IN IF found # {} THEN [id |-> LastOf(c.items, found), client |-> c]
     ELSE IF walk.id = NoItem THEN walk
     ELSE [walk EXCEPT !.client = WithItem(@, walk.id, d)]

-----------------------------------------------------------------------------
(***************************************************************************)
(* The tree the handlers use.  It is the client's dictionary, except while *)
(* the refresh thread fills a new one, and for ever if it dies at that.    *)
(***************************************************************************)
Loading == refresh.pc \in {"list", "store", "lost"}

Tree == IF Loading THEN oldTree ELSE client.items

(* _get_degoo_id: the first element with a path.  Two elements have one path *)
(* when a folder was renamed, since the paths below it stay as they were, and *)
(* its name is used again.                                                     *)
First(t, p) == IF AtPath(t, p) = {} THEN NoItem ELSE FirstOf(t, AtPath(t, p))

(* _get_degoo_attrs reads isFolder of every element but the root. *)
Unreadable(t, i) == i # Root /\ t[i].kind \in {"unset", "empty"}

(* _get_degoo_childs reads ParentID of every element. *)
Walkable(t) == \A i \in DOMAIN t : t[i].kind # "empty"

Readable(t) == \A i \in DOMAIN t : ~Unreadable(t, i)

(***************************************************************************)
(* The map of inodes.  An inode has several paths only after elements were *)
(* confused.                                                               *)
(***************************************************************************)
PathsOf(m, i) ==
  IF i = Root THEN {<< >>} ELSE IF i \in DOMAIN m.paths THEN m.paths[i] ELSE {}

Counted(m, S) == [i \in Ids |-> IF i \in S THEN m.count[i] + 1 ELSE m.count[i]]

(* _add_path, of each inode in the domain of `news` with a path *)
AddPaths(m, news) ==
  [paths |-> Over([i \in DOMAIN news |-> PathsOf(m, i) \cup {news[i]}], m.paths),
   count |-> Counted(m, DOMAIN news)]

(* MUTANT: a path that is there stays. *)
MissingPaths(m, t) ==
  LET news == { i \in DOMAIN t : PathsOf(m, i) = {} }
  IN [paths |-> Over([i \in news |-> {t[i].path}], m.paths), count |-> Counted(m, news)]

(* _refresh_path: what is new or has another path is set to its path. *)
RefreshedPaths(m, t) ==
  LET firsts == { First(t, t[i].path) : i \in DOMAIN t }
      news   == { i \in firsts : PathsOf(m, i) # {t[i].path} }
  IN [paths |-> Over([i \in news |-> {t[i].path}], m.paths), count |-> Counted(m, news)]

-----------------------------------------------------------------------------
(***************************************************************************)
(* The request being handled.  "call": the item has been looked up, the    *)
(* client is called next.  "note": the call has returned, the handler has  *)
(* to note its result.  "dead": an exception has ended the main loop.      *)
(***************************************************************************)
NoRequest == [pc |-> "idle", op |-> "none", id |-> NoItem, parent |-> NoItem,
              name |-> NoName, newParent |-> NoItem, newName |-> NoName,
              path |-> << >>, newPath |-> << >>]

Idle == fuse.pc = "idle"

Die == fuse' = [NoRequest EXCEPT !.pc = "dead"]

Reply == fuse' = NoRequest

(* Folders the kernel may ask about. *)
KnownFolders == (DOMAIN kernel \cap Folders) \cup {Root}

(* The kernel gets each inode in the domain of `names` under a name in p. *)
Learn(p, names) ==
  LET times(i) == IF i \in DOMAIN kernel THEN kernel[i].n ELSE 0
  IN /\ \A i \in DOMAIN names : times(i) < MaxLookups
     /\ kernel' = Over([i \in DOMAIN names |->
                          [n |-> times(i) + 1, parent |-> p, name |-> names[i]]], kernel)

(* What the kernel knew as n in p has the name n2 in p2 now. *)
Renamed(p, n, p2, n2) ==
  kernel' = [i \in DOMAIN kernel |->
               IF kernel[i].parent = p /\ kernel[i].name = n
               THEN [kernel[i] EXCEPT !.parent = p2, !.name = n2] ELSE kernel[i]]

Unnamed(p, n) == Renamed(p, n, NoItem, NoName)

(* The entries of a folder: each child, with the inode its path leads to. *)
Entries(t, S) ==
  [i \in { First(t, t[j].path) : j \in S } |->
     t[CHOOSE j \in S : First(t, t[j].path) = i].name]

-----------------------------------------------------------------------------
(***************************************************************************)
(* Handlers that change nothing on the drive.                              *)
(***************************************************************************)
Lookup(p, n) ==
  LET hits  == KidsOf(Tree, p) \cap Named(Tree, n)
      found == First(Tree, Tree[FirstOf(Tree, hits)].path)
  IN /\ Idle /\ p \in KnownFolders
     /\ \/ Walkable(Tree) /\ hits = {} /\ Unnamed(p, n) /\ UNCHANGED fuse
        \/ Walkable(Tree) /\ hits # {} /\ ~Unreadable(Tree, found)
           /\ Learn(p, Only(found, n)) /\ UNCHANGED fuse
        \/ (Walkable(Tree) => hits # {} /\ Unreadable(Tree, found)) /\ Die /\ UNCHANGED kernel
     /\ UNCHANGED <<service, client, oldTree, inodes, refresh, mode, left>>

(* getattr and setattr of an element that has no isFolder; otherwise they *)
(* change nothing.                                                        *)
Getattr(i) ==
  /\ Idle /\ i \in DOMAIN kernel
  /\ \E p \in PathsOf(inodes, i) :
       IF First(Tree, p) = NoItem THEN ~Walkable(Tree) ELSE Unreadable(Tree, First(Tree, p))
  /\ Die
  /\ UNCHANGED <<service, client, oldTree, inodes, kernel, refresh, mode, left>>

(***************************************************************************)
(* In lazy mode a folder without children is loaded by degoo.tree, and the *)
(* paths of all elements are refreshed.                                    *)
(***************************************************************************)
LoadFolder(i) ==
  client' = IF mode = "lazy" /\ KidsOf(Tree, i) = {} /\ i # Root
            THEN WithChildren(WithItem(client, i, drive), i, drive) ELSE client

NewTree == IF Loading THEN oldTree ELSE client'.items

Readdir(f) ==
  /\ Idle /\ f \in KnownFolders
  /\ LoadFolder(f)
  /\ \E p \in PathsOf(inodes, f) :
       LET m    == IF client' = client THEN inodes ELSE RefreshedPaths(inodes, NewTree)
           ents == Entries(NewTree, KidsOf(NewTree, First(Tree, p)))
       IN IF Readable(NewTree)
          THEN /\ inodes' = AddPaths(m, [i \in DOMAIN ents |-> NewTree[i].path])
               /\ Learn(f, ents)
               /\ UNCHANGED fuse
          ELSE Die /\ UNCHANGED <<inodes, kernel>>
  /\ UNCHANGED <<service, oldTree, refresh, mode, left>>

(* MUTANT: the path goes with the first forget. *)
ForgetPath(m, i, n) ==
  [paths |-> Without(m.paths, {i}), count |-> [m.count EXCEPT ![i] = IF @ > n THEN @ - n ELSE 0]]

(* forget, of an inode *)
Forgotten(m, i, n) ==
  IF m.count[i] > n THEN [m EXCEPT !.count[i] = @ - n]
  ELSE [paths |-> Without(m.paths, {i}), count |-> [m.count EXCEPT ![i] = 0]]

(* The kernel forgets an inode, with all its look-ups at once.  The handler's *)
(* count may be higher (refresh) or lower (lookup does not count).            *)
Forget(i) ==
  /\ Idle /\ i \in DOMAIN kernel
  /\ \A j \in DOMAIN kernel : kernel[j].parent # i
  /\ kernel' = Without(kernel, {i})
  /\ inodes' = Forgotten(inodes, i, kernel[i].n)
  /\ UNCHANGED <<service, client, oldTree, refresh, fuse, mode, left>>

-----------------------------------------------------------------------------
(***************************************************************************)
(* Changes of the drive.  `clean` says that the client's dictionary is all *)
(* right afterwards.                                                       *)
(***************************************************************************)
Refreshes == refresh.pc \in {"list", "store", "paths"}

Requested == left.own > 0 /\ left' = [left EXCEPT !.own = @ - 1]

Change(d, clean) ==
  /\ drive' = d
  /\ stale' = [stale EXCEPT !.now = @ \/ ~clean \/ Refreshes,
                               !.raced = @ \/ Refreshes, !.overlap = @ \/ Refreshes]

(* The dictionary has nothing that is below an item. *)
NothingBelow(c, id) == Subtree(drive, id) \cap DOMAIN c.items \subseteq {id}

(* unlink and rmdir are the same.  "//name", the path of what is in the root, *)
(* is the path of nothing, and degoo.rm(None) raises.                         *)
StartRemove(i) ==
  LET p == kernel[i].parent
      n == kernel[i].name
  IN /\ Idle /\ i \in DOMAIN kernel /\ p # NoItem /\ Requested
     /\ \E q \in PathsOf(inodes, p) :
          LET id == First(Tree, Append(q, n))
          IN IF p = Root \/ id = NoItem THEN Die
             ELSE fuse' = [NoRequest EXCEPT !.pc = "call", !.op = "remove", !.id = id,
                             !.parent = p, !.name = n, !.path = Append(q, n)]
     /\ UNCHANGED <<service, client, oldTree, inodes, kernel, refresh, mode>>

(* degoo.rm.  An item that is gone already is still in the bin, or it has no *)
(* FilePath, and rm raises.                                                   *)
CallRemove ==
  /\ fuse.pc = "call" /\ fuse.op = "remove"
  /\ \/ /\ fuse.id \in DOMAIN drive
        /\ Change(Without(drive, Subtree(drive, fuse.id)), NothingBelow(client, fuse.id))
        /\ client' = [client EXCEPT !.items = Without(@, {fuse.id})]
        /\ fuse' = [fuse EXCEPT !.pc = "note"]
        /\ UNCHANGED unused
     \/ /\ fuse.id \notin DOMAIN drive
        /\ \/ client' = [client EXCEPT !.items = Without(@, {fuse.id})] /\ fuse' = [fuse EXCEPT !.pc = "note"]
           \/ Die /\ UNCHANGED client
        /\ UNCHANGED service
  /\ UNCHANGED <<oldTree, inodes, kernel, refresh, mode, left>>

(* MUTANT: the last path is taken out like any other. *)
MinusOnePath(m, i, p) == [m EXCEPT !.paths[i] = IF @ = {p} THEN {} ELSE @ \ {p}]

(* _forget_path *)
MinusPath(m, i, p) ==
  IF Cardinality(m.paths[i]) > 1 THEN [m EXCEPT !.paths[i] = @ \ {p}]
  ELSE [m EXCEPT !.paths = Without(@, {i})]

NoteRemove ==
  LET paths == PathsOf(inodes, fuse.id)
  IN /\ fuse.pc = "note" /\ fuse.op = "remove"
     /\ IF inodes.count[fuse.id] = 0 THEN Reply /\ UNCHANGED inodes
        ELSE IF paths = {} \/ (Cardinality(paths) > 1 /\ fuse.path \notin paths)
        THEN Die /\ UNCHANGED inodes
        ELSE /\ Reply
             /\ inodes' = MinusPath(inodes, fuse.id, fuse.path)
     /\ Unnamed(fuse.parent, fuse.name)
     /\ UNCHANGED <<service, client, oldTree, refresh, mode, left>>

(* A rename, a move, or both.  The names that programs rename to are free, *)
(* and the root is left alone.                                              *)
StartRename(i, p2, n2) ==
  LET p == kernel[i].parent
      n == kernel[i].name
  IN /\ Idle /\ i \in DOMAIN kernel /\ p \notin {NoItem, Root} /\ Requested
     /\ p2 \in KnownFolders \ {Root} /\ <<p2, n2>> # <<p, n>>
     /\ NameFree(drive, p2, n2)
     /\ i \in DOMAIN drive => p2 \notin Subtree(drive, i)
     /\ LoadFolder(p2)
     /\ \E q \in PathsOf(inodes, p) :
          IF ~Readable(NewTree) THEN Die /\ UNCHANGED inodes
          ELSE /\ inodes' = IF client' = client THEN inodes
                            ELSE RefreshedPaths(inodes, NewTree)
               /\ fuse' = [NoRequest EXCEPT !.pc = "call", !.op = "rename",
                             !.id = First(Tree, Append(q, n)), !.parent = p,
                             !.name = n, !.newParent = p2, !.newName = n2, !.path = q]
     /\ UNCHANGED <<service, oldTree, kernel, refresh, mode>>

(* Where a rename leads: the same folder, or the item the client finds at the *)
(* path of the other folder.                                                   *)
Targets(r) ==
  IF fuse.parent = fuse.newParent
  THEN {[id |-> drive[r.id].parent, client |-> r.client, path |-> fuse.path]}
  ELSE { LET to == ItemAt(r.client, q, drive)
         IN [id |-> to.id, client |-> to.client, path |-> q] :
           q \in PathsOf(inodes, fuse.newParent) }

ItemMoves(id, c, p, n) ==
  LET d == [drive EXCEPT ![id] = [parent |-> p, name |-> n]]
  IN /\ Change(d, NothingBelow(c, id))
     /\ client' = Updated(c, id, d)
     /\ UNCHANGED unused

(* rename and mv of the client, with update_item after each.  Without a path *)
(* of the new folder the item is renamed, but not moved.  The refresh thread  *)
(* may add to the dictionary that get_item iterates over.                     *)
CallRename ==
  /\ fuse.pc = "call" /\ fuse.op = "rename"
  /\ \/ \E r \in {ItemAt(client, Append(fuse.path, fuse.name), drive)} :
          \/ r.id \notin DOMAIN drive /\ Die /\ UNCHANGED <<service, client>>
          \/ /\ r.id \in DOMAIN drive
             /\ \E to \in Targets(r) :
                  IF to.id \in (DOMAIN drive \cap Folders) \ Subtree(drive, r.id)
                  THEN /\ ItemMoves(r.id, to.client, to.id, fuse.newName)
                       /\ fuse' = [fuse EXCEPT !.pc = "note",
                                     !.newPath = Append(to.path, fuse.newName)]
                  ELSE Die /\ UNCHANGED <<service, client>>
          \/ /\ r.id \in DOMAIN drive /\ Targets(r) = {}
             /\ IF fuse.name = fuse.newName THEN UNCHANGED <<service, client>>
                ELSE ItemMoves(r.id, r.client, drive[r.id].parent, fuse.newName)
             /\ Reply
     \/ refresh.pc = "store" /\ Die /\ UNCHANGED <<service, client>>
  /\ UNCHANGED <<oldTree, inodes, kernel, refresh, mode, left>>

(* The path that is taken out of a set of paths has the new name if there is *)
(* a new folder too.                                                          *)
NoteRename ==
  LET paths   == PathsOf(inodes, fuse.id)
      pathOld == Append(fuse.path, IF fuse.parent = fuse.newParent THEN fuse.name ELSE fuse.newName)
  IN /\ fuse.pc = "note" /\ fuse.op = "rename"
     /\ IF fuse.id \notin DOMAIN inodes.paths
             \/ (Cardinality(paths) > 1 /\ pathOld \notin paths \cup {fuse.newPath})
        THEN Die /\ UNCHANGED inodes
        ELSE /\ Reply
             /\ inodes' = [inodes EXCEPT !.paths[fuse.id] =
                             IF Cardinality(paths) > 1
                             THEN (paths \cup {fuse.newPath}) \ {pathOld} ELSE {fuse.newPath}]
     /\ Renamed(fuse.parent, fuse.name, fuse.newParent, fuse.newName)
     /\ UNCHANGED <<service, client, oldTree, refresh, mode, left>>

(* The parent is looked up by its bare name; in the root this gives number 0, *)
(* and degoo.mkdir raises.  The kernel has looked the name up in vain.         *)
StartMkdir(p, n) ==
  /\ Idle /\ p \in KnownFolders /\ Requested
  /\ NameFree(Tree, p, n)
  /\ IF p = Root THEN Die
     ELSE \E q \in PathsOf(inodes, p) :
            LET bases == IF Cardinality(PathsOf(inodes, p)) = 1 THEN Named(Tree, Last(q))
                         ELSE AtPath(Tree, q)
            IN IF bases = {} THEN Die
               ELSE fuse' = [NoRequest EXCEPT !.pc = "call", !.op = "mkdir",
                               !.id = FirstOf(Tree, bases), !.parent = p, !.name = n]
  /\ UNCHANGED <<service, client, oldTree, inodes, kernel, refresh, mode>>

(* degoo.mkdir looks for the name in the cached contents of the folder.  If  *)
(* it is not there the service is asked for a new folder, and the folder is   *)
(* listed, to find the number.                                                *)
CallMkdir ==
  LET c    == WithChildren(client, fuse.id, drive)
      hits == Named(c.contents[fuse.id], fuse.name)
      d(i) == Over(Only(i, [parent |-> fuse.id, name |-> fuse.name]), drive)
  IN /\ fuse.pc = "call" /\ fuse.op = "mkdir"
     /\ \/ /\ hits # {}
           /\ fuse' = [fuse EXCEPT !.pc = "note", !.id = Max(hits)]
           /\ client' = c
           /\ UNCHANGED service
        \/ /\ hits = {} /\ fuse.id \in DOMAIN drive \cap Folders
           /\ IF NameFree(drive, fuse.id, fuse.name)
              THEN \E i \in unused \cap Folders :
                     /\ Change(d(i), TRUE) /\ unused' = unused \ {i}
                     /\ client' = Updated(c, i, d(i))
                     /\ fuse' = [fuse EXCEPT !.pc = "note", !.id = i]
              ELSE \E i \in KidsOf(drive, fuse.id) \cap Named(drive, fuse.name) :
                     /\ client' = Updated(c, i, drive)
                     /\ fuse' = [fuse EXCEPT !.pc = "note", !.id = i]
                     /\ UNCHANGED service
        \/ /\ hits = {} /\ fuse.id \notin DOMAIN drive \cap Folders
           /\ Die
           /\ UNCHANGED <<service, client>>
     /\ UNCHANGED <<oldTree, inodes, kernel, refresh, mode, left>>

(* The new folder is looked up in the tree by its number, its attributes by  *)
(* its bare name: they may be those of another item.                          *)
NoteMkdir ==
  /\ fuse.pc = "note" /\ fuse.op = "mkdir"
  /\ IF fuse.id \notin DOMAIN Tree THEN Die /\ UNCHANGED <<inodes, kernel>>
     ELSE LET i == FirstOf(Tree, Named(Tree, Tree[fuse.id].name))
          IN IF Unreadable(Tree, i) THEN Die /\ UNCHANGED <<inodes, kernel>>
            ELSE /\ inodes' = AddPaths(inodes, Only(i, Tree[fuse.id].path))
                 /\ Learn(fuse.parent, Only(i, fuse.name))
                 /\ Reply
  /\ UNCHANGED <<service, client, oldTree, refresh, mode, left>>

(* Another client, or the web interface. *)
RemoteChange ==
  /\ left.remote > 0 /\ left' = [left EXCEPT !.remote = @ - 1]
  /\ \/ \E i \in DOMAIN drive \ Devices :
          Change(Without(drive, Subtree(drive, i)), FALSE) /\ UNCHANGED unused
     \/ \E i \in DOMAIN drive \ Devices, n \in Given :
          /\ NameFree(drive, drive[i].parent, n)
          /\ Change([drive EXCEPT ![i].name = n], FALSE) /\ UNCHANGED unused
     \/ \E i \in unused, p \in DOMAIN drive \cap Folders, n \in Given :
          /\ NameFree(drive, p, n)
          /\ Change(Over(Only(i, [parent |-> p, name |-> n]), drive), FALSE)
          /\ unused' = unused \ {i}
  /\ UNCHANGED <<client, oldTree, inodes, kernel, refresh, fuse, mode>>

-----------------------------------------------------------------------------
(***************************************************************************)
(* The refresh thread: refresh_degoo_content and load_degoo_content.       *)
(* "lost": it died before it put the new dictionary in place; "dead": after *)
(* that.  threadLock is held for ever then, and nobody else wants it.       *)
(***************************************************************************)
Asleep == [pc |-> "idle", todo |-> << >>, answer |-> Nothing, before |-> {}]

(* MUTANT: not while the kernel holds inodes. *)
DueUnused == Refreshing /\ refresh.pc = "idle" /\ kernel = Nothing

(* refresh_degoo_content: once per interval. *)
Due == Refreshing /\ refresh.pc = "idle"

(* tree_cache empties both dictionaries. *)
Reset ==
  /\ Due
  /\ refresh' = [Asleep EXCEPT !.pc = "list", !.todo = <<Root>>]
  /\ oldTree' = client.items
  /\ client' = [items |-> Nothing, contents |-> Nothing]
  /\ stale' = [stale EXCEPT !.overlap = FALSE]
  /\ UNCHANGED <<drive, unused, inodes, kernel, fuse, mode, left>>

(* Items in the order of their numbers. *)
InOrder(S) ==
  CHOOSE s \in [1..Cardinality(S) -> S] :
    Range(s) = S /\ \A j, k \in DOMAIN s : j < k => s[j] < s[k]

(* What is left to list when the first folder has been: in eager mode, tree *)
(* goes down into each folder in it before it goes on.                       *)
Descend(kids) ==
  (IF mode = "eager" THEN InOrder(DOMAIN kids \cap Folders) ELSE << >>) \o Tail(refresh.todo)

(* get_children asks the service, unless a handler has cached the folder. *)
ListFolder ==
  LET i == Head(refresh.todo)
  IN /\ refresh.pc = "list" /\ refresh.todo # << >>
     /\ refresh' = IF i \in DOMAIN client.contents
                   THEN [refresh EXCEPT !.todo = Descend(client.contents[i])]
                   ELSE [refresh EXCEPT !.pc = "store", !.answer = Listing(drive, i)]
     /\ UNCHANGED <<service, client, oldTree, inodes, kernel, fuse, mode, left>>

StoreFolder ==
  /\ refresh.pc = "store"
  /\ client' = Stored(client, Head(refresh.todo), refresh.answer)
  /\ refresh' = [refresh EXCEPT !.pc = "list", !.answer = Nothing, !.todo = Descend(refresh.answer)]
  /\ UNCHANGED <<service, oldTree, inodes, kernel, fuse, mode, left>>

QueryFails ==
  /\ left.failures > 0 /\ left' = [left EXCEPT !.failures = @ - 1]
  /\ refresh.pc = "list"
  /\ refresh' = [Asleep EXCEPT !.pc = "lost"]
  /\ UNCHANGED <<service, client, oldTree, inodes, kernel, fuse, mode>>

(* degoo_tree_content = tree_cache(...), and _refresh_path begins. *)
Swap ==
  /\ refresh.pc = "list" /\ refresh.todo = << >>
  /\ refresh' = [Asleep EXCEPT !.pc = "paths", !.before = DOMAIN client.items]
  /\ oldTree' = Nothing
  /\ UNCHANGED <<service, client, inodes, kernel, fuse, mode, left>>

(* _refresh_path ends: it has gone over all elements, or over one that has no *)
(* isFolder, or the dictionary has another size than at the beginning.         *)
NotePaths ==
  /\ refresh.pc = "paths"
  /\ \/ /\ Readable(client.items)
        /\ inodes' = RefreshedPaths(inodes, client.items)
        /\ refresh' = Asleep
        /\ stale' = [now |-> stale.overlap, raced |-> stale.overlap, overlap |-> FALSE]
     \/ /\ ~Readable(client.items) \/ Cardinality(DOMAIN client.items) # Cardinality(refresh.before)
        /\ refresh' = [Asleep EXCEPT !.pc = "dead"]
        /\ UNCHANGED <<inodes, stale>>
  /\ UNCHANGED <<drive, unused, client, oldTree, kernel, fuse, mode, left>>

RefreshStep ==
  Reset \/ ListFolder \/ StoreFolder \/ Swap \/ NotePaths

-----------------------------------------------------------------------------
(* main loads the tree before it mounts the drive, as Reset .. NotePaths do. *)
Init ==
  /\ \E s \in Starts :
       /\ drive = s.drive /\ mode = s.mode
       /\ left = [own |-> s.own, remote |-> s.remote, failures |-> s.failures]
  /\ unused = Ids \ DOMAIN drive
  /\ client = LET listed == {Root} \cup IF mode = "eager" THEN DOMAIN drive \cap Folders ELSE {}
              IN [items    |-> Put(Nothing, [i \in UNION { KidsOf(drive, f) : f \in listed } |-> Element(drive, i)]),
                  contents |-> [f \in listed |-> Listing(drive, f)]]
  /\ oldTree = Nothing
  /\ inodes = [paths |-> [i \in DOMAIN client.items |-> {client.items[i].path}],
               count |-> [i \in Ids |-> IF i \in DOMAIN client.items THEN 1 ELSE 0]]
  /\ kernel = Nothing
  /\ refresh = Asleep
  /\ fuse = NoRequest
  /\ stale = [now |-> FALSE, raced |-> FALSE, overlap |-> FALSE]

Handler ==
  \/ \E p \in Folders \cup {Root}, n \in Names : Lookup(p, n)
  \/ \E p \in Folders \cup {Root}, n \in Given : StartMkdir(p, n)
  \/ \E f \in Folders \cup {Root} : Readdir(f)
  \/ \E i \in Ids : Getattr(i) \/ Forget(i) \/ StartRemove(i)
  \/ \E i \in Ids, p \in Folders, n \in Given : StartRename(i, p, n)
  \/ CallRemove \/ NoteRemove \/ CallRename \/ NoteRename \/ CallMkdir \/ NoteMkdir

Next == Handler \/ RemoteChange \/ RefreshStep \/ QueryFails

Spec == Init /\ [][Next]_vars

FairSpec == Spec /\ WF_vars(RefreshStep)
-----------------------------------------------------------------------------
(***************************************************************************)
(* Properties.                                                             *)
(***************************************************************************)
ElementOK(e) ==
  /\ e \in [parent : Folders \cup {Root, NoItem}, name : Names \cup {NoName}, path : Seq(Names),
            kind : {"folder", "file", "unset", "empty"}, place : Nat]
  /\ e.kind # "empty" => e.name # NoName /\ e.path # << >>

TreeOK(t) == DOMAIN t \subseteq Ids /\ \A i \in DOMAIN t : ElementOK(t[i])

RequestOK ==
  /\ fuse \in [pc : {"idle", "call", "note", "dead"}, op : {"none", "remove", "rename", "mkdir"},
               id : Ids \cup {Root, NoItem},
               parent : Folders \cup {Root, NoItem}, newParent : Folders \cup {Root, NoItem},
               name : Names \cup {NoName}, newName : Names \cup {NoName},
               path : Seq(Names), newPath : Seq(Names)]
  /\ fuse.op = "remove" => fuse.id \in Ids
  /\ fuse.op \in {"remove", "rename", "mkdir"} => fuse.name \in Names
  /\ fuse.op = "rename" => fuse.newName \in Names

(* Types; an inode in the map has a path, what the kernel has under a parent *)
(* has a name, and the dictionaries have elements of known items.            *)
TypeOK ==
  /\ DriveOK(drive) /\ unused \subseteq Ids \ DOMAIN drive
  /\ TreeOK(client.items) /\ TreeOK(oldTree)
  /\ \A f \in DOMAIN client.contents : TreeOK(client.contents[f])
  /\ DOMAIN inodes.paths \subseteq Ids /\ inodes.count \in [Ids -> Nat]
  /\ \A i \in DOMAIN inodes.paths : inodes.paths[i] # {} /\ inodes.paths[i] \subseteq Seq(Names)
  /\ DOMAIN kernel \subseteq Ids
  /\ \A i \in DOMAIN kernel :
       /\ kernel[i] \in [n : 1..MaxLookups, parent : Folders \cup {Root, NoItem},
                         name : Names \cup {NoName}]
       /\ kernel[i].parent # NoItem => kernel[i].name \in Names
  /\ refresh.pc \in {"idle", "list", "store", "paths", "lost", "dead"}
  /\ refresh.todo \in Seq(Folders \cup {Root}) /\ TreeOK(refresh.answer)
  /\ refresh.pc = "store" => refresh.todo # << >>
  /\ RequestOK
  /\ mode \in {"lazy", "eager"} /\ left \in [own : Nat, remote : Nat, failures : Nat]
  /\ stale \in [now : BOOLEAN, raced : BOOLEAN, overlap : BOOLEAN]

-----------------------------------------------------------------------------
Steady == Idle /\ refresh.pc = "idle"

(* A dictionary tells of each of its items what the drive has. *)
Current(t) ==
  /\ \A i \in DOMAIN t : i \in DOMAIN drive /\ [t[i] EXCEPT !.place = 0] = Element(drive, i)
  /\ mode = "eager" => DOMAIN t = DOMAIN drive

(***************************************************************************)
(* Between requests, and between two loads, the tree the handlers use is   *)
(* what the drive has, whatever they have changed on it themselves: every  *)
(* change is brought into the dictionary (update_item, del in rm).         *)
(* Excepted until the next load (`stale.now`): changes by others, the      *)
(* paths below a folder that was renamed, moved or removed, and changes    *)
(* during a load.                                                          *)
(***************************************************************************)
TreeIsDrive == Steady /\ ~stale.now => Current(client.items)

(***************************************************************************)
(* An inode with look-ups has a path in the inode map, so that getattr and *)
(* setattr by inode find it: for the elements of the tree, as long as no   *)
(* change fell into a load.  forget, unlink and _refresh_path all take     *)
(* paths away, and count on each other's counts.                           *)
(***************************************************************************)
CountedHasPath ==
  Steady /\ ~stale.raced =>
    \A i \in DOMAIN client.items : inodes.count[i] > 0 => i \in DOMAIN inodes.paths

(***************************************************************************)
(* A load that no change fell into ends with the map of inodes right, also *)
(* where renames, moves and mkdir have left old paths or paths of other    *)
(* elements in it: each element has its path on the drive, and no other.   *)
(* Two items of one path (after a rename that was not followed by its      *)
(* move) cannot both be told apart by path.                                *)
(***************************************************************************)
RefreshMends ==
  [][refresh.pc = "paths" /\ refresh'.pc = "idle" /\ ~stale'.now =>
       \A i \in DOMAIN client'.items :
         \/ PathsOf(inodes', i) = {PathIn(drive, i)}
         \/ \E j \in DOMAIN drive \ {i} : PathIn(drive, j) = PathIn(drive, i)]_vars

(***************************************************************************)
(* Whatever is changed on the drive, by the handlers or by others, is seen *)
(* in the tree in the end, unless the main loop has ended or an exception  *)
(* has ended the refresh thread.                                           *)
(***************************************************************************)
ChangesAreSeen ==
  <>[](fuse.pc = "dead" \/ refresh.pc \in {"lost", "dead"} \/ Current(Tree))

(* The kernel, the map of inodes and the drive agree on a folder. *)
KnownRightly(i) ==
  /\ i \in DOMAIN drive /\ PathsOf(inodes, i) = {PathIn(drive, i)}
  /\ \A j \in DOMAIN drive \ Devices :
       i \in Subtree(drive, j) =>
         j \in DOMAIN kernel /\ [parent |-> kernel[j].parent, name |-> kernel[j].name] = drive[j]

(***************************************************************************)
(* unlink and rmdir remove what has the name in the folder they are asked  *)
(* about ("This method must remove the directory *name* from the direcory *)
(* with inode *parent_inode*", src/src/_pyfuse3.py:217-218), at least      *)
(* where that folder itself is known rightly.                              *)
(***************************************************************************)
RemovesNamed ==
  fuse.pc = "call" /\ fuse.op = "remove" /\ KnownRightly(fuse.parent) /\ fuse.id \in DOMAIN drive =>
    drive[fuse.id] = [parent |-> fuse.parent, name |-> fuse.name]
=============================================================================
