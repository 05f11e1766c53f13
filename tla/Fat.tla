-------------------------------- MODULE Fat --------------------------------
(***************************************************************************)
(* The FAT32 file system (fs_fat32.c): the allocation table, directories   *)
(* as slots in chains of clusters, and the cache of directory entries with *)
(* reference counts and least-recently-used order.  The operations are     *)
(* operators from one volume to the next; a volume is a record of what is  *)
(* on the disk and what is in the cache, with the value returned.          *)
(*                                                                         *)
(* Offsets and sizes count slots of 32 bytes.  A name takes a long and a   *)
(* short slot, the entries "." and ".." a short one only.                  *)
(***************************************************************************)
EXTENDS Integers, Sequences, SequencesExt, FiniteSets, FiniteSetsExt, TLC

CONSTANTS
    LAST_CLUS,          \* the highest cluster of the volume, data_clus_cnt + 1
    FAT_LAST,           \* the last entry of the table: its sectors are filled up
    CLUS,               \* slots of a cluster
    ENTRY_CACHE_NUM     \* entries of the cache

ASSUME FatAssumption ==
    /\ {LAST_CLUS, FAT_LAST} \subseteq Nat
    /\ LAST_CLUS > 3 /\ FAT_LAST >= LAST_CLUS
    /\ CLUS \in Nat /\ CLUS > 3
    /\ ENTRY_CACHE_NUM \in Nat \ {0}

ROOT == 0
NULL == -1
ROOT_CLUS == 2
FAT32_EOC == FAT_LAST + 1

(* Clusters of the volume, and with those the table has an entry for: the  *)
(* card is taken to go on behind the volume.                               *)
Clusters == 2..LAST_CLUS
CardClusters == 2..FAT_LAST
Cached == 1..ENTRY_CACHE_NUM
Entries == {ROOT} \cup Cached

END == [kind |-> "END"]
EMPTY == [kind |-> "EMPTY"]
DOT == [kind |-> "DOT"]
LONG(name) == [kind |-> "LONG", name |-> name]
SHORT(isdir, first, size) ==
    [kind |-> "SHORT", isdir |-> isdir, first |-> first, size |-> size]

Good(v) == v.err = "no"
Panic(v, why) == [v EXCEPT !.err = why]
Returns(v, x) == [v EXCEPT !.ret = x]

-----------------------------------------------------------------------------
(* A read_fat that forgets that clusters are counted from 2. *)
read_fat_Short(fat, c) ==
    IF c >= FAT32_EOC THEN c ELSE IF c > LAST_CLUS - 1 THEN 0 ELSE fat[c]

(* Entries past the last cluster read as 0 and cannot be written. *)
read_fat(fat, c) ==
    IF c >= FAT32_EOC THEN c ELSE IF c > LAST_CLUS THEN 0 ELSE fat[c]
write_fat(v, c, content) ==
    IF c > LAST_CLUS THEN v ELSE [v EXCEPT !.fat[c] = content]

(* The clusters etrunc visits, in order: up to the end mark, or to the     *)
(* reserved entries 0 and 1, where a chain goes on that left the volume.   *)
RECURSIVE Chain(_, _)
Chain(fat, c) ==
    IF c < 2 \/ c >= FAT32_EOC THEN <<>>
    ELSE <<c>> \o Chain(fat, read_fat(fat, c))

(* The first cluster with a free entry, anywhere in the table, is marked   *)
(* there and zeroed; 1 when there is none.  full records that a cluster    *)
(* was wanted when the volume had none.                                    *)
alloc_clus(v) ==
    LET free == {c \in DOMAIN v.fat : v.fat[c] = 0}
        full == v.full \/ free \cap Clusters = {}
    IN IF free = {} THEN [v EXCEPT !.full = full, !.ret = 1]
       ELSE [v EXCEPT !.fat[Min(free)] = FAT32_EOC,
                      !.slot[Min(free)] = [i \in 0..(CLUS - 1) |-> END],
                      !.full = full, !.ret = Min(free)]

(* One cluster further, and back to the start.  A directory that gets to   *)
(* cluster 0 or 1 is in the sectors before the data area, those of the     *)
(* second copy of the table: the model stops there.  A file goes on.       *)
Outside(v) == Panic(v, "directory outside the data area")
Advance(v, e, clus) ==
    IF v.ent[e].isdir /\ clus < 2 THEN Outside(v)
    ELSE [v EXCEPT !.ent[e].cur_clus = clus, !.ent[e].clus_cnt = @ + 1]
Rewind(v, e) ==
    [v EXCEPT !.ent[e].cur_clus = v.ent[e].first_clus, !.ent[e].clus_cnt = 0]

(* The chain of e grows by the cluster just allocated. *)
Linked(v, e) == Advance(write_fat(v, v.ent[e].cur_clus, v.ret), e, v.ret)

(* reloc_clus: the cursor of e moves to its clus_num-th cluster.  What the *)
(* end of the chain means depends on the caller and on the direction:      *)
(* "alloc" a cluster, "stop" and return -1, or "panic".                    *)
RECURSIVE Reloc(_, _, _, _)
Reloc(v, e, clus_num, at_end) ==
    IF ~Good(v) \/ v.ent[e].clus_cnt = clus_num THEN v
    ELSE IF v.ent[e].clus_cnt > clus_num
    THEN Reloc(Rewind(v, e), e, clus_num, "panic")
    ELSE IF read_fat(v.fat, v.ent[e].cur_clus) < FAT32_EOC
    THEN Reloc(Advance(v, e, read_fat(v.fat, v.ent[e].cur_clus)), e, clus_num, at_end)
    ELSE IF at_end = "alloc" THEN Reloc(Linked(alloc_clus(v), e), e, clus_num, at_end)
    ELSE IF at_end = "stop" THEN Rewind(v, e)
    ELSE Panic(v, "reloc_clus")
reloc_clus(v, e, off, at_end) == Reloc(v, e, off \div CLUS, at_end)

(* The loops of eread and ewrite: the cursor over the n slots from off. *)
Traverse(v, e, off, n, at_end) ==
    FoldLeft(LAMBDA w, k : Reloc(w, e, k, at_end), v,
             [k \in 1..((off + n - 1) \div CLUS - off \div CLUS + 1) |->
                 off \div CLUS + k - 1])

-----------------------------------------------------------------------------
(* The slots of a directory, from 0. *)
SlotsOf(v, d) ==
    LET chain == Chain(v.fat, v.ent[d].first_clus)
    IN [o \in 0..(CLUS * Len(chain) - 1) |-> v.slot[chain[o \div CLUS + 1]][o % CLUS]]

(* rw_clus on the slot under the cursor of directory d. *)
Put(v, d, off, what) ==
    IF Good(v) THEN [v EXCEPT !.slot[v.ent[d].cur_clus][off % CLUS] = what] ELSE v
WriteSlot(v, d, off, what) == Put(reloc_clus(v, d, off, "alloc"), d, off, what)
PatchSlot(v, d, off, what) == Put(reloc_clus(v, d, off, "stop"), d, off, what)

(* Where a walk with enext ends: at the END mark or the end of the chain,  *)
(* but before the empty slots that precede it.                             *)
Stop(s) == Min({Cardinality(DOMAIN s)} \cup {o \in DOMAIN s : s[o] = END})
WalkEnd(s) ==
    LET stop == Stop(s)
    IN Min({o \in 0..stop : \A j \in o..(stop - 1) : s[j] = EMPTY})
Places(s, name) == {o \in DOMAIN s : o < Stop(s) /\ s[o] = LONG(name)}

(* The cursor of d after a walk through all of it. *)
WalkedThrough(v, d) == reloc_clus(v, d, Stop(SlotsOf(v, d)), "stop")

-----------------------------------------------------------------------------
(* References. *)
edup(v, e) == [v EXCEPT !.ent[e].ref = @ + 1]
elock(v, e) == IF v.ent[e].ref < 1 THEN Panic(v, "elock") ELSE v

(* A cache hit that forgets to hold the directory. *)
Hit_NoParent(v, e) == Returns(edup(v, e), e)

(* A hit: an entry that was out of use holds its directory again. *)
Hit(v, e) ==
    Returns(IF v.ent[e].ref = 0 THEN edup(edup(v, e), v.ent[e].parent)
            ELSE edup(v, e), e)

(* eget: the entry cached under that directory and name, or else the least *)
(* recently used one out of use.                                           *)
eget(v, parent, name) ==
    LET hits == SelectSeq(v.lru, LAMBDA e : /\ v.ent[e].valid = 1
                                            /\ v.ent[e].parent = parent
                                            /\ v.ent[e].name = name)
        unused == SelectSeq(v.lru, LAMBDA e : v.ent[e].ref = 0)
    IN IF hits # <<>> THEN Hit(v, Head(hits))
       ELSE IF unused = <<>> THEN Panic(v, "eget: insufficient ecache")
       ELSE [v EXCEPT !.ent[Last(unused)].ref = 1, !.ent[Last(unused)].valid = 0,
                      !.ent[Last(unused)].off = 0, !.ent[Last(unused)].dirty = FALSE,
                      !.ret = Last(unused)]

(* eupdate: size and first cluster go to the short slot. *)
eupdate(v, e) ==
    IF ~v.ent[e].dirty \/ v.ent[e].valid # 1 THEN v
    ELSE [PatchSlot(reloc_clus(v, v.ent[e].parent, v.ent[e].off, "stop"),
                    v.ent[e].parent, v.ent[e].off + 1,
                    SHORT(v.ent[e].isdir, v.ent[e].first_clus, v.ent[e].file_size))
          EXCEPT !.ent[e].dirty = FALSE]

(* etrunc: every cluster of the chain is freed that write_fat can free. *)
etrunc(v, e) ==
    [FoldLeft(LAMBDA w, c : write_fat(w, c, 0), v,
              Chain(v.fat, v.ent[e].first_clus))
     EXCEPT !.ent[e].file_size = 0, !.ent[e].first_clus = 0,
            !.ent[e].dirty = TRUE]

(* An eput that leaves the entry where it is in the order. *)
Recent_Stays(v, e) == v

(* The entry becomes the most recently used. *)
Recent(v, e) == [v EXCEPT !.lru = <<e>> \o SelectSeq(@, LAMBDA x : x # e)]

(* eput: the last reference writes the entry back and lets go of its       *)
(* directory, which may be the last reference to that.                     *)
RECURSIVE eput(_, _)
Written(v, e) ==
    IF v.ent[e].valid = -1 THEN etrunc(v, e)
    ELSE eupdate(elock(v, v.ent[e].parent), e)
LetGo(v, e) == eput([v EXCEPT !.ent[e].ref = 0], v.ent[e].parent)
eput(v, e) ==
    IF ~Good(v) THEN v
    ELSE IF e # ROOT /\ v.ent[e].valid # 0 /\ v.ent[e].ref = 1
    THEN LetGo(Written(Recent(v, e), e), e)
    ELSE [v EXCEPT !.ent[e].ref = @ - 1]

-----------------------------------------------------------------------------
(* The result of a walk through d for an entry e just taken from the       *)
(* cache: found at place o, or not found.                                  *)
Loaded(v, d, e, name, o, info) ==
    [edup(reloc_clus(v, d, o + 1, "stop"), d)
     EXCEPT !.ent[e] = [@ EXCEPT !.name = name, !.isdir = info.isdir,
                 !.first_clus = info.first, !.cur_clus = info.first,
                 !.clus_cnt = 0, !.file_size = info.size,
                 !.parent = d, !.off = o, !.valid = 1]]
NotThere(v, d, e, s) ==
    [eput(WalkedThrough(v, d), e) EXCEPT !.ret = NULL, !.poff = WalkEnd(s)]
Searched(v, d, name) ==
    IF ~Good(v) \/ v.ent[v.ret].valid = 1 THEN v
    ELSE LET s == SlotsOf(v, d)
             places == Places(s, name)
         IN IF places = {} THEN NotThere(v, d, v.ret, s)
            ELSE Loaded(v, d, v.ret, name, Min(places), s[Min(places) + 1])

(* dirlookup: the entry of that name in directory d, or NULL and the       *)
(* offset for a new one.                                                   *)
dirlookup(v, d, name) ==
    IF name = "." THEN Returns(edup(v, d), d)
    ELSE IF name = ".."
    THEN IF d = ROOT THEN Returns(edup(v, ROOT), ROOT)
         ELSE Returns(edup(v, v.ent[d].parent), v.ent[d].parent)
    ELSE IF v.ent[d].valid # 1 THEN Returns(v, NULL)
    ELSE Searched(eget(v, d, name), d, name)

(* lookup_path, one element: from the entry in ret to the next. *)
Found(v, d) == Returns(eput(v, d), v.ret)
Descend(v, d, name) ==
    IF ~Good(v) THEN v
    ELSE IF v.ent[d].isdir THEN Found(dirlookup(v, d, name), d)
    ELSE Returns(eput(v, d), NULL)
Element(v, name) ==
    IF ~Good(v) \/ v.ret = NULL THEN v ELSE Descend(elock(v, v.ret), v.ret, name)

(* A path is a sequence of names, from the root or from the directory cwd. *)
From(v, path, cwd) ==
    LET e == IF path.absolute THEN ROOT ELSE cwd IN Returns(edup(v, e), e)
ename(v, path, cwd) == FoldLeft(Element, From(v, path, cwd), path.names)

(* The directory that holds, or will hold, the last element. *)
IsDirectory(v) ==
    IF ~Good(v) \/ v.ret = NULL THEN v
    ELSE IF v.ent[v.ret].isdir THEN elock(v, v.ret)
    ELSE Returns(eput(v, v.ret), NULL)
enameparent(v, path, cwd) ==
    IsDirectory(FoldLeft(Element, From(v, path, cwd), Front(path.names)))

-----------------------------------------------------------------------------
(* emake: the slots of an entry in directory d.  The first two places are  *)
(* taken for "." and ".." whatever the directory and the entry are.        *)
emake(v, d, e, off) ==
    IF ~Good(v) THEN v
    ELSE IF off <= 1
    THEN WriteSlot(v, d, off, DOT)
    ELSE WriteSlot(WriteSlot(v, d, off, LONG(v.ent[e].name)), d, off + 1,
                   SHORT(v.ent[e].isdir, v.ent[e].first_clus, v.ent[e].file_size))

(* ealloc for a name that is not there: the entry is filled in, a new      *)
(* directory gets a cluster with its first two entries, and the directory  *)
(* d the new name.  dotted records that this name went to one of the first *)
(* two places.                                                             *)
Filled(v, d, e, name, isdir) ==
    IF ~Good(v) THEN v
    ELSE [edup(v, d) EXCEPT !.ent[e] =
             [@ EXCEPT !.isdir = isdir, !.file_size = 0, !.first_clus = 0,
                       !.parent = d, !.off = v.poff, !.clus_cnt = 0,
                       !.cur_clus = 0, !.dirty = FALSE, !.name = name]]
FirstCluster(v, e) ==
    IF v.ret < 2 THEN Outside(v)
    ELSE [v EXCEPT !.ent[e].first_clus = v.ret, !.ent[e].cur_clus = v.ret]
NewDirectory(v, d, e) ==
    IF Good(v) /\ v.ent[e].isdir
    THEN emake(emake(FirstCluster(alloc_clus(v), e), e, e, 0), e, d, 1)
    ELSE v
Finished(v, e) ==
    IF Good(v) THEN [v EXCEPT !.ent[e].valid = 1, !.ret = e,
                              !.dotted = @ \/ v.ent[e].off <= 1]
    ELSE v
Made(v, d, e, name, isdir) ==
    Finished(emake(NewDirectory(Filled(v, d, e, name, isdir), d, e), d, e, v.poff), e)
NewEntry(v, d, name, isdir) ==
    IF Good(v) THEN Made(v, d, v.ret, name, isdir) ELSE v

(* ealloc: the entry of that name, made if it is not there. *)
OrNew(v, d, name, isdir) ==
    IF ~Good(v) \/ v.ret # NULL THEN v
    ELSE NewEntry(eget(v, d, name), d, name, isdir)
ealloc(v, d, name, isdir) ==
    IF ~Good(v) THEN v
    ELSE IF ~v.ent[d].isdir THEN Panic(v, "ealloc not dir")
    ELSE IF v.ent[d].valid # 1 THEN Returns(v, NULL)
    ELSE OrNew(dirlookup(v, d, name), d, name, isdir)

(* create: ealloc under a path; an entry of the other type is refused. *)
Checked(v, d, isdir) ==
    IF ~Good(v) THEN v
    ELSE IF v.ret = NULL THEN Returns(eput(v, d), NULL)
    ELSE IF v.ent[v.ret].isdir # isdir THEN Returns(eput(eput(v, v.ret), d), NULL)
    ELSE Returns(eput(v, d), v.ret)
CreateIn(v, d, name, isdir) == Checked(ealloc(v, d, name, isdir), d, isdir)
create(v, path, cwd, isdir) ==
    LET at == enameparent(v, path, cwd)
    IN IF ~Good(at) \/ at.ret = NULL THEN at
       ELSE CreateIn(at, at.ret, Last(path.names), isdir)

(* eremove: both slots are marked empty; the cursor ends after them. *)
eremove(v, e) ==
    IF v.ent[e].valid # 1 THEN v
    ELSE [reloc_clus(PatchSlot(PatchSlot(v, v.ent[e].parent, v.ent[e].off, EMPTY),
                               v.ent[e].parent, v.ent[e].off + 1, EMPTY),
                     v.ent[e].parent, v.ent[e].off + 2, "stop")
          EXCEPT !.ent[e].valid = -1]

-----------------------------------------------------------------------------
(* eread and ewrite of n slots at off; ret is the length or -1. *)
eread(v, e, off, n) ==
    LET m == Min({n, v.ent[e].file_size - off})
    IN IF off > v.ent[e].file_size \/ v.ent[e].isdir \/ m = 0 THEN Returns(v, 0)
       ELSE Returns(Traverse(v, e, off, m, "stop"), m)

(* A first cluster that does not move the cursor to it. *)
Started_KeepCursor(v, e) ==
    [v EXCEPT !.ent[e].first_clus = v.ret, !.ent[e].dirty = TRUE]

(* The first cluster of an empty file. *)
Started(v, e) ==
    [v EXCEPT !.ent[e].first_clus = v.ret, !.ent[e].cur_clus = v.ret,
              !.ent[e].clus_cnt = 0, !.ent[e].dirty = TRUE]
Extended(v, e, off, n) ==
    IF off + n > v.ent[e].file_size
    THEN [v EXCEPT !.ent[e].file_size = off + n, !.ent[e].dirty = TRUE, !.ret = n]
    ELSE Returns(v, n)
ewrite(v, e, off, n) ==
    IF off > v.ent[e].file_size THEN Returns(v, -1)
    ELSE IF v.ent[e].first_clus = 0
    THEN Extended(Traverse(Started(alloc_clus(v), e), e, off, n, "alloc"), e, off, n)
    ELSE Extended(Traverse(v, e, off, n, "alloc"), e, off, n)

-----------------------------------------------------------------------------
(* fat32_init: an empty cache over the volume found.  This one has a       *)
(* directory "d" and a file "g" of one cluster in its root.                *)
NoEntry == [valid |-> 0, ref |-> 0, parent |-> NULL, name |-> "", off |-> 0,
            isdir |-> FALSE, first_clus |-> 0, cur_clus |-> 0, clus_cnt |-> 0,
            file_size |-> 0, dirty |-> FALSE]
RootEntry == [NoEntry EXCEPT !.valid = 1, !.isdir = TRUE,
                             !.first_clus = ROOT_CLUS, !.cur_clus = ROOT_CLUS]
EmptyCluster == [i \in 0..(CLUS - 1) |-> END]
RootSlots == (0 :> LONG("d")) @@ (1 :> SHORT(TRUE, 3, 0)) @@
             (2 :> LONG("g")) @@ (3 :> SHORT(FALSE, 4, 1)) @@ EmptyCluster
Volume ==
    [fat |-> [c \in 0..FAT_LAST |-> IF c <= 4 THEN FAT32_EOC ELSE 0],
     slot |-> [c \in CardClusters |->
                 IF c = ROOT_CLUS THEN RootSlots
                 ELSE IF c = 3 THEN (0 :> DOT) @@ (1 :> DOT) @@ EmptyCluster
                 ELSE EmptyCluster],
     ent |-> [e \in Entries |-> IF e = ROOT THEN RootEntry ELSE NoEntry],
     lru |-> [i \in Cached |-> ENTRY_CACHE_NUM + 1 - i],
     ret |-> NULL, poff |-> 0, err |-> "no", dotted |-> FALSE,
     full |-> FALSE]
=============================================================================
