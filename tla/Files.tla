------------------------------- MODULE Files -------------------------------
(***************************************************************************)
(* Open files (fs_file.c and the file system calls of syscall.c) over the  *)
(* volume of module Fat.  A call runs to its end without another task in   *)
(* between: one hart runs tasks, interrupts do not switch them, and the    *)
(* card is polled.                                                         *)
(***************************************************************************)
EXTENDS Fat

CONSTANTS
    Tasks,          \* the first one is loaded at boot, the others forked
    NFILE,          \* files of the table besides the three of the console
    NOFILE,         \* descriptors of a task, 0 to 2 being the console
    Paths,          \* the paths programs use
    Modes,          \* sets of O_CREATE, O_TRUNC, O_APPEND given to open
    Length,         \* how much is read or written at a time, in slots
    MAX_CALLS       \* bound on the system calls of a behaviour

ASSUME FilesAssumption ==
    /\ Tasks \subseteq Nat /\ 1 \in Tasks
    /\ {NFILE, NOFILE, Length, MAX_CALLS} \subseteq Nat
    /\ Modes \subseteq SUBSET {"O_CREATE", "O_TRUNC", "O_APPEND"}

VARIABLES
    vol,        \* the volume and the cache of directory entries
    file,       \* the table of open files
    ofile,      \* the descriptors of each task: a file, or NULL
    cwd,        \* the directory of each task, or NULL when it does not run
    unlinked,   \* history: entries removed from each cached directory
    stolen,     \* history: an openat gave up a reference it did not own
    calls

vars == <<vol, file, ofile, cwd, unlinked, stolen, calls>>

Files == 1..NFILE
Fds == 3..(NOFILE - 1)
Closed == [ref |-> 0, type |-> "FD_NONE", ep |-> NULL, off |-> 0]
Alive(t) == cwd[t] # NULL

(* file_search at boot: for each directory an entry is taken from the      *)
(* cache to walk with and never put back.                                  *)
SearchIn(v, d) == eput(WalkedThrough(eget(v, d, ""), d), d)
SearchFound(v) == SearchIn(v, v.ret)
AfterSearch ==
    SearchFound(ename(SearchFound(ename(Volume, [absolute |-> TRUE, names |-> <<>>], ROOT)),
                      [absolute |-> TRUE, names |-> <<"d">>], ROOT))

Cleared(v) == [v EXCEPT !.ret = NULL, !.poff = 0]

Init ==
    /\ vol = Cleared(edup(AfterSearch, ROOT))
    /\ file = [f \in Files |-> Closed]
    /\ ofile = [t \in Tasks |-> [fd \in Fds |-> NULL]]
    /\ cwd = [t \in Tasks |-> IF t = 1 THEN ROOT ELSE NULL]
    /\ unlinked = [e \in Entries |-> 0]
    /\ stolen = FALSE
    /\ calls = 0

-----------------------------------------------------------------------------
Call(t) ==
    /\ Good(vol) /\ Alive(t)
    /\ calls < MAX_CALLS
    /\ calls' = calls + 1

Becomes(v) == vol' = Cleared(v)
Descriptors == <<file, ofile>>
History == <<unlinked, stolen>>

FreeFiles == {f \in Files : file[f].ref = 0}
FreeFds(t) == {fd \in Fds : ofile[t][fd] = NULL}
Used(t) == {fd \in Fds : ofile[t][fd] # NULL}

(* The rest of fileopen once the entry is there: filealloc and fdalloc,    *)
(* and the entry put back when either fails.                               *)
Opened(t, v, mode) ==
    IF ~Good(v) \/ v.ret = NULL THEN Becomes(v) /\ UNCHANGED Descriptors
    ELSE IF FreeFiles = {} \/ FreeFds(t) = {}
    THEN Becomes(eput(v, v.ret)) /\ UNCHANGED Descriptors
    ELSE LET trunc == "O_TRUNC" \in mode /\ ~v.ent[v.ret].isdir
             off == IF "O_APPEND" \in mode /\ ~trunc THEN v.ent[v.ret].file_size ELSE 0
         IN /\ Becomes(IF trunc THEN etrunc(v, v.ret) ELSE v)
            /\ file' = [file EXCEPT ![Min(FreeFiles)] =
                 [ref |-> 1, type |-> "FD_ENTRY", ep |-> v.ret, off |-> off]]
            /\ ofile' = [ofile EXCEPT ![t][Min(FreeFds(t))] = Min(FreeFiles)]

(* open with AT_FDCWD. *)
Open(t, path, mode) ==
    /\ Call(t)
    /\ Opened(t, IF "O_CREATE" \in mode THEN create(vol, path, cwd[t], FALSE)
                 ELSE ename(vol, path, cwd[t]), mode)
    /\ UNCHANGED <<cwd, History>>

(* openat below a descriptor.  When the entry cannot be had the            *)
(* directory's reference is put, though the descriptor still counts on it; *)
(* without O_CREATE nothing is looked up and elock meets NULL.             *)
OpenAt(t, fd, name, mode) ==
    /\ Call(t) /\ fd \in Used(t)
    /\ LET d == file[ofile[t][fd]].ep
           v == ealloc(elock(vol, d), d, name, FALSE)
           refused == Good(v) /\ (IF v.ret = NULL THEN TRUE ELSE v.ent[v.ret].isdir)
       IN IF "O_CREATE" \notin mode
          THEN Becomes(Panic(vol, "elock")) /\ UNCHANGED <<Descriptors, stolen>>
          ELSE IF refused
          THEN /\ Becomes(IF v.ret = NULL THEN eput(v, d) ELSE eput(eput(v, v.ret), d))
               /\ stolen' = TRUE
               /\ UNCHANGED Descriptors
          ELSE Opened(t, v, mode) /\ UNCHANGED stolen
    /\ UNCHANGED <<cwd, unlinked>>

(* fileclose for a set of descriptors of a task. *)
FileClosed(s, f) ==
    IF s.file[f].ref < 1 THEN [s EXCEPT !.vol = Panic(@, "fileclose")]
    ELSE IF s.file[f].ref > 1 THEN [s EXCEPT !.file[f].ref = @ - 1]
    ELSE [s EXCEPT !.file[f] = Closed, !.vol = eput(@, s.file[f].ep)]
Close(t, fd) ==
    /\ Call(t) /\ fd \in Used(t)
    /\ LET s == FileClosed([vol |-> vol, file |-> file], ofile[t][fd])
       IN Becomes(s.vol) /\ file' = s.file
    /\ ofile' = [ofile EXCEPT ![t][fd] = NULL]
    /\ UNCHANGED <<cwd, History>>

(* dup takes the lowest free descriptor, dup3 the one asked for if it is   *)
(* free.                                                                   *)
Dup(t, fd, new) ==
    /\ Call(t) /\ fd \in Used(t) /\ new \in FreeFds(t)
    /\ ofile' = [ofile EXCEPT ![t][new] = ofile[t][fd]]
    /\ file' = [file EXCEPT ![ofile[t][fd]].ref = @ + 1]
    /\ UNCHANGED <<vol, cwd, History>>

Transfer(t, fd, v) ==
    /\ Becomes(v)
    /\ file' = [file EXCEPT ![ofile[t][fd]].off =
                  IF Good(v) /\ v.ret > 0 THEN @ + v.ret ELSE @]
    /\ UNCHANGED <<ofile, cwd, History>>
Read(t, fd) ==
    /\ Call(t) /\ fd \in Used(t)
    /\ LET f == file[ofile[t][fd]]
       IN Transfer(t, fd, eread(elock(vol, f.ep), f.ep, f.off, Length))

(* Nothing keeps a program from writing over a directory.  What enext then *)
(* finds in it are the program's bytes: the model stops there.             *)
Write(t, fd) ==
    /\ Call(t) /\ fd \in Used(t)
    /\ LET f == file[ofile[t][fd]]
           v == elock(vol, f.ep)
       IN Transfer(t, fd, IF Good(v) /\ v.ent[f.ep].isdir
                          THEN Panic(v, "directory overwritten")
                          ELSE ewrite(v, f.ep, f.off, Length))

(* getdents64: ls walks the directory with an entry on its stack, whose    *)
(* field `valid` it does not set; enext panics unless that happens to be 0.*)
Getdents(t, fd, garbage) ==
    /\ Call(t) /\ fd \in Used(t)
    /\ LET d == file[ofile[t][fd]].ep
       IN /\ vol.ent[d].isdir
          /\ Becomes(IF garbage # 0 THEN Panic(vol, "enext ep valid")
                     ELSE IF vol.ent[d].valid # 1 THEN vol
                     ELSE WalkedThrough(vol, d))
    /\ UNCHANGED <<Descriptors, cwd, History>>

Mkdir(t, path) ==
    /\ Call(t)
    /\ LET v == create(vol, path, cwd[t], TRUE)
       IN Becomes(IF Good(v) /\ v.ret # NULL THEN eput(v, v.ret) ELSE v)
    /\ UNCHANGED <<Descriptors, cwd, History>>

(* unlink: the reference of the lookup is taken back by hand; when it was  *)
(* the only one the entry is removed, and its hold on its directory stays. *)
Unlink(t, path) ==
    /\ Call(t)
    /\ LET v == ename(vol, path, cwd[t])
           w == [v EXCEPT !.ent[v.ret].ref = @ - 1]
       IN IF Good(v) /\ v.ret # NULL
          THEN IF w.ent[v.ret].ref = 0
               THEN /\ Becomes(eremove(w, v.ret))
                    /\ unlinked' = [unlinked EXCEPT ![v.ent[v.ret].parent] = @ + 1]
               ELSE Becomes(w) /\ UNCHANGED unlinked
          ELSE /\ Becomes(IF Good(v) THEN Panic(v, "null") ELSE v)
               /\ UNCHANGED unlinked
    /\ UNCHANGED <<Descriptors, cwd, stolen>>

Chdir(t, path) ==
    /\ Call(t)
    /\ LET v == ename(vol, path, cwd[t])
           isdir == IF Good(v) /\ v.ret # NULL THEN v.ent[v.ret].isdir ELSE FALSE
       IN /\ Becomes(IF isdir THEN eput(v, cwd[t])
                     ELSE IF Good(v) /\ v.ret # NULL THEN eput(v, v.ret) ELSE v)
          /\ cwd' = IF isdir THEN [cwd EXCEPT ![t] = v.ret] ELSE cwd
    /\ UNCHANGED <<Descriptors, History>>

(* fork: the child shares the files and the directory. *)
Fork(t, child) ==
    /\ Call(t) /\ ~Alive(child)
    /\ vol' = edup(vol, cwd[t])
    /\ cwd' = [cwd EXCEPT ![child] = cwd[t]]
    /\ ofile' = [ofile EXCEPT ![child] = ofile[t]]
    /\ file' = [f \in Files |->
                  [file[f] EXCEPT !.ref = @ + Cardinality({fd \in Used(t) : ofile[t][fd] = f})]]
    /\ UNCHANGED History

(* exit: every descriptor is closed, then the directory is put. *)
Exit(t) ==
    /\ Call(t)
    /\ LET s == FoldLeft(LAMBDA r, fd : IF ofile[t][fd] = NULL THEN r
                                        ELSE FileClosed(r, ofile[t][fd]),
                         [vol |-> vol, file |-> file],
                         [i \in 1..Cardinality(Fds) |-> i + 2])
       IN Becomes(eput(s.vol, cwd[t])) /\ file' = s.file
    /\ ofile' = [ofile EXCEPT ![t] = [fd \in Fds |-> NULL]]
    /\ cwd' = [cwd EXCEPT ![t] = NULL]
    /\ UNCHANGED History

Next ==
    \E t \in Tasks :
        \/ \E path \in Paths, mode \in Modes : Open(t, path, mode)
        \/ \E fd \in Fds, path \in Paths, mode \in Modes :
             /\ Len(path.names) = 1
             /\ OpenAt(t, fd, path.names[1], mode)
        \/ \E fd \in Fds : Close(t, fd)
        \/ \E fd, new \in Fds : Dup(t, fd, new)
        \/ \E fd \in Fds : Read(t, fd)
        \/ \E fd \in Fds : Write(t, fd)
        \/ \E fd \in Fds, garbage \in {0, 1} : Getdents(t, fd, garbage)
        \/ \E path \in Paths : Mkdir(t, path)
        \/ \E path \in Paths : Unlink(t, path)
        \/ \E path \in Paths : Chdir(t, path)
        \/ \E child \in Tasks : Fork(t, child)
        \/ Exit(t)

Spec == Init /\ [][Next]_vars

-----------------------------------------------------------------------------
Running == Good(vol)
Holders(e) ==
    Cardinality({f \in Files : file[f].ref > 0 /\ file[f].ep = e})
    + Cardinality({t \in Tasks : cwd[t] = e})
    + Cardinality({c \in Cached : /\ vol.ent[c].valid = 1 /\ vol.ent[c].ref > 0
                                  /\ vol.ent[c].parent = e})

(* The entries file_search left behind: referenced and never filled in. *)
Abandoned(e) == IF vol.ent[e].valid = 0 /\ vol.ent[e].ref = 1 THEN 1 ELSE 0

(***************************************************************************)
(* Reference counts are exact over any sequence of calls, failing ones     *)
(* included: a file counts its descriptors, a directory entry the files,   *)
(* tasks and entries in use below it, besides one for each name unlinked   *)
(* from it and the two lost at boot.  Until an openat is refused: that     *)
(* gives up a reference which the directory's descriptor holds.            *)
(***************************************************************************)
RefsExact ==
    Running /\ ~stolen =>
        /\ \A e \in Entries :
             vol.ent[e].ref = Holders(e) + unlinked[e] + Abandoned(e)
        /\ Cardinality({e \in Entries : Abandoned(e) = 1}) = 2
        /\ \A f \in Files : file[f].ref =
             Cardinality({x \in Tasks \X Fds : ofile[x[1]][x[2]] = f})

(***************************************************************************)
(* The cache tells the truth about names: each valid entry stands where it *)
(* says in the directory its parent pointer leads to, with that name, and  *)
(* unless dirty with that first cluster and size.  What eget relies on     *)
(* when it compares nothing but parent and name: an entry out of use is    *)
(* never left behind by the directory it points to, however the slots of   *)
(* the cache are taken over.  Until a name is created in the first two     *)
(* places of a directory, where emake writes "." and "..".                 *)
(***************************************************************************)
CachedNamesTrue ==
    Running /\ ~vol.dotted /\ ~stolen =>
        \A e \in {c \in Cached : vol.ent[c].valid = 1} :
            LET x == vol.ent[e]
                p == x.parent
                s == SlotsOf(vol, p)
            IN /\ vol.ent[p].valid # 0 /\ vol.ent[p].isdir
               /\ {x.off, x.off + 1} \subseteq DOMAIN s
               /\ s[x.off] = LONG(x.name)
               /\ s[x.off + 1].kind = "SHORT" /\ s[x.off + 1].isdir = x.isdir
               /\ \/ x.dirty
                  \/ s[x.off + 1] = SHORT(x.isdir, x.first_clus, x.file_size)

(* The short slots on the disk, and the first cluster of each: the cached  *)
(* one if it is cached.                                                    *)
Shorts == {x \in CardClusters \X (0..(CLUS - 1)) : vol.slot[x[1]][x[2]].kind = "SHORT"}
ShortOf(e) ==
    LET x == vol.ent[e]
    IN <<Chain(vol.fat, vol.ent[x.parent].first_clus)[(x.off + 1) \div CLUS + 1],
         (x.off + 1) % CLUS>>
FirstOf(x) ==
    LET es == {e \in Cached : vol.ent[e].valid = 1 /\ ShortOf(e) = x}
    IN IF es = {} THEN vol.slot[x[1]][x[2]].first
       ELSE vol.ent[CHOOSE e \in es : TRUE].first_clus

(* The clusters a file or directory has in the volume, before its chain    *)
(* leaves it, and the n-th cluster from c as the cursor gets there.        *)
Owned(x) ==
    LET chain == Chain(vol.fat, FirstOf(x))
        out == {i \in DOMAIN chain : chain[i] \notin Clusters}
    IN {chain[i] : i \in {j \in DOMAIN chain : \A o \in out : j < o}}
RECURSIVE Nth(_, _)
Nth(c, n) == IF n = 0 THEN c ELSE Nth(read_fat(vol.fat, c), n - 1)

(***************************************************************************)
(* The clusters that files and directories have in the volume belong to    *)
(* one of them each, are marked as allocated and are not the root's, and   *)
(* the cursor kept with an entry is on its chain where it claims to be:    *)
(* over truncation of files others have open, reuse of freed clusters,     *)
(* eviction from the cache, and on a disk so full that chains go on in     *)
(* clusters behind the volume and in the reserved ones.                    *)
(***************************************************************************)
ChainsSound ==
    Running /\ ~vol.dotted /\ ~stolen =>
        /\ \A x, y \in Shorts : x # y => Owned(x) \cap Owned(y) = {}
        /\ \A x \in Shorts : \A c \in Owned(x) : c # ROOT_CLUS /\ vol.fat[c] # 0
        /\ \A e \in {c \in Entries : vol.ent[c].valid = 1 /\ vol.ent[c].first_clus # 0} :
             vol.ent[e].cur_clus = Nth(vol.ent[e].first_clus, vol.ent[e].clus_cnt)

(***************************************************************************)
(* Until a cluster is wanted that the volume does not have, chains and     *)
(* cursors stay in the volume: "no 0 and 1", as first_sec_of_clus has it,  *)
(* and nothing behind the last cluster, though alloc_clus looks there too. *)
(* Afterwards a file may go on behind the volume and in clusters 0 and 1.  *)
(***************************************************************************)
InsideUntilFull ==
    Running /\ ~vol.full /\ ~vol.dotted /\ ~stolen =>
        /\ \A x \in Shorts : ToSet(Chain(vol.fat, FirstOf(x))) \subseteq Clusters
        /\ \A e \in Entries : vol.ent[e].valid = 1 /\ vol.ent[e].first_clus # 0 =>
             vol.ent[e].cur_clus \in Clusters
=============================================================================
