--------------------------------- MODULE Shm ---------------------------------
(***************************************************************************)
(* The System V shared memory of include/sys/shm.h: each process has a     *)
(* table of segments of its own; a segment with a key is a file in /tmp    *)
(* that processes find by name, and every process unlinks it when it       *)
(* removes its segment.  The steps of one process are those of one thread  *)
(* (the code takes no lock); the file system is external.                  *)
(***************************************************************************)
EXTENDS Naturals, FiniteSets, FiniteSetsExt

CONSTANTS Procs,
          SegMax,     \* JACL_SHM_MAX_SEGMENTS
          Keys, Private,
          Sizes,      \* the sizes asked for when a segment is created
          MaxFiles,   \* bound on the files (and anonymous maps) ever made
          MaxRemoves, \* bound on the calls of IPC_RMID and failures of ftruncate
          MaxAttach   \* bound on the attachments of a segment

VARIABLES
  seg,                \* __jacl_shm_registry of each process
  path,               \* the file each key's path names, 0 for none
  size,               \* the length of each file or anonymous map
  files,              \* files made so far
  pc, key, want, flags, fd,   \* each process's shmget
  removes,            \* ghost: calls of IPC_RMID and failures of ftruncate so far
  attached            \* ghost: attachments of each file by process

shmget == <<pc, key, want, flags, fd>>
vars == <<seg, path, size, files, shmget, removes, attached>>

NoSeg == [active |-> FALSE, key |-> Private, file |-> 0, size |-> 0, nattch |-> 0, deleted |-> FALSE]
Inodes == 1..MaxFiles
Segs == 1..SegMax

Init ==
  /\ seg = [p \in Procs |-> [n \in Segs |-> NoSeg]]
  /\ path = [k \in Keys |-> 0]
  /\ size = [f \in Inodes |-> 0]
  /\ files = 0 /\ removes = 0
  /\ pc = [p \in Procs |-> "idle"]
  /\ key = [p \in Procs |-> Private]
  /\ want = [p \in Procs |-> 0]
  /\ flags = [p \in Procs |-> {}]
  /\ fd = [p \in Procs |-> 0]
  /\ attached = [p \in Procs |-> [f \in Inodes |-> 0]]

Goto(p, label, f) == pc' = [pc EXCEPT ![p] = label] /\ fd' = [fd EXCEPT ![p] = f]

\* shmget returns.
Return(p) ==
  /\ Goto(p, "idle", 0)
  /\ key' = [key EXCEPT ![p] = Private] /\ want' = [want EXCEPT ![p] = 0]
  /\ flags' = [flags EXCEPT ![p] = {}]

-----------------------------------------------------------------------------
\* shmget with IPC_CREAT for a key this process has no segment of; the other
\* cases return EEXIST, EINVAL, ENOENT, ENOSPC or an identifier and change
\* nothing.  A private segment is mapped at once.
ShmGet(p) ==
  /\ pc[p] = "idle"
  /\ \E k \in Keys \cup {Private}, s \in Sizes, f \in {{}, {"IPC_EXCL"}} :
       /\ k # Private => \A n \in Segs : ~(seg[p][n].active /\ seg[p][n].key = k)
       /\ \E n \in Segs : ~seg[p][n].active
       /\ k = Private => files < MaxFiles
       /\ key' = [key EXCEPT ![p] = k] /\ want' = [want EXCEPT ![p] = s]
       /\ flags' = [flags EXCEPT ![p] = f]
       /\ IF k = Private
          THEN /\ files' = files + 1 /\ size' = [size EXCEPT ![files + 1] = s]
               /\ Goto(p, "map", files + 1)
          ELSE Goto(p, "open", 0) /\ UNCHANGED <<files, size>>
  /\ UNCHANGED <<seg, path, removes, attached>>

\* __jacl_shm_map_file opens the path: EEXIST with IPC_EXCL if it is there;
Open(p) ==
  /\ pc[p] = "open"
  /\ IF path[key[p]] = 0 THEN Goto(p, "create", 0) /\ UNCHANGED <<key, want, flags>>
     ELSE IF "IPC_EXCL" \in flags[p] THEN Return(p)
     ELSE Goto(p, "stat", path[key[p]]) /\ UNCHANGED <<key, want, flags>>
  /\ UNCHANGED <<seg, path, size, files, removes, attached>>

\* Mutant: the file is opened for creation without O_EXCL, and a new one takes
\* the place of the one that is there.
MutAbsent(p) == TRUE

Absent(p) == path[key[p]] = 0

\* creates it with O_EXCL,
Create(p) ==
  /\ pc[p] = "create"
  /\ IF Absent(p)
     THEN /\ files < MaxFiles
          /\ files' = files + 1
          /\ path' = [path EXCEPT ![key[p]] = files + 1]
          /\ Goto(p, "truncate", files + 1)
     ELSE Goto(p, "reopen", 0) /\ UNCHANGED <<files, path>>
  /\ UNCHANGED <<seg, size, key, want, flags, removes, attached>>

\* or, when another process was faster, opens that one's file;
Reopen(p) ==
  /\ pc[p] = "reopen"
  /\ IF path[key[p]] = 0 \/ "IPC_EXCL" \in flags[p] THEN Return(p)
     ELSE Goto(p, "truncate", path[key[p]]) /\ UNCHANGED <<key, want, flags>>
  /\ UNCHANGED <<seg, path, size, files, removes, attached>>

\* in both cases sets the length;
Truncate(p) ==
  /\ pc[p] = "truncate"
  /\ size' = [size EXCEPT ![fd[p]] = want[p]]
  /\ Goto(p, "map", fd[p])
  /\ UNCHANGED <<seg, path, files, key, want, flags, removes, attached>>

\* (ftruncate failed: the path goes, whoever made the file)
TruncateFails(p) ==
  /\ pc[p] = "truncate" /\ removes < MaxRemoves /\ removes' = removes + 1
  /\ path' = [path EXCEPT ![key[p]] = 0]
  /\ Return(p)
  /\ UNCHANGED <<seg, size, files, attached>>

\* Mutant: the length of a file that was there is not looked at.
MutTooShort(p) == FALSE

\* fstat shows less than was asked for: EINVAL.
TooShort(p) == want[p] > size[fd[p]]

\* and looks at the length of a file that was there.
Stat(p) ==
  /\ pc[p] = "stat"
  /\ IF TooShort(p) THEN Return(p) ELSE Goto(p, "map", fd[p]) /\ UNCHANGED <<key, want, flags>>
  /\ UNCHANGED <<seg, path, size, files, removes, attached>>

\* mmap and __jacl_shm_init_meta.
Map(p) ==
  /\ pc[p] = "map"
  /\ LET n == Min({m \in Segs : ~seg[p][m].active}) IN
     seg' = [seg EXCEPT ![p][n] = [active |-> TRUE, key |-> key[p], file |-> fd[p],
                                   size |-> want[p], nattch |-> 0, deleted |-> FALSE]]
  /\ Return(p)
  /\ UNCHANGED <<path, size, files, removes, attached>>

\* mmap failed; the file stays.
MapFails(p) ==
  /\ pc[p] = "map"
  /\ Return(p)
  /\ UNCHANGED <<seg, path, size, files, removes, attached>>

\* shmat: EINVAL, EIDRM, or one attachment more, at the one address.
ShmAt(p) ==
  /\ pc[p] = "idle"
  /\ \E n \in Segs :
       /\ seg[p][n].active /\ ~seg[p][n].deleted /\ seg[p][n].nattch < MaxAttach
       /\ seg' = [seg EXCEPT ![p][n].nattch = @ + 1]
       /\ attached' = [attached EXCEPT ![p][seg[p][n].file] = @ + 1]
  /\ UNCHANGED <<path, size, files, shmget, removes>>

\* __jacl_shm_destroy: unmap, unlink the path of the key, free the entry.
Destroy(p, n, s) ==
  /\ seg' = [seg EXCEPT ![p][n] = NoSeg]
  /\ path' = IF s.key = Private THEN path ELSE [path EXCEPT ![s.key] = 0]

\* Mutant: a removed segment is destroyed although attachments are left.
MutIdle(s) == TRUE

Idle(s) == s.nattch = 0

\* shmdt by the address of an attachment.
ShmDt(p) ==
  /\ pc[p] = "idle"
  /\ \E n \in Segs :
       LET s == [seg[p][n] EXCEPT !.nattch = @ - 1] IN
       /\ seg[p][n].active /\ seg[p][n].nattch > 0
       /\ attached' = [attached EXCEPT ![p][s.file] = @ - 1]
       /\ IF Idle(s) /\ s.deleted THEN Destroy(p, n, s)
          ELSE seg' = [seg EXCEPT ![p][n] = s] /\ UNCHANGED path
  /\ UNCHANGED <<size, files, shmget, removes>>

\* shmctl IPC_RMID.
Rmid(p) ==
  /\ pc[p] = "idle" /\ removes < MaxRemoves /\ removes' = removes + 1
  /\ \E n \in Segs :
       LET s == [seg[p][n] EXCEPT !.deleted = TRUE] IN
       /\ seg[p][n].active
       /\ IF Idle(s) THEN Destroy(p, n, s)
          ELSE seg' = [seg EXCEPT ![p][n] = s] /\ UNCHANGED path
  /\ UNCHANGED <<size, files, shmget, attached>>

Next ==
  \E p \in Procs :
    \/ ShmGet(p) \/ Open(p) \/ Create(p) \/ Reopen(p) \/ Truncate(p) \/ TruncateFails(p)
    \/ Stat(p) \/ Map(p) \/ MapFails(p)
    \/ ShmAt(p) \/ ShmDt(p) \/ Rmid(p)

Spec == Init /\ [][Next]_vars

-----------------------------------------------------------------------------
\* What a process has attached stays mapped, once for all its attachments,
\* until the last one is detached, removed or not; and the file under it is as
\* long as the segment, if all callers of shmget ask for one size.
AttachedMapped ==
  \A p \in Procs, f \in Inodes :
    LET mine == {n \in Segs : seg[p][n].active /\ seg[p][n].file = f} IN
    /\ attached[p][f] > 0 => \E n \in mine : seg[p][n].nattch = attached[p][f]
    /\ \A n \in mine : seg[p][n].size <= size[f]

\* Until a segment is removed somewhere or ftruncate fails, a key leads every process to one file,
\* whoever creates it and however the calls of shmget interleave.
KeyShared ==
  removes = 0 =>
    \A p, q \in Procs, m, n \in Segs :
      (seg[p][m].active /\ seg[q][n].active /\ seg[p][m].key = seg[q][n].key
         /\ seg[p][m].key # Private) => seg[p][m].file = seg[q][n].file
=============================================================================
