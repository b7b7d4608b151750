------------------------- MODULE FileStorageProofs -------------------------
(***************************************************************************)
(* Theorems about FileStorage for any threads, processes, keys and values. *)
(* That get returns what was set for its key holds of every text that is   *)
(* ever on the disk or in a thread's hands, whoever renames it.  For the   *)
(* threads of one process the lock makes one thread the owner of the       *)
(* temporary file, so that each rename carries the file's own contents     *)
(* with one key changed: that is the refinement of StorageMap.             *)
(***************************************************************************)
EXTENDS FileStorage, TLAPS

\* What is in the data was set for that very key.
Known(data) == \A k \in Keys : data[k] \in stored[k] \cup {NoValue}

KnownOp(w) == Known(op[w].data) /\ op[w].value \in stored[op[w].key] \cup {NoValue}

\* Who works holds the lock of its process.
Locks(w) == op[w].phase \notin {"idle", "waiting"} => lock[home[w]] = w

Writing(w) == op[w].phase \in {"read", "opened", "written"}

Intent(w) == /\ op[w].phase # "idle" => (op[w].kind = "set" <=> op[w].value \in Values)
             /\ Writing(w) => op[w].kind # "get"

\* Where a thread that writes stands when its process is alone with the file.
OwnsTmp(w) ==
    /\ Writing(w) => op[w].data = [Parsed EXCEPT ![op[w].key] = op[w].value]
    /\ op[w].phase = "opened" =>
         tmp = op[w].fd /\ tmp \in Inodes /\ tmp # file /\ disk[tmp] = Torn
    /\ op[w].phase = "written" =>
         tmp \in Inodes /\ tmp # file /\ disk[tmp] = Whole(op[w].data)
    /\ op[w].result # "raised"

\* All that is ever read from the disk or kept by a thread is known.
ThreadsOK == \A w \in Workers : KnownOp(w) /\ Locks(w) /\ Intent(w)
DiskKnown == \A i \in Inodes : Known(disk[i].data)

AloneOwns == OneProcess => (tmp # None => tmp # file) /\ \A w \in Workers : OwnsTmp(w)

IInv == TypeOK /\ ThreadsOK /\ DiskKnown /\ AloneOwns

-----------------------------------------------------------------------------
LEMMA Empty == NoKeys \in Contents /\ Known(NoKeys) /\ Torn \in Disk /\ Idle \in Op
<1>1. NoKeys \in Contents /\ Known(NoKeys)
  BY DEF NoKeys, Contents, Known
<1>2. (CHOOSE k \in Keys : TRUE) \in Keys
  BY StorageAssumption
<1>3. Torn \in Disk
  BY <1>1 DEF Torn, Disk
<1>4. Idle \in Op
  <2> DEFINE k == CHOOSE k \in Keys : TRUE
  <2>1. k \in Keys
    BY <1>2
  <2> HIDE DEF k
  <2>2. [kind |-> "get", key |-> k, value |-> NoValue, phase |-> "idle", data |-> NoKeys,
         fd |-> None, result |-> "none"] \in Op
    BY <1>1, <2>1 DEF Op, Kinds
  <2> QED  BY <2>2 DEF k, Idle
<1> QED  BY <1>1, <1>3, <1>4

\* What is read is well formed, and known.
LEMMA ParsedIsKnown ==
    ASSUME IInv
    PROVE  Parsed \in Contents /\ Known(Parsed)
<1>1. CASE file = None
  BY <1>1, Empty DEF Parsed
<1>2. CASE file # None
  <2>1. file \in Inodes /\ disk[file] \in Disk /\ Known(disk[file].data)
    BY <1>2 DEF IInv, TypeOK, DiskKnown
  <2> QED  BY <1>2, <2>1 DEF Parsed, Disk
<1> QED  BY <1>1, <1>2

\* What was set stays known.
LEMMA StaysKnown ==
    ASSUME \A k \in Keys : stored[k] \subseteq stored'[k]
    PROVE  /\ \A data : Known(data) => Known(data)'
           /\ \A k \in Keys : \A v \in stored[k] \cup {NoValue} : v \in stored'[k] \cup {NoValue}
  BY DEF Known

\* The other threads are where they were when one takes a step: their lock is
\* theirs and what they know stays known.
LEMMA OthersKeep ==
    ASSUME IInv, NEW w \in Workers, NEW o, op' = [op EXCEPT ![w] = o],
           home' = home, stored' = stored,
           \A u \in Workers \ {w} : lock[home[u]] = u => lock'[home[u]] = u,
           (KnownOp(w) /\ Locks(w) /\ Intent(w))'
    PROVE  ThreadsOK'
<1> SUFFICES ASSUME NEW u \in Workers PROVE (KnownOp(u) /\ Locks(u) /\ Intent(u))'
  BY DEF ThreadsOK
<1>1. CASE u = w
  BY <1>1
<1>2. CASE u # w
  <2>1. op'[u] = op[u] /\ KnownOp(u) /\ Locks(u) /\ Intent(u)
    BY <1>2 DEF IInv, TypeOK, ThreadsOK
  <2>2. KnownOp(u)'
    BY <2>1 DEF KnownOp, Known
  <2>3. Locks(u)'
    BY <1>2, <2>1 DEF Locks
  <2>4. Intent(u)'
    BY <2>1 DEF Intent, Writing
  <2> QED  BY <2>2, <2>3, <2>4
<1> QED  BY <1>1, <1>2

\* When the threads are those of one process, one of them works at most.
LEMMA OneWorks ==
    ASSUME IInv, OneProcess, NEW w \in Workers, op[w].phase \notin {"idle", "waiting"},
           NEW u \in Workers, u # w
    PROVE  op[u].phase \in {"idle", "waiting"}
  BY DEF IInv, ThreadsOK, Locks, OneProcess

\* A thread that does not write owns nothing.
LEMMA NotWriting ==
    ASSUME NEW w \in Workers, ~Writing(w), op[w].result # "raised"
    PROVE  OwnsTmp(w)
  BY DEF OwnsTmp, Writing

\* A step of the one that works leaves the others owning nothing.
LEMMA OthersOwnNothing ==
    ASSUME IInv, OneProcess, NEW w \in Workers, op[w].phase \notin {"idle", "waiting"},
           NEW o, op' = [op EXCEPT ![w] = o], OwnsTmp(w)'
    PROVE  \A u \in Workers : OwnsTmp(u)'
<1> SUFFICES ASSUME NEW u \in Workers, u # w PROVE OwnsTmp(u)'
  OBVIOUS
<1>1. op[u].phase \in {"idle", "waiting"}
  BY OneWorks
<1>2. op'[u] = op[u] /\ op[u].result # "raised"
  BY DEF IInv, TypeOK, AloneOwns, OwnsTmp
<1>3. ~Writing(u)' /\ op'[u].result # "raised"
  BY <1>1, <1>2 DEF Writing
<1> QED  BY <1>3 DEF OwnsTmp, Writing

\* A step that touches neither the file nor what a thread writes.
LEMMA OwnershipKept ==
    ASSUME IInv, NEW w \in Workers, NEW o, op' = [op EXCEPT ![w] = o],
           home' = home, disk' = disk, file' = file, tmp' = tmp,
           o.phase \notin {"read", "opened", "written"}, o.result # "raised"
    PROVE  AloneOwns'
<1> SUFFICES ASSUME OneProcess, NEW u \in Workers
             PROVE  OwnsTmp(u)' /\ (tmp # None => tmp # file)
  BY DEF AloneOwns, OneProcess
<1>1. (tmp # None => tmp # file) /\ OwnsTmp(u)
  BY DEF IInv, AloneOwns
<1>2. CASE u = w
  <2>1. op'[u] = o
    BY <1>2 DEF IInv, TypeOK
  <2> QED  BY <1>1, <2>1 DEF OwnsTmp, Writing
<1>3. CASE u # w
  <2>1. op'[u] = op[u]
    BY <1>3 DEF IInv, TypeOK
  <2> QED  BY <1>1, <2>1 DEF OwnsTmp, Writing, Parsed
<1> QED  BY <1>1, <1>2, <1>3

-----------------------------------------------------------------------------
LEMMA BeginKeeps ==
    ASSUME IInv, NEW w \in Workers, NEW kind \in Kinds, NEW k \in Keys,
           NEW v \in Values \cup {NoValue}, Begin(w, kind, k, v)
    PROVE  IInv'
<1> DEFINE o == [Idle EXCEPT !.kind = kind, !.key = k, !.value = v, !.phase = "waiting"]
<1>1. /\ o \in Op /\ o.kind = kind /\ o.key = k /\ o.value = v /\ o.phase = "waiting"
      /\ o.data = NoKeys /\ o.result = "none"
  BY Empty DEF Op, Idle
<1>2. op' = [op EXCEPT ![w] = o] /\ UNCHANGED <<home, disk, file, tmp, lock, alive>>
  BY DEF Begin, Becomes, system
<1> HIDE DEF o
<1>3. /\ stored' \in [Keys -> SUBSET Values]
      /\ \A j \in Keys : stored[j] \subseteq stored'[j]
      /\ v \in stored'[k] \cup {NoValue}
  BY StorageAssumption DEF Begin, IInv, TypeOK
<1>4. (kind = "set") = (v \in Values)
  BY DEF Begin
<1>5. TypeOK'
  BY <1>1, <1>2, <1>3 DEF IInv, TypeOK
<1>6. DiskKnown'
  BY <1>2, <1>3, StaysKnown DEF IInv, DiskKnown
<1>7. ASSUME NEW u \in Workers PROVE (KnownOp(u) /\ Locks(u) /\ Intent(u))'
  <2>1. CASE u = w
    <3>1. op'[u] = o
      BY <1>2, <2>1 DEF IInv, TypeOK
    <3>2. Known(NoKeys)'
      BY DEF Known, NoKeys
    <3> QED  BY <1>1, <1>3, <1>4, <3>1, <3>2 DEF KnownOp, Locks, Intent, Writing
  <2>2. CASE u # w
    <3>1. op'[u] = op[u] /\ op[u] \in Op /\ KnownOp(u) /\ Locks(u) /\ Intent(u)
      BY <1>2, <2>2 DEF IInv, TypeOK, ThreadsOK
    <3>2. op[u].key \in Keys
      BY <3>1 DEF Op
    <3>3. KnownOp(u)'
      BY <1>3, <3>1, <3>2, StaysKnown DEF KnownOp
    <3>4. Locks(u)' /\ Intent(u)'
      BY <1>2, <3>1 DEF Locks, Intent, Writing
    <3> QED  BY <3>3, <3>4
  <2> QED  BY <2>1, <2>2
<1>8. AloneOwns'
  BY <1>1, <1>2, OwnershipKept
<1> QED  BY <1>5, <1>6, <1>7, <1>8 DEF IInv, ThreadsOK

LEMMA AcquireKeeps ==
    ASSUME IInv, NEW w \in Workers, Acquire(w)
    PROVE  IInv'
<1> DEFINE o == [op[w] EXCEPT !.phase = "locked"]
<1>0. op[w] \in Op /\ KnownOp(w) /\ Intent(w) /\ op[w].phase = "waiting" /\ home[w] \in Processes
  BY StorageAssumption DEF IInv, TypeOK, ThreadsOK, Acquire, At
<1>1. /\ o \in Op /\ o.kind = op[w].kind /\ o.key = op[w].key /\ o.value = op[w].value
      /\ o.phase = "locked" /\ o.data = op[w].data /\ o.result = op[w].result
  BY <1>0 DEF Op
<1>2. op' = [op EXCEPT ![w] = o] /\ UNCHANGED <<home, disk, file, tmp, alive, stored>>
  BY DEF Acquire, Becomes, bounds
<1> HIDE DEF o
<1>3. lock' = [lock EXCEPT ![home[w]] = w] /\ lock[home[w]] = Nobody
  BY DEF Acquire
<1>4. TypeOK'
  BY <1>0, <1>1, <1>2, <1>3 DEF IInv, TypeOK
<1>5. op'[w] = o /\ lock'[home[w]] = w
  BY <1>0, <1>2, <1>3 DEF IInv, TypeOK
<1>6. (KnownOp(w) /\ Locks(w) /\ Intent(w))'
  BY <1>0, <1>1, <1>2, <1>5 DEF KnownOp, Known, Locks, Intent, Writing
<1>7. \A u \in Workers \ {w} : lock[home[u]] = u => lock'[home[u]] = u
  BY <1>3, StorageAssumption DEF IInv, TypeOK
<1>8. ThreadsOK'
  BY <1>2, <1>6, <1>7, OthersKeep
<1>9. DiskKnown'
  BY <1>2 DEF IInv, DiskKnown, Known
<1>10. AloneOwns'
  <2>1. CASE ~OneProcess
    BY <1>2, <2>1 DEF AloneOwns, OneProcess
  <2>2. CASE OneProcess
    <3>1. op[w].result # "raised"
      BY <2>2 DEF IInv, AloneOwns, OwnsTmp
    <3> QED  BY <1>1, <1>2, <3>1, OwnershipKept
  <2> QED  BY <2>1, <2>2
<1> QED  BY <1>4, <1>8, <1>9, <1>10 DEF IInv

\* Letting the lock go leaves it to those who hold another.
LEMMA ReleaseKeeps ==
    ASSUME IInv, NEW w \in Workers, op[w].phase \notin {"idle", "waiting"}, Release(w)
    PROVE  /\ lock' \in [Processes -> Workers \cup {Nobody}]
           /\ \A u \in Workers \ {w} : lock[home[u]] = u => lock'[home[u]] = u
  BY StorageAssumption DEF IInv, TypeOK, ThreadsOK, Locks, Release

LEMMA GetKeeps ==
    ASSUME IInv, NEW w \in Workers, Get(w)
    PROVE  IInv'
<1> DEFINE value == Parsed[op[w].key]
           o == [op[w] EXCEPT !.phase = "idle", !.result = "ok", !.value = value]
<1>0. op[w] \in Op /\ KnownOp(w) /\ op[w].phase = "locked" /\ op[w].key \in Keys
  BY DEF IInv, TypeOK, ThreadsOK, Get, At, Op
<1>1. value \in Values \cup {NoValue} /\ value \in stored[op[w].key] \cup {NoValue}
  BY <1>0, ParsedIsKnown DEF Contents, Known
<1>2. op' = [op EXCEPT ![w] = o] /\ UNCHANGED <<home, disk, file, tmp, alive, stored>>
  BY DEF Get, Becomes, bounds
<1> HIDE DEF value
<1>3. /\ o \in Op /\ o.key = op[w].key /\ o.value = value
      /\ o.phase = "idle" /\ o.data = op[w].data /\ o.result = "ok"
  BY <1>0, <1>1 DEF Op
<1> HIDE DEF o
<1>4. /\ lock' \in [Processes -> Workers \cup {Nobody}]
      /\ \A u \in Workers \ {w} : lock[home[u]] = u => lock'[home[u]] = u
  BY <1>0, ReleaseKeeps DEF Get
<1>5. TypeOK'
  BY <1>2, <1>3, <1>4 DEF IInv, TypeOK
<1>6. op'[w] = o
  BY <1>2 DEF IInv, TypeOK
<1>7. (KnownOp(w) /\ Locks(w) /\ Intent(w))'
  BY <1>0, <1>1, <1>2, <1>3, <1>6 DEF KnownOp, Known, Locks, Intent, Writing
<1>8. ThreadsOK'
  BY <1>2, <1>4, <1>7, OthersKeep
<1>9. DiskKnown'
  BY <1>2 DEF IInv, DiskKnown, Known
<1>10. AloneOwns'
  BY <1>2, <1>3, OwnershipKept
<1> QED  BY <1>5, <1>8, <1>9, <1>10 DEF IInv

\* The contents a set or a delete writes.
LEMMA ReadAllKeeps ==
    ASSUME IInv, NEW w \in Workers, ReadAll(w)
    PROVE  IInv'
<1> DEFINE data == [Parsed EXCEPT ![op[w].key] = op[w].value]
           o == [op[w] EXCEPT !.phase = "read", !.data = data]
<1>0. /\ op[w] \in Op /\ KnownOp(w) /\ Locks(w) /\ Intent(w)
      /\ op[w].phase = "locked" /\ op[w].kind # "get"
      /\ op[w].key \in Keys /\ op[w].value \in Values \cup {NoValue}
  BY DEF IInv, TypeOK, ThreadsOK, ReadAll, At, Op
<1>1. data \in Contents /\ Known(data)
  BY <1>0, ParsedIsKnown DEF Contents, Known, KnownOp
<1>2. op' = [op EXCEPT ![w] = o]
      /\ UNCHANGED <<home, disk, file, tmp, lock, alive, stored>>
  BY DEF ReadAll, Becomes, bounds, system
<1> HIDE DEF data
<1>3. /\ o \in Op /\ o.key = op[w].key /\ o.value = op[w].value /\ o.kind = op[w].kind
      /\ o.phase = "read" /\ o.data = data /\ o.result = op[w].result
  BY <1>0, <1>1 DEF Op
<1> HIDE DEF o
<1>4. op'[w] = o
  BY <1>2 DEF IInv, TypeOK
<1>5. TypeOK'
  BY <1>2, <1>3 DEF IInv, TypeOK
<1>6. (KnownOp(w) /\ Locks(w) /\ Intent(w))'
  BY <1>0, <1>1, <1>2, <1>3, <1>4 DEF KnownOp, Known, Locks, Intent, Writing
<1>7. ThreadsOK'
  BY <1>2, <1>6, OthersKeep
<1>8. DiskKnown'
  BY <1>2 DEF IInv, DiskKnown, Known
<1>9. AloneOwns'
  <2> SUFFICES ASSUME OneProcess PROVE (tmp # None => tmp # file)' /\ OwnsTmp(w)'
    BY <1>0, <1>2, OthersOwnNothing DEF AloneOwns, OneProcess
  <2>1. (tmp # None => tmp # file) /\ OwnsTmp(w)
    BY DEF IInv, AloneOwns
  <2>2. op'[w].data = [Parsed' EXCEPT ![op'[w].key] = op'[w].value]
    BY <1>2, <1>3, <1>4 DEF data, Parsed
  <2> QED  BY <1>2, <1>3, <1>4, <2>1, <2>2 DEF OwnsTmp
<1> QED  BY <1>5, <1>7, <1>8, <1>9 DEF IInv

LEMMA OpenTmpKeeps ==
    ASSUME IInv, NEW w \in Workers, OpenTmp(w)
    PROVE  IInv' /\ (OneProcess => Parsed' = Parsed)
<1>1. PICK i \in Inodes : /\ IF tmp # None THEN i = tmp ELSE i # file
                          /\ tmp' = i /\ disk' = [disk EXCEPT ![i] = Torn]
                          /\ op' = [op EXCEPT ![w] = [op[w] EXCEPT !.phase = "opened", !.fd = i]]
  BY DEF OpenTmp, Becomes
<1> DEFINE o == [op[w] EXCEPT !.phase = "opened", !.fd = i]
<1>2. UNCHANGED <<home, file, lock, alive, stored>>
  BY DEF OpenTmp, bounds
<1>3. /\ op[w] \in Op /\ KnownOp(w) /\ Locks(w) /\ Intent(w) /\ op[w].phase = "read"
      /\ op[w].kind # "get"
  BY DEF IInv, TypeOK, ThreadsOK, OpenTmp, At, Intent, Writing
<1>4. /\ o \in Op /\ o.key = op[w].key /\ o.value = op[w].value /\ o.kind = op[w].kind
      /\ o.phase = "opened" /\ o.data = op[w].data /\ o.result = op[w].result /\ o.fd = i
  BY <1>3 DEF Op
<1>5. op' = [op EXCEPT ![w] = o]
  BY <1>1
<1> HIDE DEF o
<1>6. op'[w] = o
  BY <1>5 DEF IInv, TypeOK
<1>7. TypeOK'
  BY <1>1, <1>2, <1>4, <1>5, Empty DEF IInv, TypeOK
<1>8. (KnownOp(w) /\ Locks(w) /\ Intent(w))'
  BY <1>2, <1>3, <1>4, <1>6 DEF KnownOp, Known, Locks, Intent, Writing
<1>9. ThreadsOK'
  BY <1>2, <1>5, <1>8, OthersKeep
<1>10. DiskKnown'
  <2> SUFFICES ASSUME NEW j \in Inodes PROVE Known(disk'[j].data)
    BY <1>2 DEF DiskKnown, Known
  <2>1. disk'[j] = disk[j] \/ disk'[j] = Torn
    BY <1>1 DEF IInv, TypeOK
  <2> QED  BY <2>1, Empty DEF IInv, DiskKnown, Torn
<1>11. ASSUME OneProcess PROVE (tmp # None => tmp # file)' /\ OwnsTmp(w)' /\ Parsed' = Parsed
  <2>1. (tmp # None => tmp # file) /\ OwnsTmp(w)
    BY <1>11 DEF IInv, AloneOwns
  <2>2. i # file /\ disk'[i] = Torn
    BY <1>1, <2>1 DEF IInv, TypeOK
  <2>3. Parsed' = Parsed
    BY <1>1, <1>2, <2>2 DEF Parsed, IInv, TypeOK
  <2>4. op'[w].data = [Parsed' EXCEPT ![op'[w].key] = op'[w].value]
    BY <1>3, <1>4, <1>6, <2>1, <2>3 DEF OwnsTmp, Writing
  <2> QED  BY <1>1, <1>2, <1>4, <1>6, <2>1, <2>2, <2>3, <2>4 DEF OwnsTmp
<1>12. AloneOwns'
  BY <1>2, <1>3, <1>5, <1>11, OthersOwnNothing DEF AloneOwns, OneProcess
<1> QED  BY <1>7, <1>9, <1>10, <1>11, <1>12 DEF IInv

LEMMA WriteTmpKeeps ==
    ASSUME IInv, NEW w \in Workers, WriteTmp(w)
    PROVE  IInv' /\ (OneProcess => Parsed' = Parsed)
<1> DEFINE o == [op[w] EXCEPT !.phase = "written", !.fd = None]
<1>1. PICK new \in {Whole(op[w].data)} \cup
                   (IF disk[op[w].fd] = Torn THEN {} ELSE {Torn}) :
        disk' = [disk EXCEPT ![op[w].fd] = new]
  BY DEF WriteTmp
<1>2. op' = [op EXCEPT ![w] = o] /\ UNCHANGED <<home, file, tmp, lock, alive, stored>>
  BY DEF WriteTmp, Becomes, bounds
<1>3. /\ op[w] \in Op /\ KnownOp(w) /\ Locks(w) /\ Intent(w) /\ op[w].phase = "opened"
      /\ op[w].kind # "get"
  BY DEF IInv, TypeOK, ThreadsOK, WriteTmp, At, Intent, Writing
<1>4. /\ o \in Op /\ o.key = op[w].key /\ o.value = op[w].value /\ o.kind = op[w].kind
      /\ o.phase = "written" /\ o.data = op[w].data /\ o.result = op[w].result
  BY <1>3 DEF Op
<1> HIDE DEF o
<1>5. new \in Disk /\ Known(new.data)
  <2>1. op[w].data \in Contents /\ Known(op[w].data)
    BY <1>3 DEF Op, KnownOp
  <2>2. Whole(op[w].data) \in Disk /\ Whole(op[w].data).data = op[w].data
    BY <2>1 DEF Whole, Disk
  <2>3. Torn \in Disk /\ Torn.data = NoKeys /\ Known(NoKeys)
    BY Empty DEF Torn
  <2> QED  BY <2>1, <2>2, <2>3
<1>6. op'[w] = o
  BY <1>2 DEF IInv, TypeOK
<1>7. TypeOK'
  BY <1>1, <1>2, <1>4, <1>5 DEF IInv, TypeOK
<1>8. (KnownOp(w) /\ Locks(w) /\ Intent(w))'
  BY <1>2, <1>3, <1>4, <1>6 DEF KnownOp, Known, Locks, Intent, Writing
<1>9. ThreadsOK'
  BY <1>2, <1>8, OthersKeep
<1>10. DiskKnown'
  <2> SUFFICES ASSUME NEW j \in Inodes PROVE Known(disk'[j].data)
    BY <1>2 DEF DiskKnown, Known
  <2>1. disk'[j] = disk[j] \/ disk'[j] = new
    BY <1>1 DEF IInv, TypeOK
  <2> QED  BY <1>5, <2>1 DEF IInv, DiskKnown
<1>11. ASSUME OneProcess PROVE (tmp # None => tmp # file)' /\ OwnsTmp(w)' /\ Parsed' = Parsed
  <2>1. (tmp # None => tmp # file) /\ OwnsTmp(w)
    BY <1>11 DEF IInv, AloneOwns
  <2>2. tmp = op[w].fd /\ tmp \in Inodes /\ tmp # file /\ disk[tmp] = Torn
    BY <1>3, <2>1 DEF OwnsTmp
  <2>3. disk'[tmp] = Whole(op[w].data)
    BY <1>1, <2>2 DEF IInv, TypeOK
  <2>4. Parsed' = Parsed
    BY <1>1, <1>2, <2>2 DEF Parsed, IInv, TypeOK
  <2>5. op'[w].data = [Parsed' EXCEPT ![op'[w].key] = op'[w].value]
    BY <1>3, <1>4, <1>6, <2>1, <2>4 DEF OwnsTmp, Writing
  <2> QED  BY <1>2, <1>4, <1>6, <2>1, <2>2, <2>3, <2>4, <2>5 DEF OwnsTmp
<1>12. AloneOwns'
  BY <1>2, <1>3, <1>11, OthersOwnNothing DEF AloneOwns, OneProcess
<1> QED  BY <1>7, <1>9, <1>10, <1>11, <1>12 DEF IInv

\* A write that fails leaves a torn temporary file, which is not the file.
LEMMA WriteFailsKeeps ==
    ASSUME IInv, NEW w \in Workers, WriteFails(w)
    PROVE  IInv' /\ (OneProcess => Parsed' = Parsed)
<1> DEFINE o == [op[w] EXCEPT !.phase = "idle", !.fd = None, !.result = "failed"]
<1>1. PICK new \in {Torn, disk[op[w].fd]} : disk' = [disk EXCEPT ![op[w].fd] = new]
  BY DEF WriteFails
<1>2. op' = [op EXCEPT ![w] = o] /\ UNCHANGED <<home, file, tmp, alive, stored>>
  BY DEF WriteFails, Becomes
<1>3. op[w] \in Op /\ KnownOp(w) /\ Intent(w) /\ op[w].phase = "opened"
  BY DEF IInv, TypeOK, ThreadsOK, WriteFails, At
<1>4. /\ o \in Op /\ o.key = op[w].key /\ o.value = op[w].value
      /\ o.phase = "idle" /\ o.data = op[w].data /\ o.result = "failed"
  BY <1>3 DEF Op
<1> HIDE DEF o
<1>5. disk' \in [Inodes -> Disk] /\ \A i \in Inodes : disk'[i] = disk[i] \/ disk'[i] = Torn
  BY <1>1, Empty DEF IInv, TypeOK
<1>6. op'[w] = o
  BY <1>2 DEF IInv, TypeOK
<1>7. /\ lock' \in [Processes -> Workers \cup {Nobody}]
      /\ \A u \in Workers \ {w} : lock[home[u]] = u => lock'[home[u]] = u
  BY <1>3, ReleaseKeeps DEF WriteFails
<1>8. TypeOK'
  BY <1>2, <1>4, <1>5, <1>7 DEF IInv, TypeOK
<1>9. (KnownOp(w) /\ Locks(w) /\ Intent(w))'
  BY <1>2, <1>3, <1>4, <1>6 DEF KnownOp, Known, Locks, Intent, Writing
<1>10. ThreadsOK'
  BY <1>2, <1>7, <1>9, OthersKeep
<1>11. DiskKnown'
  BY <1>2, <1>5, Empty DEF IInv, DiskKnown, Known, Torn
<1>12. ASSUME OneProcess PROVE (tmp # None => tmp # file)' /\ OwnsTmp(w)' /\ Parsed' = Parsed
  <2>1. (tmp # None => tmp # file) /\ tmp = op[w].fd /\ tmp # file
    BY <1>3, <1>12 DEF IInv, AloneOwns, OwnsTmp
  <2>2. Parsed' = Parsed
    BY <1>1, <1>2, <2>1 DEF Parsed, IInv, TypeOK
  <2> QED  BY <1>2, <1>4, <1>6, <2>1, <2>2 DEF OwnsTmp, Writing
<1>13. AloneOwns'
  BY <1>2, <1>3, <1>12, OthersOwnNothing DEF AloneOwns, OneProcess
<1> QED  BY <1>8, <1>10, <1>11, <1>12, <1>13 DEF IInv

\* The rename is the step in which a set or a delete takes effect.
LEMMA ReplaceKeeps ==
    ASSUME IInv, NEW w \in Workers, Replace(w)
    PROVE  /\ IInv'
           /\ OneProcess => Parsed' = [Parsed EXCEPT ![op[w].key] = op[w].value]
<1> DEFINE result == IF tmp = None THEN "raised" ELSE "ok"
           o == [op[w] EXCEPT !.phase = "idle", !.result = result]
<1>1. op' = [op EXCEPT ![w] = o] /\ UNCHANGED <<home, alive, stored>>
  BY DEF Replace, Becomes, bounds
<1>2. /\ op[w] \in Op /\ KnownOp(w) /\ Intent(w) /\ op[w].phase = "written"
  BY DEF IInv, TypeOK, ThreadsOK, Replace, At
<1>3. result \in {"raised", "ok"} /\ (tmp # None => result = "ok")
  OBVIOUS
<1> HIDE DEF result
<1>4. /\ o \in Op /\ o.key = op[w].key /\ o.value = op[w].value
      /\ o.phase = "idle" /\ o.data = op[w].data /\ o.result = result
  BY <1>2, <1>3 DEF Op
<1> HIDE DEF o
<1>5. op'[w] = o
  BY <1>1 DEF IInv, TypeOK
<1>6. /\ lock' \in [Processes -> Workers \cup {Nobody}]
      /\ \A u \in Workers \ {w} : lock[home[u]] = u => lock'[home[u]] = u
  BY <1>2, ReleaseKeeps DEF Replace
<1>7. /\ IF tmp = None THEN UNCHANGED <<file, tmp>> ELSE file' = tmp /\ tmp' = None
      /\ disk' = IF tmp = None \/ file = None THEN disk ELSE [disk EXCEPT ![file] = Torn]
  BY DEF Replace
<1>8. TypeOK'
  BY <1>1, <1>4, <1>6, <1>7, Empty DEF IInv, TypeOK
<1>9. (KnownOp(w) /\ Locks(w) /\ Intent(w))'
  BY <1>1, <1>2, <1>4, <1>5 DEF KnownOp, Known, Locks, Intent, Writing
<1>10. ThreadsOK'
  BY <1>1, <1>6, <1>9, OthersKeep
<1>11. DiskKnown'
  <2> SUFFICES ASSUME NEW j \in Inodes PROVE Known(disk'[j].data)
    BY <1>1 DEF DiskKnown, Known
  <2>1. disk'[j] = disk[j] \/ disk'[j] = Torn
    BY <1>7 DEF IInv, TypeOK
  <2> QED  BY <2>1, Empty DEF IInv, DiskKnown, Torn
<1>12. ASSUME OneProcess
       PROVE  /\ tmp' = None /\ OwnsTmp(w)'
              /\ Parsed' = [Parsed EXCEPT ![op[w].key] = op[w].value]
  <2>1. /\ op[w].data = [Parsed EXCEPT ![op[w].key] = op[w].value]
        /\ tmp \in Inodes /\ tmp # file /\ disk[tmp] = Whole(op[w].data)
    BY <1>2, <1>12 DEF IInv, AloneOwns, OwnsTmp, Writing
  <2>2. tmp # None
    BY <2>1, StorageAssumption
  <2>3. file' = tmp /\ tmp' = None /\ disk'[tmp] = disk[tmp]
    BY <1>7, <2>1, <2>2 DEF IInv, TypeOK
  <2>4. Parsed' = op[w].data
    BY <2>1, <2>2, <2>3 DEF Parsed, Whole
  <2> QED  BY <1>3, <1>4, <1>5, <2>1, <2>2, <2>3, <2>4 DEF OwnsTmp, Writing
<1>13. AloneOwns'
  BY <1>1, <1>2, <1>12, OthersOwnNothing DEF AloneOwns, OneProcess
<1> QED  BY <1>8, <1>10, <1>11, <1>12, <1>13 DEF IInv

LEMMA KillKeeps ==
    ASSUME IInv, NEW p \in Processes, Kill(p)
    PROVE  IInv'
<1>1. /\ op' = [w \in Workers |-> IF home[w] = p THEN Idle ELSE op[w]]
      /\ lock' = [lock EXCEPT ![p] = Nobody] /\ alive' = alive \ {p}
      /\ UNCHANGED <<home, disk, file, tmp, stored>>
  BY DEF Kill
<1>2. TypeOK'
  BY <1>1, Empty DEF IInv, TypeOK
<1>3. /\ Idle.phase = "idle" /\ Idle.data = NoKeys /\ Idle.value = NoValue
      /\ Idle.result = "none"
  BY DEF Idle
<1>4. ThreadsOK'
  <2> SUFFICES ASSUME NEW u \in Workers PROVE (KnownOp(u) /\ Locks(u) /\ Intent(u))'
    BY DEF ThreadsOK
  <2>1. CASE home[u] = p
    <3>1. op'[u] = Idle /\ Known(NoKeys)'
      BY <1>1, <2>1 DEF Known, NoKeys
    <3> QED  BY <1>3, <3>1 DEF KnownOp, Locks, Intent, Writing
  <2>2. CASE home[u] # p
    <3>1. op'[u] = op[u] /\ KnownOp(u) /\ Locks(u) /\ Intent(u)
      BY <1>1, <2>2 DEF IInv, ThreadsOK
    <3>2. home[u] \in Processes
      BY StorageAssumption DEF IInv, TypeOK
    <3>3. lock'[home[u]] = lock[home[u]]
      BY <1>1, <2>2, <3>2 DEF IInv, TypeOK
    <3> QED  BY <1>1, <3>1, <3>3 DEF KnownOp, Known, Locks, Intent, Writing
  <2> QED  BY <2>1, <2>2
<1>5. DiskKnown'
  BY <1>1 DEF IInv, DiskKnown, Known
<1>6. AloneOwns'
  <2>0. OneProcess' = OneProcess /\ (OneProcess => (tmp # None => tmp # file))
    BY <1>1 DEF OneProcess, IInv, AloneOwns
  <2> SUFFICES ASSUME OneProcess, NEW u \in Workers PROVE OwnsTmp(u)'
    BY <1>1, <2>0 DEF AloneOwns
  <2>1. OwnsTmp(u)
    BY DEF IInv, AloneOwns
  <2>2. CASE home[u] = p
    <3>1. op'[u] = Idle
      BY <1>1, <2>2
    <3> QED  BY <1>3, <2>1, <3>1 DEF OwnsTmp, Writing
  <2>3. CASE home[u] # p
    <3>1. op'[u] = op[u]
      BY <1>1, <2>3
    <3> QED  BY <1>1, <2>1, <3>1 DEF OwnsTmp, Writing, Parsed
  <2> QED  BY <2>1, <2>2, <2>3
<1> QED  BY <1>2, <1>4, <1>5, <1>6 DEF IInv

\* A step that changes none of what the invariant is about.
LEMMA SameKeeps ==
    ASSUME IInv, UNCHANGED <<home, disk, file, tmp, lock, op, stored>>, alive' \subseteq Processes
    PROVE  IInv'
<1>1. TypeOK'
  BY DEF IInv, TypeOK
<1>2. ThreadsOK' /\ DiskKnown'
  BY DEF IInv, ThreadsOK, DiskKnown, KnownOp, Known, Locks, Intent, Writing
<1>3. AloneOwns'
  BY DEF IInv, AloneOwns, OneProcess, OwnsTmp, Writing, Parsed
<1> QED  BY <1>1, <1>2, <1>3 DEF IInv

-----------------------------------------------------------------------------
LEMMA InitIInv == Init => IInv
<1> SUFFICES ASSUME Init PROVE IInv
  OBVIOUS
<1>1. TypeOK
  <2>1. alive \subseteq Processes
    BY StorageAssumption DEF Init
  <2> QED  BY <2>1, Empty DEF Init, TypeOK
<1>2. ASSUME NEW w \in Workers
      PROVE  op[w].phase = "idle" /\ op[w].data = NoKeys /\ op[w].value = NoValue
             /\ op[w].result = "none"
  BY DEF Init, Idle
<1>3. ThreadsOK
  BY <1>2, Empty DEF ThreadsOK, KnownOp, Locks, Intent, Writing
<1>4. DiskKnown
  BY Empty DEF Init, DiskKnown, Torn
<1>5. AloneOwns
  BY <1>2 DEF Init, AloneOwns, OwnsTmp, Writing
<1> QED  BY <1>1, <1>3, <1>4, <1>5 DEF IInv

\* The invariant holds in every reachable state.
THEOREM Invariant == Spec => []IInv
<1>1. IInv /\ [Next]_vars => IInv'
  <2> SUFFICES ASSUME IInv, [Next]_vars PROVE IInv'
    OBVIOUS
  <2>1. CASE \E w \in Workers, kind \in Kinds, k \in Keys, v \in Values \cup {NoValue} :
               Begin(w, kind, k, v)
    BY <2>1, BeginKeeps
  <2>2. CASE \E w \in Workers : Work(w)
    BY <2>2, AcquireKeeps, GetKeeps, ReadAllKeeps, OpenTmpKeeps, WriteTmpKeeps,
       WriteFailsKeeps, ReplaceKeeps DEF Work
  <2>3. CASE \E p \in Processes : Kill(p)
    BY <2>3, KillKeeps
  <2>4. CASE \E p \in Processes : Restart(p)
    BY <2>4, SameKeeps DEF Restart, bounds, IInv, TypeOK
  <2>5. CASE UNCHANGED vars
    BY <2>5, SameKeeps DEF vars, IInv, TypeOK
  <2> QED  BY <2>1, <2>2, <2>3, <2>4, <2>5 DEF Next
<1> QED  BY <1>1, InitIInv, PTL DEF Spec

\* Disk, names, locks and operations are well formed in every state.
THEOREM TypeCorrect == Spec => []TypeOK
<1>1. IInv => TypeOK
  BY DEF IInv
<1> QED  BY <1>1, Invariant, PTL

\* get returns a value that was set for its key, whatever two processes do to
\* the temporary file; and only another process makes a rename fail
\* (FileStorage.get, _write_all).
THEOREM Outcomes == Spec => []OutcomesExplained
<1>1. IInv => OutcomesExplained
  BY DEF IInv, ThreadsOK, KnownOp, AloneOwns, OwnsTmp, OutcomesExplained
<1> QED  BY <1>1, Invariant, PTL

-----------------------------------------------------------------------------
\* A step of the threads of one process maps to a step of the map or to none.
LEMMA StepsMap ==
    ASSUME IInv, OneProcess, Next
    PROVE  \/ Parsed' = Parsed
           \/ \E k \in Keys, v \in Values \cup {NoValue} : Parsed' = [Parsed EXCEPT ![k] = v]
<1>1. CASE \E w \in Workers, kind \in Kinds, k \in Keys, v \in Values \cup {NoValue} :
             Begin(w, kind, k, v)
  BY <1>1 DEF Begin, system, Parsed
<1>2. ASSUME NEW w \in Workers, Acquire(w) \/ Get(w) \/ ReadAll(w)
      PROVE  Parsed' = Parsed
  BY <1>2 DEF Acquire, Get, ReadAll, system, Parsed
<1>3. ASSUME NEW w \in Workers, OpenTmp(w) \/ WriteTmp(w) \/ WriteFails(w)
      PROVE  Parsed' = Parsed
  BY <1>3, OpenTmpKeeps, WriteTmpKeeps, WriteFailsKeeps
<1>4. ASSUME NEW w \in Workers, Replace(w)
      PROVE  \E k \in Keys, v \in Values \cup {NoValue} : Parsed' = [Parsed EXCEPT ![k] = v]
  <2>1. op[w].key \in Keys /\ op[w].value \in Values \cup {NoValue}
    BY DEF IInv, TypeOK, Op
  <2> QED  BY <1>4, <2>1, ReplaceKeeps
<1>5. CASE \E p \in Processes : Kill(p) \/ Restart(p)
  BY <1>5 DEF Kill, Restart, Parsed
<1> QED  BY <1>1, <1>2, <1>3, <1>4, <1>5 DEF Next, Work

\* The file is a map for the threads of one process: each set and delete takes
\* effect at once, at its rename, or never (_write_all, os.replace).
THEOREM FileIsMap == Spec => ImplementsMap
<1> DEFINE map == IF OneProcess THEN Parsed ELSE NoKeys
<1>1. Init => Map!Init
  BY DEF Init, Map!Init, Parsed, NoKeys
<1>2. IInv /\ [Next]_vars => [Map!Next]_map
  <2> SUFFICES ASSUME IInv, [Next]_vars PROVE Map!Next \/ map' = map
    OBVIOUS
  <2>1. OneProcess' = OneProcess
    <3>1. home' = home
      BY DEF Next, Begin, Work, Acquire, Get, ReadAll, OpenTmp, WriteTmp, WriteFails, Replace,
             Kill, Restart, vars, system
    <3> QED  BY <3>1 DEF OneProcess
  <2>2. CASE ~OneProcess
    BY <2>1, <2>2 DEF NoKeys
  <2>3. CASE OneProcess /\ Next
    <3>1. CASE Parsed' = Parsed
      BY <2>1, <2>3, <3>1
    <3>2. ASSUME NEW k \in Keys, NEW v \in Values \cup {NoValue},
                 Parsed' = [Parsed EXCEPT ![k] = v]
          PROVE  Map!Next
      <4>1. map' = [map EXCEPT ![k] = v]
        BY <2>1, <2>3, <3>2
      <4>2. CASE v \in Values
        BY <4>1, <4>2 DEF Map!Next, Map!Set
      <4>3. CASE v = NoValue
        BY <4>1, <4>3 DEF Map!Next, Map!Delete
      <4> QED  BY <4>2, <4>3
    <3> QED  BY <2>3, <3>1, <3>2, StepsMap
  <2>4. CASE OneProcess /\ UNCHANGED vars
    BY <2>1, <2>4 DEF vars, Parsed
  <2> QED  BY <2>2, <2>3, <2>4
<1> QED  BY <1>1, <1>2, Invariant, PTL DEF Spec, ImplementsMap, Map!Spec
=============================================================================
