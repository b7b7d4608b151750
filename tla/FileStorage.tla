---------------------------- MODULE FileStorage ----------------------------
(***************************************************************************)
(* FileStorage (sdk/disc_sdk/storage.py): the JSON file in which the CLI   *)
(* keeps its cache.  A write reads the whole file, writes the new contents *)
(* to <file>.tmp and replaces the file.  The lock belongs to the object:   *)
(* the threads that share one are serial, processes are not.  Their system *)
(* calls interleave, and a process may be killed between any two.          *)
(***************************************************************************)
EXTENDS Naturals, FiniteSets

CONSTANTS Workers,    \* threads that use the storage
          Processes,  \* processes that use the file: each has its object and lock
          Homes,      \* the ways the threads may be spread over the processes
          Keys, Values,
          NoValue,    \* the key is not in the file
          Inodes, None, \* the files on the disk; no file
          Nobody,     \* the lock is free
          MaxOps,     \* bound: operations begun
          MaxKills    \* bound: processes killed, writes that fail

ASSUME StorageAssumption ==
    /\ Homes \subseteq [Workers -> Processes]
    /\ Keys # {} /\ NoValue \notin Values /\ None \notin Inodes /\ Nobody \notin Workers
    /\ MaxOps \in Nat /\ MaxKills \in Nat

Contents == [Keys -> Values \cup {NoValue}]
NoKeys == [k \in Keys |-> NoValue]

\* What an inode holds: a JSON object, or bytes that are not one ("torn").
Disk == [state : {"torn", "whole"}, data : Contents]
Torn == [state |-> "torn", data |-> NoKeys]
Whole(c) == [state |-> "whole", data |-> c]

VARIABLES home,   \* the process of each thread
          disk,   \* what each inode holds
          file,   \* the inode of the path, or None
          tmp,    \* the inode of <path>.tmp, or None
          lock,   \* who holds the lock of each process
          alive,  \* the processes that run
          op,     \* the operation of each worker
          stored, \* history: the values set was called with, for each key
          ops, kills

vars == <<home, disk, file, tmp, lock, alive, op, stored, ops, kills>>
bounds == <<stored, ops, kills>>
system == <<home, disk, file, tmp, lock, alive>>

Kinds == {"get", "set", "delete"}
Op == [kind : Kinds, key : Keys, value : Values \cup {NoValue},
       phase : {"idle", "waiting", "locked", "read", "opened", "written"},
       data : Contents, fd : Inodes \cup {None},
       result : {"none", "ok", "raised", "failed"}]

Idle == [kind |-> "get", key |-> CHOOSE k \in Keys : TRUE, value |-> NoValue,
         phase |-> "idle", data |-> NoKeys, fd |-> None, result |-> "none"]

At(w, phase) == op[w].phase = phase /\ home[w] \in alive
Becomes(w, o) == op' = [op EXCEPT ![w] = o]
Release(w) == lock' = [lock EXCEPT ![home[w]] = Nobody]

\* _read_all: a file that is not there or does not parse reads as empty.
Parsed == IF file = None THEN NoKeys ELSE disk[file].data

-----------------------------------------------------------------------------
Init == /\ home \in Homes
        /\ disk = [i \in Inodes |-> Torn]
        /\ file = None /\ tmp = None
        /\ lock = [p \in Processes |-> Nobody]
        /\ alive = {home[w] : w \in Workers}
        /\ op = [w \in Workers |-> Idle]
        /\ stored = [k \in Keys |-> {}]
        /\ ops = 0 /\ kills = 0

Begin(w, kind, k, v) ==
    /\ At(w, "idle")
    /\ ops < MaxOps /\ ops' = ops + 1
    /\ (kind = "set") = (v \in Values)
    /\ Becomes(w, [Idle EXCEPT !.kind = kind, !.key = k, !.value = v, !.phase = "waiting"])
    /\ stored' = IF kind = "set" THEN [stored EXCEPT ![k] = @ \cup {v}] ELSE stored
    /\ UNCHANGED <<system, kills>>

\* Faulty variant: nothing is locked.
AcquireNothing(w) == /\ At(w, "waiting")
                     /\ Becomes(w, [op[w] EXCEPT !.phase = "locked"])
                     /\ UNCHANGED <<system, bounds>>

Acquire(w) == /\ At(w, "waiting")
              /\ lock[home[w]] = Nobody
              /\ lock' = [lock EXCEPT ![home[w]] = w]
              /\ Becomes(w, [op[w] EXCEPT !.phase = "locked"])
              /\ UNCHANGED <<home, disk, file, tmp, alive, bounds>>

Get(w) == /\ At(w, "locked") /\ op[w].kind = "get"
          /\ Becomes(w, [op[w] EXCEPT !.phase = "idle", !.result = "ok",
                                      !.value = Parsed[op[w].key]])
          /\ Release(w)
          /\ UNCHANGED <<home, disk, file, tmp, alive, bounds>>

\* Faulty variant: only the key written is kept.
ReadAllSparse(w) ==
    /\ At(w, "locked") /\ op[w].kind # "get"
    /\ Becomes(w, [op[w] EXCEPT !.phase = "read",
                                !.data = [k \in {op[w].key} |-> op[w].value]])
    /\ UNCHANGED <<system, bounds>>

\* Faulty variant: the value goes to every key.
ReadAllSpread(w) ==
    /\ At(w, "locked") /\ op[w].kind # "get"
    /\ Becomes(w, [op[w] EXCEPT !.phase = "read", !.data = [k \in Keys |-> op[w].value]])
    /\ UNCHANGED <<system, bounds>>

\* set and delete: read everything and change one key of it.
ReadAll(w) == /\ At(w, "locked") /\ op[w].kind # "get"
              /\ Becomes(w, [op[w] EXCEPT !.phase = "read",
                               !.data = [Parsed EXCEPT ![op[w].key] = op[w].value]])
              /\ UNCHANGED <<system, bounds>>

\* write_text opens the temporary file: it is emptied, or created.
OpenTmp(w) ==
    /\ At(w, "read")
    /\ \E i \in Inodes :
         /\ IF tmp # None THEN i = tmp
            ELSE i # file /\ \A u \in Workers : op[u].fd # i
         /\ tmp' = i
         /\ disk' = [disk EXCEPT ![i] = Torn]
         /\ Becomes(w, [op[w] EXCEPT !.phase = "opened", !.fd = i])
    /\ UNCHANGED <<home, file, lock, alive, bounds>>

\* The text goes to the inode that was opened, whatever its name is by now;
\* over another text it may leave the end of that one.
WriteTmp(w) ==
    /\ At(w, "opened")
    /\ \E new \in {Whole(op[w].data)} \cup
                  (IF disk[op[w].fd] = Torn THEN {} ELSE {Torn}) :
         disk' = [disk EXCEPT ![op[w].fd] = new]
    /\ Becomes(w, [op[w] EXCEPT !.phase = "written", !.fd = None])
    /\ UNCHANGED <<home, file, tmp, lock, alive, bounds>>

\* The disk is full: the text is cut short, or not begun, and write_text raises.
\* The temporary file stays as it is.
WriteFails(w) ==
    /\ At(w, "opened")
    /\ kills < MaxKills /\ kills' = kills + 1
    /\ \E new \in {Torn, disk[op[w].fd]} : disk' = [disk EXCEPT ![op[w].fd] = new]
    /\ Becomes(w, [op[w] EXCEPT !.phase = "idle", !.fd = None, !.result = "failed"])
    /\ Release(w)
    /\ UNCHANGED <<home, file, tmp, alive, stored, ops>>

\* os.replace, which raises when the temporary file is gone.  The inode it
\* replaces has no name any more: what it holds is never read again.
Replace(w) ==
    /\ At(w, "written")
    /\ IF tmp = None THEN UNCHANGED <<file, tmp>>
       ELSE file' = tmp /\ tmp' = None
    /\ disk' = IF tmp = None \/ file = None THEN disk ELSE [disk EXCEPT ![file] = Torn]
    /\ Becomes(w, [op[w] EXCEPT !.phase = "idle",
                                !.result = IF tmp = None THEN "raised" ELSE "ok"])
    /\ Release(w)
    /\ UNCHANGED <<home, alive, bounds>>

\* A process is killed: the disk stays as it is.  It may be started again.
Kill(p) == /\ p \in alive /\ kills < MaxKills /\ kills' = kills + 1
           /\ alive' = alive \ {p}
           /\ op' = [w \in Workers |-> IF home[w] = p THEN Idle ELSE op[w]]
           /\ lock' = [lock EXCEPT ![p] = Nobody]
           /\ UNCHANGED <<home, disk, file, tmp, stored, ops>>

Restart(p) == /\ p \notin alive /\ \E w \in Workers : home[w] = p
              /\ alive' = alive \cup {p}
              /\ UNCHANGED <<home, disk, file, tmp, lock, op, bounds>>

Work(w) == \/ Acquire(w) \/ Get(w) \/ ReadAll(w)
           \/ OpenTmp(w) \/ WriteTmp(w) \/ WriteFails(w) \/ Replace(w)

Next == \/ \E w \in Workers, kind \in Kinds, k \in Keys, v \in Values \cup {NoValue} :
             Begin(w, kind, k, v)
        \/ \E w \in Workers : Work(w)
        \/ \E p \in Processes : Kill(p) \/ Restart(p)

Spec == Init /\ [][Next]_vars

-----------------------------------------------------------------------------
TypeOK == /\ home \in Homes
          /\ disk \in [Inodes -> Disk]
          /\ file \in Inodes \cup {None} /\ tmp \in Inodes \cup {None}
          /\ lock \in [Processes -> Workers \cup {Nobody}]
          /\ alive \subseteq Processes
          /\ op \in [Workers -> Op]
          /\ stored \in [Keys -> SUBSET Values]

OneProcess == \A u, w \in Workers : home[u] = home[w]

\* get returns None or a value that was set for that very key, even while two
\* processes truncate, fill and rename the same temporary file.  The rename of
\* set or delete fails for want of that file only when another process took it
\* away: never because of a kill, a full disk or another thread.
OutcomesExplained ==
    \A w \in Workers :
        /\ op[w].kind = "get" /\ op[w].result = "ok" =>
             op[w].value \in stored[op[w].key] \cup {NoValue}
        /\ op[w].result = "raised" => ~OneProcess

\* For the threads of one process, killed and restarted at any point, and over
\* writes that fail half way, the file is a map in which each set and delete takes effect at once or never: no
\* update is lost, none is half done.
Map == INSTANCE StorageMap WITH map <- IF OneProcess THEN Parsed ELSE NoKeys
ImplementsMap == Map!Spec
=============================================================================
