----------------------------- MODULE DaemonLock -----------------------------
(***************************************************************************)
(* tryLock and staleLock (internal/cron/daemon.go): the file .daemon.lock  *)
(* that is to keep a second scheduler daemon from starting, one system     *)
(* call per step, with several starters, crashes and restarts.             *)
(***************************************************************************)
EXTENDS Naturals, FiniteSets

CONSTANTS
    Pids,       \* process ids; a new process may get the id of a dead one
    NoFile,     \* .daemon.lock does not exist
    Empty,      \* it exists and its pid has not been written yet
    MaxCrashes  \* bound on crashes

VARIABLES
    file,       \* what a reader of .daemon.lock sees
    pc,         \* where each process is in tryLock
    mine,       \* mine[p]: the directory entry is the file that p created
    crashes     \* crashes so far

lvars == <<file, pc, mine, crashes>>

Steps == {"off", "create", "write", "check", "remove", "recreate",
          "running", "refused"}

LInit ==
    /\ file = NoFile
    /\ pc = [p \in Pids |-> "off"]
    /\ mine = [p \in Pids |-> FALSE]
    /\ crashes = 0

Go(p, from, to) == pc[p] = from /\ pc' = [pc EXCEPT ![p] = to]

Alive(p) == pc[p] # "off"

StartDaemon(p) ==
    /\ Go(p, "off", "create")
    /\ UNCHANGED <<file, mine, crashes>>

\* O_CREATE|O_EXCL: succeeds only when there is no such file.
Creates(p) ==
    /\ file = NoFile
    /\ file' = Empty
    /\ mine' = [q \in Pids |-> q = p]
    /\ UNCHANGED crashes

Create(p) == Go(p, "create", "write") /\ Creates(p)

CreateFails(p) ==
    /\ Go(p, "create", "check")
    /\ file # NoFile
    /\ UNCHANGED <<file, mine, crashes>>

\* The pid goes to the file p has open, which may be linked no more.
WritePid(p) ==
    /\ Go(p, "write", "running")
    /\ file' = IF mine[p] THEN p ELSE file
    /\ UNCHANGED <<mine, crashes>>

\* staleLock: empty, or the pid of another process that is dead.
Stale(p) ==
    \/ file = Empty
    \/ file \in Pids \ {p} /\ ~Alive(file)

FindStale(p) ==
    /\ Go(p, "check", "remove")
    /\ Stale(p)
    /\ UNCHANGED <<file, mine, crashes>>

\* An unreadable (or vanished) file counts as held.
FindHeld(p) ==
    /\ Go(p, "check", "refused")
    /\ ~Stale(p)
    /\ UNCHANGED <<file, mine, crashes>>

\* os.Remove takes the name away, whoever has created the file since.
RemovesFile ==
    /\ file' = NoFile
    /\ mine' = [p \in Pids |-> FALSE]
    /\ UNCHANGED crashes

Remove(p) == Go(p, "remove", "recreate") /\ RemovesFile

Recreate(p) == Go(p, "recreate", "write") /\ Creates(p)

RecreateFails(p) ==
    /\ Go(p, "recreate", "refused")
    /\ file # NoFile
    /\ UNCHANGED <<file, mine, crashes>>

\* Run returns: the deferred unlock removes the lock by name.
Unlock(p) == Go(p, "running", "off") /\ RemovesFile

GiveUp(p) ==
    /\ Go(p, "refused", "off")
    /\ UNCHANGED <<file, mine, crashes>>

CrashDaemon(p) ==
    /\ crashes < MaxCrashes
    /\ crashes' = crashes + 1
    /\ Alive(p)
    /\ pc' = [pc EXCEPT ![p] = "off"]
    /\ UNCHANGED <<file, mine>>

LNext == \E p \in Pids :
    \/ StartDaemon(p) \/ Create(p) \/ CreateFails(p) \/ WritePid(p)
    \/ FindStale(p) \/ FindHeld(p) \/ Remove(p) \/ Recreate(p)
    \/ RecreateFails(p) \/ Unlock(p) \/ GiveUp(p) \/ CrashDaemon(p)

LockSpec == LInit /\ [][LNext]_lvars

-----------------------------------------------------------------------------
\* daemon.go, lockPath: while .daemon.lock exists, a second daemon does not
\* start.
OneDaemon == Cardinality({p \in Pids : pc[p] = "running"}) <= 1
=============================================================================
