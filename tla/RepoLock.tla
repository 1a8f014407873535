------------------------------ MODULE RepoLock ------------------------------
(***************************************************************************)
(* RepoLocker.WithLock of                                                  *)
(* internal/adapters/outbound/gitrepo/checkout.go, for one repository: a   *)
(* token per process serialises the goroutines of a process, a lock file   *)
(* created with O_EXCL serialises the processes.  A process may crash and  *)
(* leave its file behind; a file of a certain age is taken for abandoned   *)
(* and removed by whoever meets it.                                        *)
(*                                                                         *)
(* A caller's position is its pc:                                          *)
(*   idle      not in WithLock                                             *)
(*   local     in the select of acquireLocal                               *)
(*   open      about to create the lock file                               *)
(*   created   created it, about to write the metadata                     *)
(*   stat      found it taken, about to look at its age                    *)
(*   remove    found it stale, about to remove it                          *)
(*   poll      in the select of acquireFilesystemLock                      *)
(*   inside    runs fn                                                     *)
(*   unlink    about to remove the lock file it created                    *)
(*   leave     about to put the token back                                 *)
(***************************************************************************)
EXTENDS Naturals

CONSTANTS
    Callers,      \* goroutines that call WithLock
    Processes,
    ProcessOf,    \* the process a goroutine runs in
    SlowHolders,  \* whether fn may take longer than repoLockStaleAfter
    MaxCrashes,   \* bound of the model
    Nobody        \* the creator of a file whose process is gone

ASSUME LockAssumption ==
    /\ ProcessOf \in [Callers -> Processes]
    /\ SlowHolders \in BOOLEAN
    /\ MaxCrashes \in Nat
    /\ Nobody \notin Callers

VARIABLES
    token,     \* whether the local channel of a process holds its token
    lockFile,  \* the lock file on disk
    pc,
    expired,   \* whether the acquire timeout of a caller has passed
    crashes    \* crashes so far

vars == <<token, lockFile, pc, expired, crashes>>

Files == [creator : Callers \union {Nobody}, exists : BOOLEAN, stale : BOOLEAN]
NoFile == [creator |-> Nobody, exists |-> FALSE, stale |-> FALSE]

FileOf(c) == [creator |-> c, exists |-> TRUE, stale |-> FALSE]

States == {"idle", "local", "open", "created", "stat", "remove", "poll",
           "inside", "unlink", "leave"}

\* A caller in one of these states has taken the token of its process; in one of
\* the Owning states it has also created a lock file and not yet removed it.
HasToken == States \ {"idle", "local"}
Owning == {"created", "inside", "unlink"}

Init ==
    /\ token = [p \in Processes |-> TRUE]
    /\ lockFile = NoFile
    /\ pc = [c \in Callers |-> "idle"]
    /\ expired = [c \in Callers |-> FALSE]
    /\ crashes = 0

Goto(c, from, to) ==
    /\ pc[c] = from
    /\ pc' = [pc EXCEPT ![c] = to]

-----------------------------------------------------------------------------
\* acquireLocal

Call(c) ==
    /\ Goto(c, "idle", "local")
    /\ expired' = [expired EXCEPT ![c] = FALSE]
    /\ UNCHANGED <<token, lockFile, crashes>>

TakeToken(c) ==
    /\ token[ProcessOf[c]]
    /\ Goto(c, "local", "open")
    /\ token' = [token EXCEPT ![ProcessOf[c]] = FALSE]
    /\ UNCHANGED <<lockFile, expired, crashes>>

LocalTimeout(c) ==
    /\ expired[c]
    /\ Goto(c, "local", "idle")
    /\ UNCHANGED <<token, lockFile, expired, crashes>>

-----------------------------------------------------------------------------
\* acquireFilesystemLock

OpenCreates(c) ==
    /\ ~lockFile.exists
    /\ Goto(c, "open", "created")
    /\ lockFile' = FileOf(c)
    /\ UNCHANGED <<token, expired, crashes>>

\* Mutant of OpenExists: a file that exists is opened without O_EXCL.
OpenSharesFile(c) ==
    /\ lockFile.exists
    /\ Goto(c, "open", "created")
    /\ UNCHANGED <<token, lockFile, expired, crashes>>

OpenExists(c) ==
    /\ lockFile.exists
    /\ Goto(c, "open", "stat")
    /\ UNCHANGED <<token, lockFile, expired, crashes>>

\* Any other error of OpenFile.
OpenFails(c) ==
    /\ Goto(c, "open", "leave")
    /\ UNCHANGED <<token, lockFile, expired, crashes>>

MetadataWritten(c) ==
    /\ Goto(c, "created", "inside")
    /\ UNCHANGED <<token, lockFile, expired, crashes>>

\* Mutant of MetadataFails: the half-written lock file stays.
MetadataFailsLeakingFile(c) ==
    /\ Goto(c, "created", "leave")
    /\ UNCHANGED <<token, lockFile, expired, crashes>>

MetadataFails(c) ==
    /\ Goto(c, "created", "leave")
    /\ lockFile' = NoFile
    /\ UNCHANGED <<token, expired, crashes>>

\* removeStaleFilesystemLock, first half: what os.Stat saw.
StatSeesStale(c) ==
    /\ lockFile.exists /\ lockFile.stale
    /\ Goto(c, "stat", "remove")
    /\ UNCHANGED <<token, lockFile, expired, crashes>>

StatSeesFreshOrNone(c) ==
    /\ ~(lockFile.exists /\ lockFile.stale)
    /\ Goto(c, "stat", "poll")
    /\ UNCHANGED <<token, lockFile, expired, crashes>>

\* Second half: os.Remove takes whatever file bears the name by now.
RemoveStale(c) ==
    /\ lockFile.exists
    /\ Goto(c, "remove", "open")
    /\ lockFile' = NoFile
    /\ UNCHANGED <<token, expired, crashes>>

RemoveFindsNone(c) ==
    /\ ~lockFile.exists
    /\ Goto(c, "remove", "poll")
    /\ UNCHANGED <<token, lockFile, expired, crashes>>

Tick(c) ==
    /\ Goto(c, "poll", "open")
    /\ UNCHANGED <<token, lockFile, expired, crashes>>

\* Mutant of FileTimeout: an expired context does not end the loop.
FileTimeoutPolls(c) ==
    /\ expired[c]
    /\ Goto(c, "poll", "open")
    /\ UNCHANGED <<token, lockFile, expired, crashes>>

FileTimeout(c) ==
    /\ expired[c]
    /\ Goto(c, "poll", "leave")
    /\ UNCHANGED <<token, lockFile, expired, crashes>>

-----------------------------------------------------------------------------
\* fn and the deferred releases, in the order the defers run

Return(c) ==
    /\ Goto(c, "inside", "unlink")
    /\ UNCHANGED <<token, lockFile, expired, crashes>>

\* The release removes the file by name, whoever created it.
Unlink(c) ==
    /\ Goto(c, "unlink", "leave")
    /\ lockFile' = NoFile
    /\ UNCHANGED <<token, expired, crashes>>

Leave(c) ==
    /\ Goto(c, "leave", "idle")
    /\ token' = [token EXCEPT ![ProcessOf[c]] = TRUE]
    /\ UNCHANGED <<lockFile, expired, crashes>>

-----------------------------------------------------------------------------
\* Time and crashes

\* The acquire timeout runs while the caller waits.
Expire(c) ==
    /\ pc[c] # "idle" /\ ~expired[c]
    /\ expired' = [expired EXCEPT ![c] = TRUE]
    /\ UNCHANGED <<token, lockFile, pc, crashes>>

\* repoLockStaleAfter passes.  A live caller keeps its file for less than that,
\* unless fn is slower than its attempt timeout allows.
Age ==
    /\ lockFile.exists /\ ~lockFile.stale
    /\ lockFile.creator = Nobody \/ SlowHolders
    /\ lockFile' = [lockFile EXCEPT !.stale = TRUE]
    /\ UNCHANGED <<token, pc, expired, crashes>>

\* A process dies and is started again: its goroutines and its token are new,
\* its lock file is still on disk.
Crash(p) ==
    /\ crashes < MaxCrashes
    /\ crashes' = crashes + 1
    /\ pc' = [c \in Callers |-> IF ProcessOf[c] = p THEN "idle" ELSE pc[c]]
    /\ expired' = [c \in Callers |-> IF ProcessOf[c] = p THEN FALSE ELSE expired[c]]
    /\ token' = [token EXCEPT ![p] = TRUE]
    /\ lockFile' = IF lockFile.exists /\ lockFile.creator # Nobody
                      /\ ProcessOf[lockFile.creator] = p
                   THEN [lockFile EXCEPT !.creator = Nobody] ELSE lockFile

-----------------------------------------------------------------------------
Timeout(c) == LocalTimeout(c) \/ FileTimeout(c)

Step(c) ==
    \/ TakeToken(c) \/ LocalTimeout(c)
    \/ OpenCreates(c) \/ OpenExists(c) \/ OpenFails(c)
    \/ MetadataWritten(c) \/ MetadataFails(c)
    \/ StatSeesStale(c) \/ StatSeesFreshOrNone(c)
    \/ RemoveStale(c) \/ RemoveFindsNone(c) \/ Tick(c) \/ FileTimeout(c)
    \/ Return(c) \/ Unlink(c) \/ Leave(c)

Next ==
    \/ \E c \in Callers : Call(c) \/ Step(c) \/ Expire(c)
    \/ Age
    \/ \E p \in Processes : Crash(p)

Spec == Init /\ [][Next]_vars

\* A goroutine that can step does, fn returns, the timeout fires; a select that
\* is offered an expired context again and again takes it at last.  Nothing
\* obliges a caller to come or a process to crash.
Fairness ==
    \A c \in Callers :
        WF_vars(Step(c)) /\ WF_vars(Expire(c)) /\ SF_vars(Timeout(c))

FairSpec == Spec /\ Fairness

-----------------------------------------------------------------------------
\* Every variable keeps its shape.
TypeOK ==
    /\ token \in [Processes -> BOOLEAN]
    /\ lockFile \in Files
    /\ pc \in [Callers -> States]
    /\ expired \in [Callers -> BOOLEAN]
    /\ crashes \in 0 .. MaxCrashes

\* Two goroutines of one process never run fn at the same time, whatever happens
\* to the lock file: the token of acquireLocal excludes them.
InProcessExclusion ==
    \A c, d \in Callers :
        c # d /\ pc[c] = "inside" /\ pc[d] = "inside" => ProcessOf[c] # ProcessOf[d]

\* fn runs at most once concurrently, across processes too, and its caller owns
\* the file on disk.
Exclusive ==
    /\ \A c, d \in Callers : c # d => ~(pc[c] = "inside" /\ pc[d] = "inside")
    /\ \A c \in Callers : pc[c] \in Owning => lockFile = FileOf(c)

\* The lock file alone excludes the processes from each other as long as no
\* process dies with the lock and no holder outlives the stale age.
ExclusiveWithoutCrash == crashes = 0 /\ ~SlowHolders => Exclusive

\* Both locks do their part: the token within a process whatever happens, the
\* file between processes as long as nobody dies.
LocksExclude == InProcessExclusion /\ ExclusiveWithoutCrash

\* No file is left behind by an error path: without a crash, the file is gone
\* once nobody is in WithLock.
NoLeakedFile ==
    crashes = 0 /\ (\A c \in Callers : pc[c] = "idle") => ~lockFile.exists

\* What WithLock promises: fn runs at most once concurrently per repository.
MutualExclusion ==
    \A c, d \in Callers : c # d => ~(pc[c] = "inside" /\ pc[d] = "inside")

\* Every call of WithLock ends, if only with ErrRepoLockTimeout, even when the
\* file of a dead process is in the way.
CallReturns == \A c \in Callers : (pc[c] = "local") ~> (pc[c] = "idle")
=============================================================================
