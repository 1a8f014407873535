--------------------------- MODULE RepoLockProofs ---------------------------
(***************************************************************************)
(* Theorems of RepoLock for any callers and processes.                     *)
(***************************************************************************)
EXTENDS RepoLock, TLAPS

\* A caller past acquireLocal has taken the token of its process, and no other
\* goroutine of that process has.
TokenTaken ==
    /\ \A c \in Callers : pc[c] \in HasToken => ~token[ProcessOf[c]]
    /\ \A c, d \in Callers :
           c # d /\ pc[c] \in HasToken /\ pc[d] \in HasToken => ProcessOf[c] # ProcessOf[d]

\* Until a process crashes, a file on disk belongs to a caller that will remove it.
FileIsOwned ==
    crashes = 0 /\ lockFile.exists =>
        lockFile.creator \in Callers /\ pc[lockFile.creator] \in Owning

\* Until a process crashes, and with holders faster than the stale age, nobody
\* finds a stale file, so who owns a file finds it on disk as it was created.
FileIsKept ==
    crashes = 0 /\ ~SlowHolders =>
        /\ ~lockFile.stale
        /\ \A c \in Callers : pc[c] # "remove"
        /\ \A c \in Callers : pc[c] \in Owning => lockFile = FileOf(c)

IInv == TypeOK /\ TokenTaken /\ FileIsOwned /\ FileIsKept

-----------------------------------------------------------------------------
LEMMA InitIInv == Init => IInv
BY LockAssumption
   DEF Init, IInv, TypeOK, TokenTaken, FileIsOwned, FileIsKept, NoFile, FileOf, Files,
       States, HasToken, Owning, LockAssumption

\* Most steps only move the caller's pc, and none of those makes it an owner that it
\* was not, or lets it remove a file it has not seen stale.
Quiet == UNCHANGED <<token, lockFile, expired, crashes>>
MovesOnly(c) ==
    /\ Quiet
    /\ \E to \in States :
        /\ pc' = [pc EXCEPT ![c] = to]
        /\ to \in HasToken <=> pc[c] \in HasToken
        /\ to \in Owning <=> pc[c] \in Owning
        /\ to = "remove" => lockFile.stale

Writes(c) == OpenCreates(c) \/ MetadataFails(c) \/ RemoveStale(c) \/ Unlink(c)

LEMMA StepCases ==
    ASSUME NEW c \in Callers, Call(c) \/ Step(c) \/ Expire(c)
    PROVE  \/ TakeToken(c) \/ Leave(c)
           \/ Call(c) \/ Expire(c)
           \/ Writes(c)
           \/ MovesOnly(c)
<1>1. CASE LocalTimeout(c) \/ OpenExists(c) \/ OpenFails(c) \/ MetadataWritten(c)
  BY <1>1 DEF LocalTimeout, OpenExists, OpenFails, MetadataWritten, Goto, MovesOnly, Quiet,
     States, HasToken, Owning
<1>2. CASE StatSeesStale(c) \/ StatSeesFreshOrNone(c) \/ RemoveFindsNone(c) \/ Tick(c)
  BY <1>2 DEF StatSeesStale, StatSeesFreshOrNone, RemoveFindsNone, Tick, Goto, MovesOnly,
     Quiet, States, HasToken, Owning
<1>3. CASE FileTimeout(c) \/ Return(c)
  BY <1>3 DEF FileTimeout, Return, Goto, MovesOnly, Quiet, States, HasToken, Owning
<1> QED BY <1>1, <1>2, <1>3 DEF Step, Writes

\* What a caller's own step leaves of the invariant, action by action.
LEMMA StepTypeOK ==
    ASSUME IInv, NEW c \in Callers, Call(c) \/ Step(c) \/ Expire(c)
    PROVE  TypeOK'
<1>1. CASE TakeToken(c) \/ Leave(c)
  BY <1>1, LockAssumption DEF IInv, TypeOK, LockAssumption, TakeToken, Leave, Goto, States
<1>2. CASE Call(c) \/ Expire(c)
  BY <1>2 DEF IInv, TypeOK, Call, Expire, Goto, States
<1>3. CASE Writes(c)
  <2>1. lockFile' \in {NoFile, FileOf(c)}
    BY <1>3 DEF Writes, OpenCreates, MetadataFails, RemoveStale, Unlink
  <2>2. NoFile \in Files /\ FileOf(c) \in Files
    BY DEF Files, NoFile, FileOf
  <2>3. lockFile' \in Files
    BY <2>1, <2>2
  <2> QED BY <1>3, <2>3 DEF IInv, TypeOK, Writes, OpenCreates, MetadataFails, RemoveStale, Unlink,
             Goto, States
<1>4. CASE MovesOnly(c)
  BY <1>4 DEF IInv, TypeOK, MovesOnly, Quiet
<1> QED BY <1>1, <1>2, <1>3, <1>4, StepCases

LEMMA StepTokenTaken ==
    ASSUME IInv, NEW c \in Callers, Call(c) \/ Step(c) \/ Expire(c)
    PROVE  TokenTaken'
<1>1. CASE TakeToken(c)
  <2>1. /\ token[ProcessOf[c]]
        /\ token' = [token EXCEPT ![ProcessOf[c]] = FALSE]
        /\ \A d \in Callers : d # c => pc'[d] = pc[d]
    BY <1>1 DEF IInv, TypeOK, TakeToken, Goto
  <2>2. \A d \in Callers : pc[d] \in HasToken => ProcessOf[d] # ProcessOf[c]
    BY <2>1 DEF IInv, TokenTaken
  <2>3. \A d \in Callers : ProcessOf[d] \in Processes
    BY LockAssumption DEF LockAssumption
  <2> QED BY <2>1, <2>2, <2>3 DEF IInv, TypeOK, TokenTaken
<1>2. CASE Leave(c)
  <2>1. /\ pc[c] \in HasToken /\ pc'[c] \notin HasToken
        /\ token' = [token EXCEPT ![ProcessOf[c]] = TRUE]
        /\ \A d \in Callers : d # c => pc'[d] = pc[d]
    BY <1>2 DEF IInv, TypeOK, Leave, Goto, HasToken, States
  <2>2. \A d \in Callers : ProcessOf[d] \in Processes
    BY LockAssumption DEF LockAssumption
  <2> QED BY <2>1, <2>2 DEF IInv, TypeOK, TokenTaken
<1>3. CASE ~(TakeToken(c) \/ Leave(c))
  <2>1. /\ token' = token
        /\ \A d \in Callers : pc'[d] \in HasToken => pc[d] \in HasToken
    <3>1. CASE Call(c) \/ Expire(c)
      BY <3>1 DEF IInv, TypeOK, Call, Expire, Goto, HasToken
    <3>2. CASE Writes(c)
      BY <3>2 DEF IInv, TypeOK, Writes, OpenCreates, MetadataFails, RemoveStale, Unlink, Goto,
         HasToken, States
    <3>3. CASE MovesOnly(c)
      BY <3>3 DEF IInv, TypeOK, MovesOnly, Quiet
    <3> QED BY <1>3, <3>1, <3>2, <3>3, StepCases
  <2> QED BY <2>1 DEF IInv, TokenTaken
<1> QED BY <1>1, <1>2, <1>3

LEMMA StepFileIsOwned ==
    ASSUME IInv, NEW c \in Callers, Call(c) \/ Step(c) \/ Expire(c)
    PROVE  FileIsOwned'
<1>1. CASE TakeToken(c) \/ Leave(c) \/ Call(c) \/ Expire(c)
  BY <1>1 DEF IInv, TypeOK, FileIsOwned, TakeToken, Leave, Call, Expire, Goto, Owning
<1>2. CASE Writes(c)
  BY <1>2 DEF IInv, TypeOK, FileIsOwned, Writes, OpenCreates, MetadataFails, RemoveStale,
     Unlink, Goto, NoFile, FileOf, Owning
<1>3. CASE MovesOnly(c)
  BY <1>3 DEF IInv, TypeOK, FileIsOwned, MovesOnly, Quiet
<1> QED BY <1>1, <1>2, <1>3, StepCases

LEMMA StepFileIsKept ==
    ASSUME IInv, NEW c \in Callers, Call(c) \/ Step(c) \/ Expire(c)
    PROVE  FileIsKept'
<1>0. crashes' = crashes
  <2>1. CASE TakeToken(c) \/ Leave(c) \/ Call(c) \/ Expire(c)
    BY <2>1 DEF TakeToken, Leave, Call, Expire
  <2>2. CASE Writes(c)
    BY <2>2 DEF Writes, OpenCreates, MetadataFails, RemoveStale, Unlink
  <2> QED BY <2>1, <2>2, StepCases DEF MovesOnly, Quiet
<1> SUFFICES ASSUME crashes = 0, ~SlowHolders
             PROVE  /\ ~lockFile'.stale
                    /\ \A d \in Callers : pc'[d] # "remove"
                    /\ \A d \in Callers : pc'[d] \in Owning => lockFile' = FileOf(d)
  <2>1. FileIsKept' <=> (crashes' = 0 /\ ~SlowHolders =>
              /\ ~lockFile'.stale
              /\ \A d \in Callers : pc'[d] # "remove"
              /\ \A d \in Callers : pc'[d] \in Owning => lockFile' = FileOf(d))
    BY DEF FileIsKept, FileOf
  <2> QED BY <1>0, <2>1
<1>1. /\ ~lockFile.stale
      /\ \A d \in Callers : pc[d] # "remove"
      /\ \A d \in Callers : pc[d] \in Owning => lockFile = FileOf(d)
  BY DEF IInv, FileIsKept
<1>2. \A d \in Callers : pc[d] \in Owning /\ pc[c] \in Owning => d = c
  BY <1>1 DEF FileOf
<1>3. CASE OpenCreates(c)
  <2>1. \A d \in Callers : pc[d] \notin Owning
    BY <1>1, <1>3 DEF OpenCreates, FileOf
  <2> QED BY <1>1, <1>3, <2>1 DEF IInv, TypeOK, OpenCreates, Goto, FileOf
<1>4. CASE MetadataFails(c) \/ Unlink(c)
  <2>1. pc[c] \in Owning /\ pc' = [pc EXCEPT ![c] = "leave"] /\ lockFile' = NoFile
    BY <1>4 DEF MetadataFails, Unlink, Goto, Owning
  <2> QED BY <1>1, <1>2, <2>1 DEF IInv, TypeOK, NoFile, Owning
<1>5. CASE RemoveStale(c)
  BY <1>1, <1>5 DEF RemoveStale, Goto
<1>6. CASE TakeToken(c) \/ Leave(c) \/ Call(c) \/ Expire(c)
  BY <1>1, <1>6 DEF IInv, TypeOK, TakeToken, Leave, Call, Expire, Goto, Owning
<1>7. CASE MovesOnly(c)
  BY <1>1, <1>7 DEF IInv, TypeOK, MovesOnly, Quiet
<1> QED BY <1>3, <1>4, <1>5, <1>6, <1>7, StepCases DEF Writes

LEMMA AgeIInv ==
    ASSUME IInv, Age
    PROVE  IInv'
<1>1. /\ lockFile' = [lockFile EXCEPT !.stale = TRUE]
      /\ UNCHANGED <<token, pc, expired, crashes>>
  BY DEF Age
<1>2. TypeOK'
  BY <1>1 DEF IInv, TypeOK, Files
<1>3. TokenTaken'
  BY <1>1 DEF IInv, TokenTaken
<1>4. lockFile'.creator = lockFile.creator /\ lockFile'.exists = lockFile.exists
  BY <1>1 DEF IInv, TypeOK, Files
<1>5. FileIsOwned'
  BY <1>1, <1>4 DEF IInv, FileIsOwned
<1>6. FileIsKept'
  <2>1. CASE SlowHolders
    BY <2>1 DEF FileIsKept
  <2>2. CASE ~SlowHolders
    <3>1. lockFile.exists /\ lockFile.creator = Nobody
      BY <2>2 DEF Age
    <3>2. crashes # 0
      BY <3>1, LockAssumption DEF IInv, FileIsOwned, LockAssumption
    <3> QED BY <1>1, <3>2 DEF FileIsKept
  <2> QED BY <2>1, <2>2
<1> QED BY <1>2, <1>3, <1>5, <1>6 DEF IInv

LEMMA CrashIInv ==
    ASSUME IInv, NEW p \in Processes, Crash(p)
    PROVE  IInv'
<1>1. TypeOK'
  <2>1. lockFile' \in Files
    BY DEF IInv, TypeOK, Crash, Files
  <2>2. crashes' \in 0 .. MaxCrashes
    BY LockAssumption DEF IInv, TypeOK, Crash, LockAssumption
  <2> QED BY <2>1, <2>2 DEF IInv, TypeOK, Crash, States
<1>2. TokenTaken'
  <2>1. \A c \in Callers : pc'[c] \in HasToken => pc[c] \in HasToken /\ ProcessOf[c] # p
    BY LockAssumption DEF Crash, HasToken, LockAssumption
  <2> QED BY <2>1, LockAssumption DEF IInv, TypeOK, TokenTaken, Crash, LockAssumption
<1>3. crashes' # 0
  BY DEF IInv, TypeOK, Crash
<1> QED BY <1>1, <1>2, <1>3 DEF IInv, FileIsOwned, FileIsKept

LEMMA NextIInv == IInv /\ [Next]_vars => IInv'
<1> SUFFICES ASSUME IInv, [Next]_vars PROVE IInv'
  OBVIOUS
<1>1. ASSUME NEW c \in Callers, Call(c) \/ Step(c) \/ Expire(c) PROVE IInv'
  BY <1>1, StepTypeOK, StepTokenTaken, StepFileIsOwned, StepFileIsKept DEF IInv
<1>2. CASE Age
  BY <1>2, AgeIInv
<1>3. ASSUME NEW p \in Processes, Crash(p) PROVE IInv'
  BY <1>3, CrashIInv
<1>4. CASE UNCHANGED vars
  BY <1>4 DEF IInv, TypeOK, TokenTaken, FileIsOwned, FileIsKept, vars
<1> QED BY <1>1, <1>2, <1>3, <1>4 DEF Next

THEOREM Invariance == Spec => []IInv
BY InitIInv, NextIInv, PTL DEF Spec

-----------------------------------------------------------------------------
\* The lock's variables keep their types.
THEOREM LockTypeCorrect == Spec => []TypeOK
<1>1. IInv => TypeOK
  BY DEF IInv
<1> QED BY <1>1, Invariance, PTL

\* Goroutines of one process exclude each other, crashes, stale files and slow
\* holders notwithstanding.
THEOREM LocalExclusion == Spec => []InProcessExclusion
<1>1. IInv => InProcessExclusion
  BY DEF IInv, TokenTaken, InProcessExclusion, HasToken, States
<1> QED BY <1>1, Invariance, PTL

\* The lock file excludes processes as long as none of them dies with the lock and
\* no holder outlives the stale age.
THEOREM FileExclusion == Spec => []ExclusiveWithoutCrash
<1>1. IInv => ExclusiveWithoutCrash
  <2> SUFFICES ASSUME IInv, crashes = 0, ~SlowHolders PROVE Exclusive
    BY DEF ExclusiveWithoutCrash
  <2>1. \A c \in Callers : pc[c] \in Owning => lockFile = FileOf(c)
    BY DEF IInv, FileIsKept
  <2>2. \A c, d \in Callers : c # d => ~(pc[c] = "inside" /\ pc[d] = "inside")
    BY <2>1 DEF FileOf, Owning
  <2> QED BY <2>1, <2>2 DEF Exclusive
<1> QED BY <1>1, Invariance, PTL

\* Each of the two locks excludes those it is there for.
THEOREM LocksDoTheirPart == Spec => []LocksExclude
BY LocalExclusion, FileExclusion, PTL DEF LocksExclude

\* A single process needs no file at all: fn runs at most once at a time even if
\* the process crashes and restarts over its own lock file.
THEOREM SingleProcessExclusion ==
    ASSUME \A p, q \in Processes : p = q
    PROVE  Spec => []MutualExclusion
<1>1. IInv => MutualExclusion
  <2> SUFFICES ASSUME IInv, NEW c \in Callers, NEW d \in Callers, c # d,
                      pc[c] = "inside", pc[d] = "inside"
               PROVE  FALSE
    BY DEF MutualExclusion
  <2>1. ProcessOf[c] = ProcessOf[d]
    BY LockAssumption DEF LockAssumption
  <2> QED BY <2>1 DEF IInv, TokenTaken, HasToken, States
<1> QED BY <1>1, Invariance, PTL

\* Without a crash no error path leaks the lock file.
THEOREM FileReleased == Spec => []NoLeakedFile
<1>1. IInv => NoLeakedFile
  BY DEF IInv, FileIsOwned, NoLeakedFile, Owning
<1> QED BY <1>1, Invariance, PTL
=============================================================================
