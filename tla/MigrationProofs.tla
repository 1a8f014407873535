--------------------------- MODULE MigrationProofs ---------------------------
(***************************************************************************)
(* Proofs about Migration for any number of servers and commands, releases *)
(* and steps.                                                               *)
(***************************************************************************)
EXTENDS Migration, TLAPS

\* The steps a process at a step has reason to rely on, unless an external
\* directory was used: what precedes its step, and the step once it ran.
ReliesOn(p) ==
    CASE pc[p] \in {"mark", "body"} -> 1 .. at[p] - 1
      [] pc[p] = "clear" -> 1 .. at[p]
      [] pc[p] = "parity" -> 1 .. Required[p]
      [] OTHER -> {}

\* What a process knows where it stands: its step is one of its binary's, a
\* legacy database is taken over only in the version of the binary, and what it
\* relies on is there.
PositionsKnow ==
    /\ 1 .. legacy \subseteq applied
    /\ \A p \in Procs :
        /\ pc[p] \in AtStep => 1 <= at[p] /\ at[p] <= Required[p]
        /\ pc[p] = "force" => legacy = Required[p]
        /\ ~foreign => ReliesOn(p) \subseteq applied

\* The inductive invariant of the schema's safety.
IInv == TypeOK /\ PositionsKnow /\ VersionTellsSchema /\ ServedSchemaComplete

\* PostgreSQL's advisory lock belongs to the process at a step, and wherever no
\* two migrations overlapped at most one process is at one.
StepsExclude ==
    /\ driver = "postgres" => \A p \in Procs : pc[p] \in AtStep => holder = p
    /\ overlapped => driver = "sqlite"
    /\ ~overlapped => \A p, q \in Procs : pc[p] \in AtStep /\ pc[q] \in AtStep => p = q

Undisturbed == ~accident /\ ~overlapped /\ legacy = 0

\* In an undisturbed database the row and the schema follow the process at a
\* step; the schema has nothing the row does not account for.
RowFollowsStep ==
    /\ \A p \in Procs :
        /\ pc[p] = "mark" => ~dirty /\ version = at[p] - 1
        /\ pc[p] \in {"body", "clear"} => dirty /\ version = at[p]
        /\ pc[p] = "body" => applied \subseteq 1 .. version - 1
    /\ dirty => \E p \in Procs : pc[p] \in {"body", "clear"} /\ at[p] = version
    /\ applied \subseteq 1 .. version

DInv == IInv /\ StepsExclude /\ (Undisturbed => RowFollowsStep)

PCs == AtStep \union Ended \union
           {"start", "decide", "recheck", "parity", "connect", "baseline",
            "force", "up", "migrated"}

\* The steps that only move a process.
Moves(p) ==
    \/ Launch(p) \/ CheckVersion(p) \/ Decide(p) \/ CheckParity(p)
    \/ Baseline(p) \/ GivesUp(p) \/ Migrated(p)

-----------------------------------------------------------------------------
\* The assumptions, read as numbers.
LEMMA Numbers ==
    /\ LastStep \in Nat /\ 1 <= LastStep
    /\ \A p \in Procs : Required[p] \in Nat /\ 1 <= Required[p] /\ Required[p] <= LastStep
    /\ \A n \in Nat : n \in Steps <=> 1 <= n /\ n <= LastStep
<1>1. LastStep \in Nat \ {0} /\ Required \in [Procs -> Steps]
  BY MigrationAssumption
<1>2. \A p \in Procs : Required[p] \in Steps
  BY <1>1
<1> QED
  BY <1>1, <1>2 DEF Steps

\* Where a step that only moves a process may lead.
Leads(p, l) ==
    /\ l \in PCs \ AtStep
    /\ pc' = [pc EXCEPT ![p] = l]
    /\ l = "force" => legacy = Required[p]
    /\ l = "parity" => VersionFits(Required[p])
    /\ l = "serving" => pc[p] = "parity" /\ ParityHolds(Required[p])

\* What every such step leaves alone, and where it can lead.
LEMMA MovesKeep ==
    ASSUME NEW p \in Procs, Moves(p)
    PROVE  /\ UNCHANGED <<driver, legacy, row, applied, holder, at, accident, overlapped, foreign>>
           /\ pc[p] \notin AtStep
           /\ \E l \in PCs \ AtStep : Leads(p, l)
<1> USE DEF Goto, Leads, PCs, AtStep, Ended
<1>1. UNCHANGED <<driver, legacy, row, applied, holder, at, accident, overlapped, foreign>>
  BY DEF Moves, Launch, CheckVersion, Decide, CheckParity, Baseline, GivesUp, Migrated, HistoryKept
<1>2. pc[p] \notin AtStep
  BY DEF Moves, Launch, CheckVersion, Decide, CheckParity, Baseline, GivesUp, Migrated
<1>3. CASE Launch(p)
  <2>1. Leads(p, "start") \/ Leads(p, "connect")
    BY <1>3 DEF Launch
  <2> QED
    BY <1>1, <1>2, <2>1
<1>4. CASE CheckVersion(p)
  <2>1. Leads(p, "parity") \/ Leads(p, "decide") \/ Leads(p, "stopped")
    BY <1>4 DEF CheckVersion
  <2> QED
    BY <1>1, <1>2, <2>1
<1>5. CASE Decide(p)
  <2>1. Leads(p, "connect") \/ Leads(p, "recheck")
    BY <1>5 DEF Decide
  <2> QED
    BY <1>1, <1>2, <2>1
<1>6. CASE CheckParity(p)
  <2>1. Leads(p, "serving") \/ Leads(p, "stopped")
    BY <1>6 DEF CheckParity
  <2> QED
    BY <1>1, <1>2, <2>1
<1>7. CASE Baseline(p)
  <2>1. Leads(p, "up") \/ Leads(p, "force") \/ Leads(p, "stopped")
    BY <1>7 DEF Baseline
  <2> QED
    BY <1>1, <1>2, <2>1
<1>8. CASE GivesUp(p)
  <2>1. Leads(p, "stopped")
    BY <1>8 DEF GivesUp
  <2> QED
    BY <1>1, <1>2, <2>1
<1>9. CASE Migrated(p)
  <2>1. Leads(p, "recheck") \/ Leads(p, "stopped")
    BY <1>9 DEF Migrated
  <2> QED
    BY <1>1, <1>2, <2>1
<1> QED
  BY <1>3, <1>4, <1>5, <1>6, <1>7, <1>8, <1>9 DEF Moves

\* The fresh, or the legacy, database satisfies the invariants.
LEMMA InitInv == Init => DInv
<1> SUFFICES ASSUME Init PROVE DInv
  OBVIOUS
<1>1. TypeOK
  <2>1. applied \in SUBSET Steps
    BY Numbers DEF Init, Steps
  <2>2. legacy \in 0 .. LastStep /\ version \in 0 .. LastStep
    BY Numbers DEF Init
  <2>3. pc \in [Procs -> PCs] /\ at \in [Procs -> 0 .. LastStep]
    BY Numbers DEF Init, PCs, Ended
  <2> QED
    BY <2>1, <2>2, <2>3 DEF Init, TypeOK, PCs
<1>2. PositionsKnow
  BY DEF Init, PositionsKnow, ReliesOn, AtStep
<1>3. VersionTellsSchema /\ ServedSchemaComplete
  BY DEF Init, VersionTellsSchema, ServedSchemaComplete, Procs
<1>4. StepsExclude
  BY DEF Init, StepsExclude, AtStep
<1>5. Undisturbed => RowFollowsStep
  BY DEF Init, Undisturbed, RowFollowsStep
<1> QED
  BY <1>1, <1>2, <1>3, <1>4, <1>5 DEF DInv, IInv

-----------------------------------------------------------------------------
\* A step that moves a process preserves the schema's invariant.
LEMMA MovesInv ==
    ASSUME IInv, NEW p \in Procs, Moves(p)
    PROVE  IInv'
<1> USE DEF IInv
<1>1. PICK l \in PCs \ AtStep :
          /\ pc' = [pc EXCEPT ![p] = l]
          /\ l = "force" => legacy = Required[p]
          /\ l = "parity" => VersionFits(Required[p])
          /\ l = "serving" => pc[p] = "parity" /\ ParityHolds(Required[p])
  BY MovesKeep DEF Leads
<1>2. UNCHANGED <<driver, legacy, row, applied, holder, at, accident, overlapped, foreign>>
  BY MovesKeep
<1>3. TypeOK'
  BY <1>1, <1>2 DEF TypeOK, PCs, row
<1>4. ~foreign /\ l = "parity" => 1 .. Required[p] \subseteq applied
  BY <1>1 DEF VersionFits, VersionTellsSchema
<1>5. ~foreign /\ pc[p] = "parity" => 1 .. Required[p] \subseteq applied
  BY DEF PositionsKnow, ReliesOn
<1>6. PositionsKnow'
  <2>1. ASSUME NEW q \in Procs
        PROVE  /\ pc'[q] \in AtStep => 1 <= at[q] /\ at[q] <= Required[q]
               /\ pc'[q] = "force" => legacy = Required[q]
    BY <1>1 DEF PositionsKnow, TypeOK
  <2>2. ASSUME NEW q \in Procs, ~foreign
        PROVE  ReliesOn(q)' \subseteq applied
    <3>1. CASE q = p
      BY <1>1, <1>2, <1>4, <2>2, <3>1 DEF ReliesOn, TypeOK, AtStep
    <3>2. CASE q # p
      BY <1>1, <1>2, <2>2, <3>2 DEF PositionsKnow, ReliesOn, TypeOK
    <3> QED
      BY <3>1, <3>2
  <2> QED
    BY <1>2, <2>1, <2>2 DEF PositionsKnow
<1>7. VersionTellsSchema'
  BY <1>2 DEF VersionTellsSchema, row
<1>8. ServedSchemaComplete'
  <2>1. ASSUME NEW q \in Servers, pc'[q] = "serving"
        PROVE  /\ ExpectedSteps(Required[q]) \subseteq applied
               /\ ~foreign => 1 .. Required[q] \subseteq applied
    <3>1. CASE q = p
      BY <1>1, <1>5, <2>1, <3>1 DEF ParityHolds, TypeOK
    <3>2. CASE q # p
      BY <1>1, <2>1, <3>2 DEF ServedSchemaComplete, TypeOK, Procs
    <3> QED
      BY <3>1, <3>2
  <2> QED
    BY <1>2, <2>1 DEF ServedSchemaComplete, ExpectedSteps
<1> QED
  BY <1>3, <1>6, <1>7, <1>8

\* A process that stops, at a step or anywhere, leaves the row and the schema.
LEMMA StopInv ==
    ASSUME IInv, NEW p \in Procs, StepFails(p) \/ Crash(p)
    PROVE  IInv'
<1> USE DEF IInv
<1>1. /\ pc' = [pc EXCEPT ![p] = "stopped"] /\ at' = [at EXCEPT ![p] = 0]
      /\ holder' = (IF holder = p THEN NoProcess ELSE holder)
      /\ accident' \in BOOLEAN
      /\ UNCHANGED <<driver, legacy, row, applied, overlapped, foreign>>
  BY DEF StepFails, Crash, Goto, Release, TypeOK
<1>2. TypeOK'
  <2>1. pc' \in [Procs -> PCs] /\ at' \in [Procs -> 0 .. LastStep]
    BY <1>1, Numbers DEF TypeOK, PCs, Ended
  <2> QED
    BY <1>1, <2>1 DEF TypeOK, PCs, row
<1>3. PositionsKnow'
  BY <1>1 DEF PositionsKnow, ReliesOn, TypeOK, AtStep
<1>4. VersionTellsSchema' /\ ServedSchemaComplete'
  BY <1>1 DEF VersionTellsSchema, ServedSchemaComplete, ExpectedSteps, TypeOK, row, Procs
<1> QED
  BY <1>2, <1>3, <1>4

\* Connect creates the version table, or leaves it.
LEMMA ConnectInv ==
    ASSUME IInv, NEW p \in Procs, Connect(p)
    PROVE  IInv'
<1> USE DEF IInv
<1>1. /\ pc' = [pc EXCEPT ![p] = "baseline"] /\ table' = TRUE
      /\ UNCHANGED <<driver, legacy, version, dirty, applied, holder, at>> /\ HistoryKept
  BY DEF Connect, Goto
<1>2. TypeOK'
  BY <1>1 DEF TypeOK, HistoryKept
<1>3. PositionsKnow'
  BY <1>1 DEF PositionsKnow, ReliesOn, TypeOK, AtStep, HistoryKept
<1>4. VersionTellsSchema' /\ ServedSchemaComplete'
  BY <1>1 DEF VersionTellsSchema, ServedSchemaComplete, ExpectedSteps, TypeOK, HistoryKept, Procs
<1> QED
  BY <1>2, <1>3, <1>4

\* A legacy database is taken over in the version whose steps it has.
LEMMA ForceInv ==
    ASSUME IInv, NEW p \in Procs, ForceVersion(p)
    PROVE  IInv'
<1> USE DEF IInv
<1>1. /\ pc[p] = "force" /\ pc' = [pc EXCEPT ![p] = "up"]
      /\ version' = Required[p] /\ dirty' = FALSE
      /\ UNCHANGED <<driver, legacy, table, applied, holder, at>> /\ HistoryKept
  BY DEF ForceVersion, Goto
<1>2. TypeOK'
  <2>1. version' \in 0 .. LastStep
    BY <1>1, Numbers
  <2>2. pc' \in [Procs -> PCs]
    BY <1>1 DEF TypeOK, PCs
  <2> QED
    BY <1>1, <2>1, <2>2 DEF TypeOK, PCs, HistoryKept
<1>3. PositionsKnow'
  BY <1>1 DEF PositionsKnow, ReliesOn, TypeOK, AtStep, HistoryKept
<1>4. VersionTellsSchema'
  BY <1>1 DEF VersionTellsSchema, PositionsKnow
<1>5. ServedSchemaComplete'
  BY <1>1 DEF ServedSchemaComplete, ExpectedSteps, TypeOK, HistoryKept, Procs
<1> QED
  BY <1>2, <1>3, <1>4, <1>5

\* Up starts at the step after the version the row names.
LEMMA UpInv ==
    ASSUME IInv, NEW p \in Procs, Up(p)
    PROVE  IInv'
<1> USE DEF IInv
<1>1. /\ pc[p] = "up" /\ overlapped' \in BOOLEAN
      /\ UNCHANGED <<driver, legacy, row, applied, accident, foreign>>
  BY DEF Up, TypeOK
<1>2. CASE Pending(p)
  <2>1. /\ pc' = [pc EXCEPT ![p] = "mark"] /\ at' = [at EXCEPT ![p] = version + 1]
        /\ holder' \in {p, NoProcess}
        /\ ~dirty /\ version < Required[p]
    BY <1>2 DEF Up, Goto, Locked, Pending
  <2>2. /\ version \in Nat /\ Required[p] \in Nat
        /\ version + 1 \in 1 .. LastStep /\ version + 1 <= Required[p] /\ 1 <= version + 1
        /\ (version + 1) - 1 = version
    BY <2>1, Numbers DEF TypeOK
  <2>3. TypeOK'
    BY <1>1, <2>1, <2>2 DEF TypeOK, row, AtStep
  <2>4. PositionsKnow'
    <3>1. ASSUME NEW q \in Procs
          PROVE  /\ pc'[q] \in AtStep => 1 <= at'[q] /\ at'[q] <= Required[q]
                 /\ pc'[q] = "force" => legacy = Required[q]
      BY <2>1, <2>2 DEF PositionsKnow, TypeOK, AtStep
    <3>2. ASSUME NEW q \in Procs, ~foreign
          PROVE  ReliesOn(q)' \subseteq applied
      <4>1. CASE q = p
        <5>1. ReliesOn(p)' = 1 .. version
          BY <2>1, <2>2 DEF ReliesOn, TypeOK
        <5> QED
          BY <2>1, <3>2, <4>1, <5>1 DEF VersionTellsSchema
      <4>2. CASE q # p
        BY <2>1, <3>2, <4>2 DEF PositionsKnow, ReliesOn, TypeOK
      <4> QED
        BY <4>1, <4>2
    <3> QED
      BY <1>1, <3>1, <3>2 DEF PositionsKnow
  <2>5. VersionTellsSchema' /\ ServedSchemaComplete'
    BY <1>1, <2>1 DEF VersionTellsSchema, ServedSchemaComplete, ExpectedSteps, TypeOK, row, Procs
  <2> QED
    BY <2>3, <2>4, <2>5
<1>3. CASE ~Pending(p)
  <2>1. /\ \E l \in {"migrated", "stopped"} : pc' = [pc EXCEPT ![p] = l]
        /\ at' = at /\ holder' = holder
    BY <1>3 DEF Up, Goto
  <2>2. TypeOK'
    BY <1>1, <2>1 DEF TypeOK, row, Ended
  <2>3. PositionsKnow'
    BY <1>1, <2>1 DEF PositionsKnow, ReliesOn, TypeOK, AtStep
  <2>4. VersionTellsSchema' /\ ServedSchemaComplete'
    BY <1>1, <2>1 DEF VersionTellsSchema, ServedSchemaComplete, ExpectedSteps, TypeOK, row, Procs
  <2> QED
    BY <2>2, <2>3, <2>4
<1> QED
  BY <1>2, <1>3

\* The mark names a step whose predecessors were applied.
LEMMA MarkInv ==
    ASSUME IInv, NEW p \in Procs, Mark(p)
    PROVE  IInv'
<1> USE DEF IInv
<1>1. /\ pc[p] = "mark" /\ pc' = [pc EXCEPT ![p] = "body"]
      /\ version' = at[p] /\ dirty' = TRUE
      /\ UNCHANGED <<driver, legacy, table, applied, holder, at>> /\ HistoryKept
  BY DEF Mark, Goto
<1>2. TypeOK'
  BY <1>1 DEF TypeOK, HistoryKept, AtStep
<1>3. PositionsKnow'
  BY <1>1 DEF PositionsKnow, ReliesOn, TypeOK, AtStep, HistoryKept
<1>4. VersionTellsSchema'
  BY <1>1 DEF VersionTellsSchema, PositionsKnow, ReliesOn, HistoryKept
<1>5. ServedSchemaComplete'
  BY <1>1 DEF ServedSchemaComplete, ExpectedSteps, TypeOK, HistoryKept, Procs
<1> QED
  BY <1>2, <1>3, <1>4, <1>5

\* The SQL of an embedded step adds that step to the schema.
LEMMA BodyInv ==
    ASSUME IInv, NEW p \in Procs, Body(p)
    PROVE  IInv'
<1> USE DEF IInv
<1>1. /\ pc[p] = "body" /\ pc' = [pc EXCEPT ![p] = "clear"]
      /\ foreign' = (foreign \/ p \in External)
      /\ UNCHANGED <<driver, legacy, row, holder, at, accident, overlapped>>
  BY DEF Body, Goto
<1>2. PICK new \in Content(p) : applied' = applied \union new
  BY DEF Body
<1>3. /\ at[p] \in Nat /\ 1 <= at[p] /\ at[p] \in Steps
      /\ new \subseteq {at[p]} /\ (~foreign' => ~foreign /\ new = {at[p]})
  <2>1. at[p] \in Nat /\ 1 <= at[p] /\ at[p] <= LastStep
    BY <1>1, Numbers DEF PositionsKnow, TypeOK, AtStep
  <2>2. new \subseteq {at[p]} /\ (~foreign' => ~foreign /\ new = {at[p]})
    BY <1>1, <1>2 DEF Content
  <2> QED
    BY <2>1, <2>2, Numbers
<1>4. TypeOK'
  <2>1. pc' \in [Procs -> PCs]
    BY <1>1 DEF TypeOK, PCs, AtStep
  <2>2. applied' \in SUBSET Steps
    BY <1>2, <1>3 DEF TypeOK
  <2> QED
    BY <1>1, <2>1, <2>2 DEF TypeOK, row, PCs
<1>5. PositionsKnow'
  <2>1. ASSUME NEW q \in Procs
        PROVE  /\ pc'[q] \in AtStep => 1 <= at[q] /\ at[q] <= Required[q]
               /\ pc'[q] = "force" => legacy = Required[q]
    BY <1>1 DEF PositionsKnow, TypeOK, AtStep
  <2>2. ASSUME NEW q \in Procs, ~foreign'
        PROVE  ReliesOn(q)' \subseteq applied'
    <3>1. CASE q = p
      <4>1. ReliesOn(p)' = 1 .. at[p] /\ 1 .. at[p] - 1 \subseteq applied
        BY <1>1, <1>3, <2>2 DEF ReliesOn, PositionsKnow, TypeOK
      <4>2. 1 .. at[p] \subseteq (1 .. at[p] - 1) \union {at[p]}
        BY <1>3
      <4> QED
        BY <1>2, <1>3, <2>2, <3>1, <4>1, <4>2
    <3>2. CASE q # p
      <4>1. ReliesOn(q)' = ReliesOn(q) /\ ReliesOn(q) \subseteq applied
        BY <1>1, <1>3, <2>2, <3>2 DEF PositionsKnow, ReliesOn, TypeOK
      <4> QED
        BY <1>2, <4>1
    <3> QED
      BY <3>1, <3>2
  <2>3. 1 .. legacy \subseteq applied
    BY DEF PositionsKnow
  <2> QED
    BY <1>1, <1>2, <2>1, <2>2, <2>3 DEF PositionsKnow
<1>6. VersionTellsSchema'
  BY <1>1, <1>2 DEF VersionTellsSchema, row
<1>7. ServedSchemaComplete'
  BY <1>1, <1>2 DEF ServedSchemaComplete, ExpectedSteps, TypeOK, Procs
<1> QED
  BY <1>4, <1>5, <1>6, <1>7

\* The cleared row names a step that was applied.
LEMMA ClearInv ==
    ASSUME IInv, NEW p \in Procs, Clear(p)
    PROVE  IInv'
<1> USE DEF IInv
<1>1. /\ pc[p] = "clear" /\ version' = at[p] /\ dirty' = FALSE
      /\ UNCHANGED <<driver, legacy, table, applied>> /\ HistoryKept
      /\ at[p] \in 1 .. LastStep
  BY Numbers DEF Clear, PositionsKnow, TypeOK, AtStep
<1>2. VersionTellsSchema'
  BY <1>1 DEF VersionTellsSchema, PositionsKnow, ReliesOn, HistoryKept
<1>3. CASE at[p] < Required[p]
  <2>1. /\ pc' = [pc EXCEPT ![p] = "mark"] /\ at' = [at EXCEPT ![p] = at[p] + 1]
        /\ holder' = holder
    BY <1>3 DEF Clear, Goto
  <2>2. /\ at[p] + 1 \in 1 .. LastStep /\ at[p] + 1 <= Required[p] /\ 1 <= at[p] + 1
        /\ (at[p] + 1) - 1 = at[p]
    BY <1>1, <1>3, Numbers
  <2>3. TypeOK'
    <3>1. pc' \in [Procs -> PCs] /\ at' \in [Procs -> 0 .. LastStep]
      BY <2>1, <2>2, Numbers DEF TypeOK, PCs, AtStep
    <3>2. version' \in 0 .. LastStep
      BY <1>1, Numbers
    <3> QED
      BY <1>1, <2>1, <3>1, <3>2 DEF TypeOK, PCs, HistoryKept
  <2>4. PositionsKnow'
    <3>1. ASSUME NEW q \in Procs
          PROVE  /\ pc'[q] \in AtStep => 1 <= at'[q] /\ at'[q] <= Required[q]
                 /\ pc'[q] = "force" => legacy = Required[q]
      BY <2>1, <2>2 DEF PositionsKnow, TypeOK, AtStep
    <3>2. ASSUME NEW q \in Procs, ~foreign
          PROVE  ReliesOn(q)' \subseteq applied
      <4>1. CASE q = p
        <5>1. ReliesOn(p)' = 1 .. at[p] /\ ReliesOn(p) = 1 .. at[p]
          BY <1>1, <2>1, <2>2 DEF ReliesOn, TypeOK
        <5> QED
          BY <3>2, <4>1, <5>1 DEF PositionsKnow
      <4>2. CASE q # p
        BY <2>1, <3>2, <4>2 DEF PositionsKnow, ReliesOn, TypeOK
      <4> QED
        BY <4>1, <4>2
    <3> QED
      BY <1>1, <3>1, <3>2 DEF PositionsKnow, HistoryKept
  <2>5. ServedSchemaComplete'
    BY <1>1, <2>1 DEF ServedSchemaComplete, ExpectedSteps, TypeOK, HistoryKept, Procs
  <2> QED
    BY <1>2, <2>3, <2>4, <2>5
<1>4. CASE ~(at[p] < Required[p])
  <2>1. /\ pc' = [pc EXCEPT ![p] = "migrated"] /\ at' = [at EXCEPT ![p] = 0]
        /\ holder' = (IF holder = p THEN NoProcess ELSE holder)
    BY <1>4 DEF Clear, Goto, Release
  <2>2. TypeOK'
    <3>1. pc' \in [Procs -> PCs] /\ at' \in [Procs -> 0 .. LastStep]
      BY <2>1, Numbers DEF TypeOK, PCs
    <3>2. version' \in 0 .. LastStep
      BY <1>1, Numbers
    <3> QED
      BY <1>1, <2>1, <3>1, <3>2 DEF TypeOK, PCs, HistoryKept
  <2>3. PositionsKnow'
    BY <1>1, <2>1 DEF PositionsKnow, ReliesOn, TypeOK, AtStep, HistoryKept
  <2>4. ServedSchemaComplete'
    BY <1>1, <2>1 DEF ServedSchemaComplete, ExpectedSteps, TypeOK, HistoryKept, Procs
  <2> QED
    BY <1>2, <2>2, <2>3, <2>4
<1> QED
  BY <1>3, <1>4

\* Every step of the specification preserves the schema's invariant.
LEMMA NextInv == IInv /\ [Next]_vars => IInv'
<1> SUFFICES ASSUME IInv, [Next]_vars PROVE IInv'
  OBVIOUS
<1>1. ASSUME NEW p \in Procs, Step(p)
      PROVE  IInv'
  BY <1>1, MovesInv, StopInv, ConnectInv, ForceInv, UpInv, MarkInv, BodyInv, ClearInv
     DEF Step, Moves
<1>2. CASE UNCHANGED vars
  BY <1>2 DEF vars, row, IInv, TypeOK, PositionsKnow, ReliesOn, VersionTellsSchema,
              ServedSchemaComplete, ExpectedSteps
<1> QED
  BY <1>1, <1>2 DEF Next

LEMMA SpecInv == Spec => []IInv
BY InitInv, NextInv, PTL DEF Spec, DInv

\* Every variable keeps the shape it has in the code.
THEOREM SchemaTypeCorrect == Spec => []TypeOK
<1>1. IInv => TypeOK
  BY DEF IInv
<1> QED
  BY <1>1, SpecInv, PTL

\* No crash, failure or rival makes the recorded version, or a server that
\* serves, run ahead of the schema.
THEOREM NeverOverstated == Spec => []SchemaNotOverstated
<1>1. IInv => SchemaNotOverstated
  BY DEF IInv, SchemaNotOverstated
<1> QED
  BY <1>1, SpecInv, PTL

-----------------------------------------------------------------------------
\* Only PostgreSQL's lock keeps migrations apart, and it always does.
LEMMA NextExclude == IInv /\ StepsExclude /\ [Next]_vars => StepsExclude'
<1> SUFFICES ASSUME IInv, StepsExclude, [Next]_vars PROVE StepsExclude'
  OBVIOUS
<1> USE DEF IInv
<1>1. ASSUME NEW p \in Procs, Moves(p)
      PROVE  StepsExclude'
  BY <1>1, MovesKeep DEF StepsExclude, Leads, TypeOK
<1>2. ASSUME NEW p \in Procs, Connect(p) \/ ForceVersion(p)
      PROVE  StepsExclude'
  BY <1>2 DEF Connect, ForceVersion, Goto, HistoryKept, StepsExclude, AtStep, TypeOK
<1>3. ASSUME NEW p \in Procs, StepFails(p) \/ Crash(p)
      PROVE  StepsExclude'
  BY <1>3 DEF StepFails, Crash, Goto, Release, StepsExclude, AtStep, TypeOK
<1>4. ASSUME NEW p \in Procs, Up(p)
      PROVE  StepsExclude'
  <2>1. /\ pc[p] = "up" /\ holder = NoProcess /\ driver' = driver
        /\ overlapped' = (overlapped \/ \E q \in Procs \ {p} : pc[q] \in AtStep)
        /\ \E l \in PCs : /\ pc' = [pc EXCEPT ![p] = l]
                          /\ l \in AtStep => holder' = Locked(p)
                          /\ l \notin AtStep => holder' = holder
    BY <1>4 DEF Up, Goto, PCs, AtStep, Ended
  <2>2. driver = "postgres" => \A q \in Procs : pc[q] \notin AtStep
    BY <2>1, MigrationAssumption DEF StepsExclude
  <2>3. driver = "postgres" => \A q \in Procs : pc'[q] \in AtStep => holder' = q
    BY <2>1, <2>2 DEF Locked, TypeOK
  <2>4. overlapped' => driver = "sqlite"
    BY <2>1, <2>2 DEF StepsExclude, TypeOK, Drivers
  <2>5. ~overlapped' => \A q, r \in Procs : pc'[q] \in AtStep /\ pc'[r] \in AtStep => q = r
    BY <2>1 DEF StepsExclude, TypeOK
  <2> QED
    BY <2>1, <2>3, <2>4, <2>5 DEF StepsExclude
<1>5. ASSUME NEW p \in Procs, Mark(p) \/ Body(p)
      PROVE  StepsExclude'
  BY <1>5 DEF Mark, Body, Goto, HistoryKept, StepsExclude, AtStep, TypeOK
<1>6. ASSUME NEW p \in Procs, Clear(p)
      PROVE  StepsExclude'
  BY <1>6 DEF Clear, Goto, Release, HistoryKept, StepsExclude, AtStep, TypeOK
<1>7. CASE UNCHANGED vars
  BY <1>7 DEF vars, StepsExclude
<1> QED
  BY <1>1, <1>2, <1>3, <1>4, <1>5, <1>6, <1>7 DEF Next, Step, Moves

\* As long as nothing disturbs the database, each step keeps row, schema and the
\* process at a step together.
LEMMA NextFollows ==
    IInv /\ StepsExclude /\ (Undisturbed => RowFollowsStep) /\ [Next]_vars
        => (Undisturbed => RowFollowsStep)'
<1> SUFFICES ASSUME IInv, StepsExclude, Undisturbed => RowFollowsStep, [Next]_vars, Undisturbed'
             PROVE  RowFollowsStep'
  OBVIOUS
<1> USE DEF IInv
<1>1. ASSUME NEW p \in Procs, Moves(p)
      PROVE  RowFollowsStep'
  BY <1>1, MovesKeep DEF Leads, Undisturbed, RowFollowsStep, AtStep, TypeOK, row
<1>2. ASSUME NEW p \in Procs, Connect(p)
      PROVE  RowFollowsStep'
  BY <1>2 DEF Connect, Goto, HistoryKept, Undisturbed, RowFollowsStep, TypeOK
<1>3. ASSUME NEW p \in Procs, ForceVersion(p)
      PROVE  FALSE
  BY <1>3, Numbers DEF ForceVersion, HistoryKept, Undisturbed, PositionsKnow
<1>4. ASSUME NEW p \in Procs, StepFails(p) \/ Crash(p)
      PROVE  RowFollowsStep'
  <2>1. /\ pc' = [pc EXCEPT ![p] = "stopped"] /\ at' = [at EXCEPT ![p] = 0]
        /\ UNCHANGED <<row, applied, legacy, overlapped>>
        /\ \E why : accident' = (accident \/ why)
    BY <1>4 DEF StepFails, Crash, Goto
  <2>4. Undisturbed
    BY <2>1 DEF Undisturbed
  <2>2. at[p] \in Nat /\ version \in Nat
    BY DEF TypeOK
  <2>3. pc[p] \notin {"body", "clear"}
    <3>1. ~accident' /\ ~accident
      BY <2>4 DEF Undisturbed
    <3>2. CASE Crash(p)
      BY <3>1, <3>2 DEF Crash
    <3>3. CASE StepFails(p)
      <4>1. pc[p] = "body" => at[p] \notin applied
        BY <2>2, <2>4 DEF RowFollowsStep
      <4> QED
        BY <3>1, <3>3, <4>1 DEF StepFails
    <3> QED
      BY <1>4, <3>2, <3>3
  <2> QED
    BY <2>1, <2>3, <2>4 DEF RowFollowsStep, TypeOK, row
<1>5. ASSUME NEW p \in Procs, Up(p)
      PROVE  RowFollowsStep'
  <2>1. Undisturbed /\ UNCHANGED <<row, applied>> /\ pc[p] = "up"
    BY <1>5 DEF Up, Undisturbed
  <2>2. CASE Pending(p)
    <3>1. /\ pc' = [pc EXCEPT ![p] = "mark"] /\ at' = [at EXCEPT ![p] = version + 1] /\ ~dirty
      BY <1>5, <2>2 DEF Up, Goto, Pending
    <3>2. version = (version + 1) - 1
      BY DEF TypeOK
    <3> QED
      BY <2>1, <3>1, <3>2 DEF RowFollowsStep, TypeOK, row
  <2>3. CASE ~Pending(p)
    <3>1. at' = at /\ \E l \in {"migrated", "stopped"} : pc' = [pc EXCEPT ![p] = l]
      BY <1>5, <2>3 DEF Up, Goto
    <3> QED
      BY <2>1, <3>1 DEF RowFollowsStep, TypeOK, row
  <2> QED
    BY <2>2, <2>3
<1>6. ASSUME NEW p \in Procs, Mark(p) \/ Body(p) \/ Clear(p)
      PROVE  RowFollowsStep'
  <2>1. Undisturbed /\ ~overlapped /\ pc[p] \in AtStep
    BY <1>6 DEF Mark, Body, Clear, Undisturbed, HistoryKept, AtStep
  <2>2. \A q \in Procs : q # p => pc[q] \notin AtStep
    BY <2>1 DEF StepsExclude
  <2>3. at[p] \in Nat /\ 1 <= at[p] /\ version \in Nat
    BY <2>1 DEF PositionsKnow, TypeOK
  <2>4. CASE Mark(p)
    <3>1. /\ pc' = [pc EXCEPT ![p] = "body"] /\ version' = at[p] /\ dirty' = TRUE
          /\ at' = at /\ applied' = applied /\ pc[p] = "mark"
      BY <2>4 DEF Mark, Goto
    <3>2. version = at[p] - 1 /\ applied \subseteq 1 .. at[p] - 1
      BY <2>1, <3>1 DEF RowFollowsStep
    <3>3. applied' \subseteq 1 .. version'
      BY <2>3, <3>1, <3>2
    <3> QED
      BY <2>2, <3>1, <3>2, <3>3 DEF RowFollowsStep, TypeOK, AtStep
  <2>5. CASE Body(p)
    <3>1. /\ pc' = [pc EXCEPT ![p] = "clear"] /\ UNCHANGED row /\ at' = at /\ pc[p] = "body"
          /\ applied' \subseteq applied \union {at[p]}
      BY <2>5 DEF Body, Goto, Content
    <3>2. dirty /\ version = at[p] /\ applied \subseteq 1 .. version - 1
      BY <2>1, <3>1 DEF RowFollowsStep
    <3>3. applied' \subseteq 1 .. version
      BY <2>3, <3>1, <3>2
    <3> QED
      BY <2>2, <3>1, <3>2, <3>3 DEF RowFollowsStep, TypeOK, AtStep, row
  <2>6. CASE Clear(p)
    <3>1. version' = at[p] /\ dirty' = FALSE /\ applied' = applied /\ pc[p] = "clear"
      BY <2>6 DEF Clear
    <3>2. version = at[p] /\ applied' \subseteq 1 .. version'
      BY <2>1, <3>1 DEF RowFollowsStep
    <3>3. \/ pc' = [pc EXCEPT ![p] = "mark"] /\ at' = [at EXCEPT ![p] = at[p] + 1]
          \/ pc' = [pc EXCEPT ![p] = "migrated"]
      BY <2>6 DEF Clear, Goto
    <3>4. at[p] = (at[p] + 1) - 1
      BY <2>3
    <3> QED
      BY <2>2, <3>1, <3>2, <3>3, <3>4 DEF RowFollowsStep, TypeOK, AtStep
  <2> QED
    BY <1>6, <2>4, <2>5, <2>6
<1>7. CASE UNCHANGED vars
  BY <1>7 DEF vars, row, Undisturbed, RowFollowsStep
<1> QED
  BY <1>1, <1>2, <1>3, <1>4, <1>5, <1>6, <1>7 DEF Next, Step, Moves

\* Left alone, a migration never needs the operator; two migrations never overlap
\* under PostgreSQL's lock.
THEOREM DirtyExplained == Spec => []DirtyIsExplained
<1>1. DInv /\ [Next]_vars => DInv'
  BY NextInv, NextExclude, NextFollows DEF DInv
<1>2. DInv => DirtyIsExplained
  <2> SUFFICES ASSUME DInv PROVE DirtyIsExplained
    OBVIOUS
  <2>1. overlapped => driver = "sqlite"
    BY DEF DInv, StepsExclude
  <2>2. ASSUME ~accident, ~overlapped, legacy = 0
        PROVE  RowFollowsStep /\ (~foreign /\ ~dirty => 1 .. version \subseteq applied)
    BY <2>2 DEF DInv, IInv, Undisturbed, VersionTellsSchema
  <2> QED
    BY <2>1, <2>2 DEF DirtyIsExplained, RowFollowsStep
<1> QED
  BY <1>1, <1>2, InitInv, PTL DEF Spec
=============================================================================
