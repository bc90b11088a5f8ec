------------------------- MODULE ProjectStoreProofs -------------------------
(***************************************************************************)
(* Theorems about ProjectStore for every number of projects, paths,        *)
(* contents and versions: what holds of all behaviours (Spec), and what    *)
(* holds when no two commits write the same blob at once (AloneSpec).      *)
(***************************************************************************)
EXTENDS ProjectStore, TLAPS

\* Files being written: each worker writes the temporary file of its own
\* content, and has it whole before it renames it.
WritersApart ==
    /\ \A p \in Projects : fd[p].at \in {"none", "tmp", "written"}
    /\ \A p \in Projects : fd[p].at = "none" <=> fd[p] = Closed
    /\ \A p \in Projects : fd[p].at # "none" => fd[p].content \in Contents
    /\ \A p \in Projects : fd[p].at = "written" => tmp[fd[p].content] = "whole"
    /\ \A p, q \in Projects :
        p # q /\ fd[p].at # "none" => fd[q].content # fd[p].content

\* A blob is whole from the moment its name exists.
BlobsAreWhole == \A c \in Contents : blob[c] # "short"

\* A commit has stored what it no longer has to store.
StoredSoFar ==
    \A p \in Projects : phase[p] = "storing" =>
        \A f \in Paths : ws[p][f] # NoFile =>
            ws[p][f] \in Contents /\ (ws[p][f] \in todo[p] \/ blob[ws[p][f]] = "whole")

\* A restore has written what it no longer has to write.
RestoredSoFar ==
    \A p \in Projects : phase[p] = "restoring" =>
        /\ versions[p] # <<>>
        /\ \A f \in Paths : f \notin todo[p] => ws[p][f] = Latest(p)[f]
        /\ todo[p] \subseteq Files(Latest(p))

\* The blobs of every row.
RowsAreWhole ==
    \A p \in Projects : \A v \in Numbers(p) : \A f \in Paths :
        versions[p][v][f] # NoFile =>
            versions[p][v][f] \in Contents /\ blob[versions[p][v][f]] = "whole"

\* The live pointer is at a version, and at one the profile can serve.
LiveIsServable ==
    \A p \in Projects : live[p] # 0 => live[p] \in Numbers(p) /\ Servable(versions[p][live[p]])

IInv ==
    /\ TypeOK /\ WritersApart /\ BlobsAreWhole
    /\ StoredSoFar /\ RestoredSoFar /\ RowsAreWhole

-----------------------------------------------------------------------------
LEMMA TypeInit == Init => TypeOK
  BY StoreAssumption DEF Init, TypeOK, Empty, Closed

\* The parts of TypeOK, as each action disturbs one or two of them.
Phases == {"idle", "restoring", "working", "storing"}
WorkspaceType == ws \in [Projects -> [Paths -> Contents \cup {NoFile, Torn}]]
PhaseType == phase \in [Projects -> Phases] /\ todo \in [Projects -> SUBSET (Paths \cup Contents)]
FileType ==
    /\ blob \in [Contents -> {"none", "short", "whole"}]
    /\ tmp \in [Contents -> {"none", "short", "whole"}]
    /\ fd \in [Projects -> [at : {"none", "tmp", "blob", "gone", "written"},
                            content : Contents \cup {NoFile}]]
RowType ==
    /\ versions \in [Projects -> Seq([Paths -> Contents \cup {NoFile, Torn}])]
    /\ live \in [Projects -> 0 .. MaxVersions]

LEMMA TypeParts ==
    /\ TypeOK <=> WorkspaceType /\ PhaseType /\ FileType /\ RowType
    /\ TypeOK' <=> WorkspaceType' /\ PhaseType' /\ FileType' /\ RowType'
  BY DEF TypeOK, WorkspaceType, PhaseType, FileType, RowType, Phases

LEMMA LatestType ==
    ASSUME RowType, NEW p \in Projects
    PROVE  Latest(p) \in [Paths -> Contents \cup {NoFile, Torn}]
  <1>1. ASSUME NEW v \in Numbers(p) PROVE versions[p][v] \in [Paths -> Contents \cup {NoFile, Torn}]
    BY <1>1 DEF RowType, Numbers
  <1>2. Empty \in [Paths -> Contents \cup {NoFile, Torn}]
    BY DEF Empty
  <1>. QED BY <1>1, <1>2 DEF Latest, VersionFiles

LEMMA Entered ==
    ASSUME PhaseType, NEW p \in Projects, NEW to \in Phases,
           NEW work \in SUBSET (Paths \cup Contents), Enter(p, to, work)
    PROVE  PhaseType'
  BY DEF PhaseType, Enter

\* Every step preserves the types.
LEMMA TypeStep == TypeOK /\ [Next]_vars => TypeOK'
  <1> SUFFICES ASSUME TypeOK, [Next]_vars PROVE TypeOK'
    OBVIOUS
  <1>a. WorkspaceType /\ PhaseType /\ FileType /\ RowType
    BY TypeParts
  <1>b. UNCHANGED rowVars => RowType'
    BY <1>a DEF RowType, rowVars
  <1>c. UNCHANGED casVars => FileType'
    BY <1>a DEF FileType, casVars
  <1>d. UNCHANGED ws => WorkspaceType'
    BY <1>a DEF WorkspaceType
  <1>e. UNCHANGED <<phase, todo>> => PhaseType'
    BY <1>a DEF PhaseType
  <1>f. \A p \in Projects : todo[p] \subseteq Paths \cup Contents
    BY <1>a DEF PhaseType
  <1>1. ASSUME NEW p \in Projects, StartRun(p) PROVE TypeOK'
    <2>1. PhaseType'
      <3>1. \A m : Files(m) \in SUBSET (Paths \cup Contents)
        BY DEF Files
      <3>2. {} \in SUBSET (Paths \cup Contents)
        OBVIOUS
      <3>. QED BY <1>1, <1>a, <3>1, <3>2, Entered DEF StartRun, Phases
    <2>. QED BY <1>1, <1>b, <1>c, <1>d, <2>1, TypeParts DEF StartRun
  <1>2. ASSUME NEW p \in Projects, RestoreFile(p) PROVE TypeOK'
    <2>1. PICK f \in todo[p] :
            /\ blob[Latest(p)[f]] # "none"
            /\ ws' = [ws EXCEPT ![p][f] = IF blob[Latest(p)[f]] = "whole" THEN Latest(p)[f] ELSE Torn]
            /\ Enter(p, phase[p], todo[p] \ {f})
      BY <1>2 DEF RestoreFile, ReadBlob
    <2>2. WorkspaceType'
      <3>1. CASE f \in Paths
        <4>1. Latest(p)[f] \in Contents \cup {NoFile, Torn}
          BY <3>1, <1>a, LatestType
        <4>. QED BY <2>1, <3>1, <4>1, <1>a DEF WorkspaceType
      <3>2. CASE f \notin Paths
        BY <2>1, <3>2, <1>a DEF WorkspaceType
      <3>. QED BY <3>1, <3>2
    <2>3. PhaseType'
      <3>1. todo[p] \ {f} \in SUBSET (Paths \cup Contents) /\ phase[p] \in Phases
        BY <1>a, <1>f DEF PhaseType
      <3>. QED BY <2>1, <3>1, <1>a, Entered
    <2>. QED BY <1>2, <2>2, <2>3, <1>b, <1>c, TypeParts DEF RestoreFile
  <1>3. ASSUME NEW p \in Projects, EndRestore(p) PROVE TypeOK'
    BY <1>3, <1>a, <1>b, <1>c, <1>d, Entered, TypeParts DEF EndRestore, Phases
  <1>4. ASSUME NEW p \in Projects, ChangeFile(p) PROVE TypeOK'
    <2>1. WorkspaceType'
      BY <1>4, <1>a DEF ChangeFile, WorkspaceType
    <2>. QED BY <1>4, <2>1, <1>b, <1>c, <1>e, TypeParts DEF ChangeFile
  <1>5. ASSUME NEW p \in Projects, BeginCommit(p) PROVE TypeOK'
    <2>1. ContentsOf(ws[p]) \in SUBSET (Paths \cup Contents)
      BY <1>5, <1>a DEF BeginCommit, ContentsOf, Files, WorkspaceType
    <2>2. PhaseType'
      BY <1>5, <2>1, <1>a, Entered DEF BeginCommit, Phases
    <2>. QED BY <1>5, <2>2, <1>b, <1>c, <1>d, TypeParts DEF BeginCommit
  <1>6. ASSUME NEW p \in Projects, SkipBlob(p) PROVE TypeOK'
    <2>1. PICK c \in todo[p] : Enter(p, "storing", todo[p] \ {c})
      BY <1>6 DEF SkipBlob
    <2>2. todo[p] \ {c} \in SUBSET (Paths \cup Contents)
      BY <1>f
    <2>3. PhaseType'
      BY <2>1, <2>2, <1>a, Entered DEF Phases
    <2>. QED BY <1>6, <2>3, <1>b, <1>c, <1>d, TypeParts DEF SkipBlob
  <1>7. ASSUME NEW p \in Projects, NEW c \in Contents, OpenBlob(p, c) PROVE TypeOK'
    <2>1. FileType'
      BY <1>7, <1>a DEF OpenBlob, FileType
    <2>. QED BY <1>7, <2>1, <1>a, <1>b, <1>d, <1>e, TypeParts DEF OpenBlob
  <1>8. ASSUME NEW p \in Projects, WriteBlob(p) PROVE TypeOK'
    <2>1. FileType'
      BY <1>8, <1>a DEF WriteBlob, FileType
    <2>. QED BY <1>8, <2>1, <1>b, <1>d, <1>e, TypeParts DEF WriteBlob
  <1>9. ASSUME NEW p \in Projects, RenameBlob(p) PROVE TypeOK'
    <2> DEFINE c == fd[p].content
    <2> DEFINE moved(q) == IF fd[q].content # c THEN fd[q].at
                           ELSE CASE fd[q].at = "tmp" -> "blob"
                                  [] fd[q].at = "blob" -> "gone"
                                  [] OTHER -> fd[q].at
    <2>1. /\ blob' = [blob EXCEPT ![c] = tmp[c]]
          /\ tmp' = [tmp EXCEPT ![c] = "none"]
          /\ fd' = [q \in Projects |-> IF q = p THEN Closed ELSE [fd[q] EXCEPT !.at = moved(q)]]
          /\ Enter(p, "storing", todo[p] \ {c})
      BY <1>9 DEF RenameBlob
    <2>2. blob' \in [Contents -> {"none", "short", "whole"}]
      BY <2>1, <1>a DEF FileType
    <2>3. tmp' \in [Contents -> {"none", "short", "whole"}]
      BY <2>1, <1>a DEF FileType
    <2>4. \A q \in Projects : moved(q) \in {"none", "tmp", "blob", "gone", "written"}
      BY <1>a DEF FileType
    <2>5. fd' \in [Projects -> [at : {"none", "tmp", "blob", "gone", "written"},
                                content : Contents \cup {NoFile}]]
      BY <2>1, <2>4, <1>a DEF FileType, Closed
    <2>6. todo[p] \ {c} \in SUBSET (Paths \cup Contents)
      BY <1>f
    <2>7. PhaseType'
      BY <2>1, <2>6, <1>a, Entered DEF Phases
    <2>. QED BY <1>9, <2>2, <2>3, <2>5, <2>7, <1>b, <1>d, TypeParts DEF RenameBlob, FileType
  <1>10. ASSUME NEW p \in Projects, InsertVersion(p) PROVE TypeOK'
    <2>1. ws[p] \in [Paths -> Contents \cup {NoFile, Torn}]
      BY <1>a DEF WorkspaceType
    <2>2. versions[p] \in Seq([Paths -> Contents \cup {NoFile, Torn}])
      BY <1>a DEF RowType
    <2>3. Append(versions[p], ws[p]) \in Seq([Paths -> Contents \cup {NoFile, Torn}])
      BY <2>1, <2>2
    <2>4. RowType'
      BY <1>10, <2>3, <1>a DEF InsertVersion, RowType
    <2>5. PhaseType'
      BY <1>10, <1>a, Entered DEF InsertVersion, Phases
    <2>. QED BY <1>10, <2>4, <2>5, <1>c, <1>d, TypeParts DEF InsertVersion
  <1>11. ASSUME NEW p \in Projects, EndRun(p) PROVE TypeOK'
    <2>1. PhaseType'
      BY <1>11, <1>a, Entered DEF EndRun, Phases
    <2>2. FileType'
      BY <1>11, <1>a DEF EndRun, FileType, Closed
    <2>. QED BY <1>11, <2>1, <2>2, <1>b, <1>d, TypeParts DEF EndRun
  <1>12. ASSUME Crash PROVE TypeOK'
    <2>1. PhaseType'
      BY <1>12, <1>a DEF Crash, PhaseType, Phases
    <2>2. FileType'
      BY <1>12, <1>a DEF Crash, FileType, Closed
    <2>. QED BY <1>12, <2>1, <2>2, <1>b, <1>d, TypeParts DEF Crash
  <1>13. ASSUME NEW p \in Projects, LoseWorkspace(p) PROVE TypeOK'
    <2>1. WorkspaceType'
      BY <1>13, <1>a DEF LoseWorkspace, WorkspaceType, Empty
    <2>. QED BY <1>13, <2>1, <1>b, <1>c, <1>e, TypeParts DEF LoseWorkspace
  <1>14. ASSUME NEW p \in Projects, NEW v \in 1 .. MaxVersions, Publish(p, v) PROVE TypeOK'
    <2>1. RowType'
      BY <1>14, <1>a DEF Publish, RowType
    <2>. QED BY <1>14, <2>1, <1>c, <1>d, <1>e, TypeParts DEF Publish
  <1>15. ASSUME NEW p \in Projects, Rollback(p) PROVE TypeOK'
    <2>1. RowType'
      BY <1>15, <1>a, StoreAssumption DEF Rollback, RowType
    <2>. QED BY <1>15, <2>1, <1>c, <1>d, <1>e, TypeParts DEF Rollback
  <1>16. ASSUME NEW p \in Projects, TearFile(p) PROVE TypeOK'
    <2>1. PICK f \in todo[p] : ws' = [ws EXCEPT ![p][f] = Torn]
      BY <1>16 DEF TearFile
    <2>2. WorkspaceType'
      <3>1. CASE f \in Paths
        BY <2>1, <3>1, <1>a DEF WorkspaceType
      <3>2. CASE f \notin Paths
        BY <2>1, <3>2, <1>a DEF WorkspaceType
      <3>. QED BY <3>1, <3>2
    <2>3. PhaseType'
      BY <1>16, <1>a, Entered DEF TearFile, Phases
    <2>. QED BY <1>16, <2>2, <2>3, <1>b, <1>c, TypeParts DEF TearFile
  <1>17. ASSUME UNCHANGED vars PROVE TypeOK'
    BY <1>17, <1>b, <1>c, <1>d, <1>e, TypeParts DEF vars
  <1>. QED
    BY <1>1, <1>2, <1>3, <1>4, <1>5, <1>6, <1>7, <1>8, <1>9, <1>10, <1>11, <1>12,
       <1>13, <1>14, <1>15, <1>16, <1>17
    DEF Next, OtherStep, RunStep

\* Types: no action puts a value of another kind into a file, a row or a phase.
THEOREM StoreTyped == Spec => []TypeOK
  BY TypeInit, TypeStep, PTL DEF Spec

-----------------------------------------------------------------------------
LEMMA AloneIsNext == [AloneNext]_vars => [Next]_vars
  BY DEF AloneNext, Next

LEMMA InvInit == Init => IInv
  <1> SUFFICES ASSUME Init PROVE IInv
    OBVIOUS
  <1>1. TypeOK
    BY TypeInit
  <1>2. WritersApart /\ BlobsAreWhole /\ StoredSoFar /\ RestoredSoFar
    BY StoreAssumption
    DEF Init, WritersApart, BlobsAreWhole, StoredSoFar, RestoredSoFar, Closed
  <1>3. RowsAreWhole
    BY DEF Init, RowsAreWhole, Numbers
  <1>. QED BY <1>1, <1>2, <1>3 DEF IInv

\* Files: writers stay apart and names never show half a blob.
LEMMA FileStep ==
    ASSUME IInv, [AloneNext]_vars
    PROVE  /\ WritersApart' /\ BlobsAreWhole'
           /\ \A c \in Contents : blob[c] = "whole" => blob'[c] = "whole"
  <1> DEFINE Goal == /\ WritersApart' /\ BlobsAreWhole'
                     /\ \A c \in Contents : blob[c] = "whole" => blob'[c] = "whole"
  <1>a. FileType /\ WritersApart /\ BlobsAreWhole
    BY TypeParts DEF IInv
  <1>1. ASSUME UNCHANGED casVars PROVE Goal
    BY <1>a, <1>1 DEF casVars, WritersApart, BlobsAreWhole
  <1>2. ASSUME NEW p \in Projects, NEW c \in Contents, Alone(p, c), OpenBlob(p, c) PROVE Goal
    BY <1>a, <1>2, StoreAssumption
    DEF OpenBlob, Alone, WritersApart, BlobsAreWhole, FileType, Closed
  <1>3. ASSUME NEW p \in Projects, WriteBlob(p) PROVE Goal
    BY <1>a, <1>3, StoreAssumption DEF WriteBlob, WritersApart, BlobsAreWhole, FileType, Closed
  <1>4. ASSUME NEW p \in Projects, RenameBlob(p) PROVE Goal
    <2> DEFINE c == fd[p].content
    <2>1. c \in Contents /\ tmp[c] = "whole" /\ \A q \in Projects \ {p} : fd[q].content # c
      BY <1>a, <1>4 DEF RenameBlob, WritersApart
    <2>2. fd' = [q \in Projects |-> IF q = p THEN Closed ELSE fd[q]]
      BY <1>a, <1>4, <2>1 DEF RenameBlob, FileType
    <2>. QED BY <1>a, <1>4, <2>1, <2>2, StoreAssumption
         DEF RenameBlob, WritersApart, BlobsAreWhole, FileType, Closed
  <1>5. ASSUME NEW p \in Projects, EndRun(p) PROVE Goal
    BY <1>a, <1>5, StoreAssumption DEF EndRun, WritersApart, BlobsAreWhole, FileType, Closed
  <1>6. ASSUME Crash PROVE Goal
    BY <1>a, <1>6, StoreAssumption DEF Crash, WritersApart, BlobsAreWhole, FileType, Closed
  <1>. QED
    BY <1>1, <1>2, <1>3, <1>4, <1>5, <1>6
    DEF AloneNext, OtherStep, RunStep, StartRun, RestoreFile, TearFile, EndRestore, ChangeFile,
        BeginCommit, SkipBlob, InsertVersion, LoseWorkspace, Publish, Rollback, vars

\* Rows are appended, so what a number names never changes.
LEMMA RowStep ==
    ASSUME TypeOK, [Next]_vars, NEW p \in Projects
    PROVE  /\ Len(versions[p]) \in Nat /\ Numbers(p) \subseteq Numbers(p)'
           /\ \A v \in Numbers(p) : versions'[p][v] = versions[p][v]
           /\ \A v \in Numbers(p)' : v \notin Numbers(p) =>
                /\ versions'[p][v] = ws[p]
                /\ phase[p] = "storing" /\ todo[p] = {}
  <1> DEFINE Goal ==
           /\ Len(versions[p]) \in Nat /\ Numbers(p) \subseteq Numbers(p)'
           /\ \A v \in Numbers(p) : versions'[p][v] = versions[p][v]
           /\ \A v \in Numbers(p)' : v \notin Numbers(p) =>
                /\ versions'[p][v] = ws[p]
                /\ phase[p] = "storing" /\ todo[p] = {}
  <1>a. RowType
    BY TypeParts
  <1>b. versions[p] \in Seq([Paths -> Contents \cup {NoFile, Torn}])
    BY <1>a DEF RowType
  <1>1. ASSUME versions'[p] = versions[p] PROVE Goal
    BY <1>1, <1>b DEF Numbers
  <1>2. ASSUME InsertVersion(p) PROVE Goal
    <2>1. CASE Committed(p, ws[p])
      BY <1>2, <2>1, <1>1 DEF InsertVersion
    <2>2. CASE ~Committed(p, ws[p])
      <3>1. versions'[p] = Append(versions[p], ws[p])
        BY <1>2, <2>2, <1>a DEF InsertVersion, RowType
      <3>. QED BY <1>2, <3>1, <1>b DEF InsertVersion, Numbers
    <2>. QED BY <2>1, <2>2
  <1>3. ASSUME NEW q \in Projects \ {p}, InsertVersion(q) PROVE Goal
    BY <1>3, <1>1, <1>a DEF InsertVersion, RowType
  <1>4. ASSUME UNCHANGED versions PROVE Goal
    <2>1. versions'[p] = versions[p]
      BY <1>4
    <2>. QED BY <2>1, <1>1
  <1>. QED
    BY <1>2, <1>3, <1>4
    DEF Next, OtherStep, RunStep, StartRun, RestoreFile, TearFile, EndRestore, ChangeFile,
        BeginCommit, SkipBlob, OpenBlob, WriteBlob, RenameBlob, EndRun, Crash,
        LoseWorkspace, Publish, Rollback, vars, rowVars

LEMMA RowsStayWhole == IInv /\ [AloneNext]_vars => RowsAreWhole'
  <1> SUFFICES ASSUME IInv, [AloneNext]_vars,
                      NEW p \in Projects, NEW v \in Numbers(p)', NEW f \in Paths,
                      versions'[p][v][f] # NoFile
               PROVE  /\ versions'[p][v][f] \in Contents
                      /\ blob'[versions'[p][v][f]] = "whole"
    BY DEF RowsAreWhole
  <1>1. CASE v \in Numbers(p)
    BY <1>1, RowStep, AloneIsNext, FileStep DEF IInv, RowsAreWhole
  <1>2. CASE v \notin Numbers(p)
    BY <1>2, RowStep, AloneIsNext, FileStep DEF IInv, StoredSoFar
  <1>. QED BY <1>1, <1>2

\* A commit that goes on has stored more, and nothing is unstored.
LEMMA StoringStep == IInv /\ [AloneNext]_vars => StoredSoFar'
  <1> SUFFICES ASSUME IInv, [AloneNext]_vars, NEW p \in Projects, phase'[p] = "storing",
                      NEW f \in Paths, ws'[p][f] # NoFile
               PROVE  /\ ws'[p][f] \in Contents
                      /\ ws'[p][f] \in todo'[p] \/ blob'[ws'[p][f]] = "whole"
    BY DEF StoredSoFar
  <1> DEFINE Goal == /\ ws'[p][f] \in Contents
                     /\ ws'[p][f] \in todo'[p] \/ blob'[ws'[p][f]] = "whole"
  <1>a. WorkspaceType /\ PhaseType /\ FileType /\ StoredSoFar /\ WritersApart /\ BlobsAreWhole
    BY TypeParts DEF IInv
  <1>b. \A c \in Contents : blob[c] = "whole" => blob'[c] = "whole"
    BY FileStep
  <1>1. ASSUME ws'[p] = ws[p], phase[p] = "storing", todo'[p] = todo[p] PROVE Goal
    BY <1>1, <1>a, <1>b DEF StoredSoFar
  <1>2. ASSUME BeginCommit(p) PROVE Goal
    BY <1>2, <1>a DEF BeginCommit, Enter, ContentsOf, Files, WorkspaceType, PhaseType
  <1>3. ASSUME SkipBlob(p) PROVE Goal
    BY <1>3, <1>a DEF SkipBlob, Enter, PhaseType, StoredSoFar, BlobsAreWhole, FileType, casVars
  <1>4. ASSUME RenameBlob(p) PROVE Goal
    <2> DEFINE c == fd[p].content
    <2>1. c \in Contents /\ tmp[c] = "whole"
      BY <1>4, <1>a DEF RenameBlob, WritersApart
    <2>2. blob'[c] = "whole" /\ todo'[p] = todo[p] \ {c} /\ ws' = ws
      BY <1>4, <1>a, <2>1 DEF RenameBlob, Enter, FileType, PhaseType
    <2>3. phase[p] = "storing"
      BY <1>4, <1>a DEF RenameBlob, WritersApart
    <2>. QED BY <1>a, <1>b, <2>1, <2>2, <2>3 DEF StoredSoFar
  <1>5. ASSUME NEW q \in Projects, RunStep(q), q # p PROVE Goal
    BY <1>5, <1>1, <1>a
    DEF RunStep, StartRun, RestoreFile, TearFile, EndRestore, ChangeFile, BeginCommit, SkipBlob,
        WriteBlob, RenameBlob, InsertVersion, EndRun, Enter, PhaseType, WorkspaceType
  <1>6. ASSUME RunStep(p) PROVE Goal
    BY <1>6, <1>1, <1>2, <1>3, <1>4, <1>a
    DEF RunStep, StartRun, RestoreFile, TearFile, EndRestore, ChangeFile,
        WriteBlob, InsertVersion, EndRun, Enter, PhaseType, WorkspaceType
  <1>7. ASSUME NEW q \in Projects, LoseWorkspace(q) PROVE Goal
    BY <1>7, <1>1, <1>a DEF LoseWorkspace, WorkspaceType
  <1>8. ASSUME Crash PROVE Goal
    BY <1>8 DEF Crash
  <1>9. CASE UNCHANGED <<ws, phase, todo>>
    BY <1>9, <1>1
  <1>. QED
    BY <1>5, <1>6, <1>7, <1>8, <1>9
    DEF AloneNext, OtherStep, OpenBlob, Publish, Rollback, vars

\* A restore copies the newest row's files and meanwhile nobody commits.
LEMMA RestoringStep == IInv /\ [AloneNext]_vars => RestoredSoFar'
  <1> SUFFICES ASSUME IInv, [AloneNext]_vars, NEW p \in Projects, phase'[p] = "restoring"
               PROVE  /\ versions'[p] # <<>>
                      /\ \A f \in Paths : f \notin todo'[p] => ws'[p][f] = Latest(p)'[f]
                      /\ todo'[p] \subseteq Files(Latest(p)')
    BY DEF RestoredSoFar
  <1> DEFINE Goal == /\ versions'[p] # <<>>
                     /\ \A f \in Paths : f \notin todo'[p] => ws'[p][f] = Latest(p)'[f]
                     /\ todo'[p] \subseteq Files(Latest(p)')
  <1>a. WorkspaceType /\ PhaseType /\ FileType /\ RowType /\ RestoredSoFar
    BY TypeParts DEF IInv
  <1>b. versions'[p] = versions[p] => Latest(p)' = Latest(p)
    BY DEF Latest, VersionFiles, Numbers
  <1>1. ASSUME ws'[p] = ws[p], phase[p] = "restoring", todo'[p] = todo[p],
               versions'[p] = versions[p]
        PROVE  Goal
    BY <1>1, <1>a, <1>b DEF RestoredSoFar
  <1>2. ASSUME StartRun(p) PROVE Goal
    <2>1. ws[p] = Empty /\ versions[p] # <<>> /\ todo'[p] = Files(Latest(p))
      BY <1>2, <1>a DEF StartRun, Enter, PhaseType
    <2>2. ws' = ws /\ versions' = versions
      BY <1>2 DEF StartRun, rowVars
    <2>. QED BY <2>1, <2>2, <1>b DEF Files, Empty
  <1>3. ASSUME RestoreFile(p) PROVE Goal
    <2>1. PICK f \in todo[p] :
            /\ blob[Latest(p)[f]] # "none"
            /\ ws' = [ws EXCEPT ![p][f] = IF blob[Latest(p)[f]] = "whole" THEN Latest(p)[f] ELSE Torn]
            /\ Enter(p, phase[p], todo[p] \ {f})
      BY <1>3 DEF RestoreFile, ReadBlob
    <2>2. versions' = versions /\ phase[p] = "restoring"
      BY <1>3 DEF RestoreFile, rowVars
    <2>3. f \in Paths /\ Latest(p)[f] # NoFile
      BY <2>2, <1>a DEF RestoredSoFar, Files
    <2>4. Len(versions[p]) \in Numbers(p)
      BY <2>2, <1>a DEF RestoredSoFar, RowType, Numbers
    <2>5. blob[Latest(p)[f]] = "whole"
      BY <2>3, <2>4 DEF IInv, RowsAreWhole, Latest, VersionFiles
    <2>6. ws'[p] = [ws[p] EXCEPT ![f] = Latest(p)[f]] /\ todo'[p] = todo[p] \ {f}
      BY <2>1, <2>5, <1>a DEF Enter, WorkspaceType, PhaseType
    <2>. QED BY <2>2, <2>3, <2>6, <1>a, <1>b DEF RestoredSoFar, WorkspaceType
  <1>4. ASSUME NEW q \in Projects, RunStep(q), q # p PROVE Goal
    BY <1>4, <1>1, <1>a
    DEF RunStep, StartRun, RestoreFile, TearFile, EndRestore, ChangeFile, BeginCommit, SkipBlob,
        WriteBlob, RenameBlob, InsertVersion, EndRun, Enter, PhaseType, WorkspaceType,
        RowType, rowVars
  <1>5. ASSUME RunStep(p) PROVE Goal
    BY <1>5, <1>1, <1>2, <1>3, <1>a
    DEF RunStep, TearFile, EndRestore, ChangeFile, BeginCommit, SkipBlob, WriteBlob,
        RenameBlob, InsertVersion, EndRun, Enter, PhaseType, WorkspaceType, rowVars
  <1>6. ASSUME NEW q \in Projects, LoseWorkspace(q) PROVE Goal
    BY <1>6, <1>1, <1>a DEF LoseWorkspace, WorkspaceType, rowVars
  <1>7. ASSUME Crash PROVE Goal
    BY <1>7 DEF Crash
  <1>8. ASSUME UNCHANGED <<ws, phase, todo, versions>> PROVE Goal
    BY <1>8, <1>1
  <1>9. Goal
    BY <1>4, <1>5, <1>6, <1>7, <1>8
    DEF AloneNext, OtherStep, OpenBlob, Publish, Rollback, vars, rowVars
  <1>. QED BY <1>9

\* The pointer moves to a row that is there, and rows stay.
LEMMA LiveStep == TypeOK /\ LiveIsServable /\ [Next]_vars => LiveIsServable'
  <1> SUFFICES ASSUME TypeOK, LiveIsServable, [Next]_vars, NEW p \in Projects, live'[p] # 0
               PROVE  live'[p] \in Numbers(p)' /\ Servable(versions'[p][live'[p]])
    BY DEF LiveIsServable
  <1> DEFINE Goal == live'[p] \in Numbers(p)' /\ Servable(versions'[p][live'[p]])
  <1>a. RowType /\ LiveIsServable
    BY TypeParts
  <1>1. ASSUME live'[p] = live[p] PROVE Goal
    BY <1>1, <1>a, RowStep DEF LiveIsServable
  <1>2. ASSUME NEW v, Servable(VersionFiles(p, v)), live'[p] = v, versions' = versions PROVE Goal
    BY <1>2, StoreAssumption DEF VersionFiles, Servable, Empty, Numbers
  <1>3. ASSUME NEW q \in Projects, NEW v \in 1 .. MaxVersions, Publish(q, v) PROVE Goal
    BY <1>1, <1>2, <1>3, <1>a DEF Publish, RowType
  <1>4. ASSUME NEW q \in Projects, Rollback(q) PROVE Goal
    BY <1>1, <1>2, <1>4, <1>a DEF Rollback, RowType
  <1>5. ASSUME UNCHANGED live PROVE Goal
    BY <1>1, <1>5
  <1>6. Goal
    BY <1>3, <1>4, <1>5
    DEF Next, OtherStep, RunStep, StartRun, RestoreFile, TearFile, EndRestore, ChangeFile,
        BeginCommit, SkipBlob, OpenBlob, WriteBlob, RenameBlob, InsertVersion, EndRun,
        Crash, LoseWorkspace, vars, rowVars
  <1>. QED BY <1>6

\* What a commit is about to insert, and what was inserted, can be served.
CommitsServable ==
    /\ \A p \in Projects : phase[p] = "storing" => Servable(ws[p])
    /\ \A p \in Projects : \A v \in Numbers(p) : Servable(versions[p][v])

LEMMA ServableInit == Init => CommitsServable
  BY DEF Init, CommitsServable, Numbers

LEMMA ServableStep == TypeOK /\ CommitsServable /\ [Next]_vars => CommitsServable'
  <1> SUFFICES ASSUME TypeOK, CommitsServable, [Next]_vars, NEW p \in Projects
               PROVE  /\ phase'[p] = "storing" => Servable(ws'[p])
                      /\ \A v \in Numbers(p)' : Servable(versions'[p][v])
    BY DEF CommitsServable, Servable
  <1>a. WorkspaceType /\ PhaseType
    BY TypeParts
  <1>1. \A v \in Numbers(p)' : Servable(versions'[p][v])
    BY RowStep DEF CommitsServable
  <1> DEFINE Goal == phase'[p] = "storing" => Servable(ws'[p])
  <1>2. ASSUME ws'[p] = ws[p], phase[p] = "storing" \/ Servable(ws[p]) PROVE Goal
    BY <1>2 DEF CommitsServable
  <1>3. ASSUME NEW q \in Projects, RunStep(q), q # p PROVE Goal
    <2>1. ws'[p] = ws[p] /\ phase'[p] = phase[p]
      BY <1>3, <1>a
      DEF RunStep, StartRun, RestoreFile, TearFile, EndRestore, ChangeFile, BeginCommit, SkipBlob,
          WriteBlob, RenameBlob, InsertVersion, EndRun, Enter, PhaseType, WorkspaceType
    <2>. QED BY <2>1, <1>2
  <1>4. ASSUME RunStep(p) PROVE Goal
    <2>1. phase'[p] = "storing" => ws'[p] = ws[p] /\ (phase[p] = "storing" \/ Servable(ws[p]))
      BY <1>4, <1>a
      DEF RunStep, StartRun, RestoreFile, TearFile, EndRestore, ChangeFile, BeginCommit, SkipBlob,
          WriteBlob, RenameBlob, InsertVersion, EndRun, Enter, PhaseType, WorkspaceType
    <2>. QED BY <2>1, <1>2
  <1>5. ASSUME NEW q \in Projects, LoseWorkspace(q) PROVE Goal
    <2>1. phase'[p] = "storing" => ws'[p] = ws[p] /\ phase[p] = "storing"
      BY <1>5, <1>a DEF LoseWorkspace, WorkspaceType
    <2>. QED BY <2>1, <1>2
  <1>6. ASSUME Crash PROVE Goal
    BY <1>6 DEF Crash
  <1>7. ASSUME UNCHANGED <<ws, phase>> PROVE Goal
    BY <1>7 DEF CommitsServable
  <1>8. Goal
    BY <1>3, <1>4, <1>5, <1>6, <1>7
    DEF Next, OtherStep, OpenBlob, Publish, Rollback, vars
  <1>. QED BY <1>1, <1>8

\* "A version exists only if the vertical can serve it, and the live pointer only
\* ever targets one that exists" (components.md:234), whoever writes blobs together.
THEOREM ServableOnly == Spec => [](CommitsServable /\ LiveIsServable)
  <1> DEFINE Inv == TypeOK /\ CommitsServable /\ LiveIsServable
  <1>1. Init => Inv
    BY TypeInit, ServableInit DEF Init, LiveIsServable
  <1>2. Inv /\ [Next]_vars => Inv'
    BY TypeStep, ServableStep, LiveStep
  <1>. QED BY <1>1, <1>2, PTL DEF Spec

LEMMA Inductive == AloneSpec => []IInv
  <1>1. IInv /\ [AloneNext]_vars => IInv'
    BY TypeStep, AloneIsNext, FileStep, RowsStayWhole, StoringStep, RestoringStep
    DEF IInv
  <1>. QED BY InvInit, <1>1, PTL DEF AloneSpec

\* Every version can be rebuilt and served, whatever crashed beside its commit.
THEOREM VersionsWhole == AloneSpec => []VersionsAreWhole
  <1>1. IInv => VersionsAreWhole
    BY DEF IInv, RowsAreWhole, VersionsAreWhole, ContentsOf, Files
  <1>. QED BY <1>1, Inductive, PTL

\* A finished restore has reproduced the newest version, file by file.
THEOREM Restored == AloneSpec => RestoreReproduces
  <1> DEFINE Step == \A p \in Projects :
        phase[p] = "restoring" /\ phase'[p] = "working" => ws[p] = Latest(p)
  <1>1. IInv /\ [AloneNext]_vars => [Step]_vars
    <2> SUFFICES ASSUME IInv, AloneNext, NEW p \in Projects,
                        phase[p] = "restoring", phase'[p] = "working"
                 PROVE  ws[p] = Latest(p)
      OBVIOUS
    <2>a. WorkspaceType /\ PhaseType /\ RowType /\ RestoredSoFar
      BY TypeParts DEF IInv
    <2>1. todo[p] = {}
      BY <2>a
      DEF AloneNext, OtherStep, RunStep, StartRun, RestoreFile, TearFile, EndRestore, ChangeFile,
          BeginCommit, SkipBlob, OpenBlob, WriteBlob, RenameBlob, InsertVersion, EndRun,
          Crash, LoseWorkspace, Publish, Rollback, Enter, PhaseType, Phases
    <2>2. \A f \in Paths : ws[p][f] = Latest(p)[f]
      BY <2>1, <2>a DEF RestoredSoFar
    <2>. QED BY <2>2, <2>a, LatestType DEF WorkspaceType
  <1>2. AloneSpec => [][Step]_vars
    BY <1>1, Inductive, PTL DEF AloneSpec
  <1>. QED BY <1>2 DEF RestoreReproduces

-----------------------------------------------------------------------------
(***************************************************************************)
(* ProjectStore implements ArtifactHistory when no two commits write the   *)
(* same blob at once.                                                      *)
(***************************************************************************)

\* What can be read is what was committed.
RowsAreRead == Readable = versions

LEMMA RowsRead == IInv => RowsAreRead
  <1> SUFFICES ASSUME IInv PROVE RowsAreRead
    OBVIOUS
  <1>a. versions \in [Projects -> Seq([Paths -> Contents \cup {NoFile, Torn}])]
    BY DEF IInv, TypeOK
  <1>1. ASSUME NEW p \in Projects, NEW v \in Numbers(p)
        PROVE  Served(versions[p][v]) = versions[p][v]
    <2>1. versions[p][v] \in [Paths -> Contents \cup {NoFile, Torn}]
      BY <1>a, <1>1 DEF Numbers
    <2>2. \A f \in Paths : versions[p][v][f] # NoFile => ReadBlob(versions[p][v][f]) = versions[p][v][f]
      BY <1>1 DEF IInv, RowsAreWhole, ReadBlob
    <2>. QED BY <2>1, <2>2 DEF Served
  <1>2. ASSUME NEW p \in Projects
        PROVE  [v \in Numbers(p) |-> Served(versions[p][v])] = versions[p]
    <2>1. versions[p] = [v \in Numbers(p) |-> versions[p][v]]
      BY <1>a DEF Numbers
    <2>. QED BY <1>1, <2>1
  <1>3. versions = [p \in Projects |-> versions[p]]
    BY <1>a
  <1>. QED BY <1>2, <1>3 DEF RowsAreRead, Readable

\* Every step of the store adds a version, moves the pointer or shows readers
\* nothing new.
LEMMA HistoryStep ==
    ASSUME IInv, CommitsServable, RowsAreRead, RowsAreRead', [AloneNext]_vars
    PROVE  [History!Next]_(History!vars)
  <1>a. WorkspaceType /\ PhaseType /\ RowType /\ StoredSoFar
    BY TypeParts DEF IInv
  <1>b. Readable = versions /\ Readable' = versions'
    BY DEF RowsAreRead
  <1>c. \A p \in Projects : DOMAIN versions[p] = Numbers(p)
    BY <1>a DEF RowType, Numbers
  <1> DEFINE Goal == [History!Next]_(History!vars)
  <1>1. ASSUME UNCHANGED rowVars PROVE Goal
    BY <1>1, <1>b DEF rowVars, History!vars
  <1>2. ASSUME NEW p \in Projects, InsertVersion(p) PROVE Goal
    <2>1. CASE Committed(p, ws[p])
      BY <1>1, <1>2, <2>1 DEF InsertVersion, rowVars
    <2>2. CASE ~Committed(p, ws[p])
      <3>1. versions' = [versions EXCEPT ![p] = Append(@, ws[p])] /\ live' = live
        BY <1>2, <2>2 DEF InsertVersion
      <3>2. ws[p] \in History!Artifacts
        <4>1. Servable(ws[p])
          BY <1>2 DEF InsertVersion, CommitsServable
        <4>2. \A f \in Paths : ws[p][f] \in Contents \cup {NoFile}
          BY <1>2, <1>a DEF InsertVersion, StoredSoFar
        <4>3. ws[p] \in [Paths -> Contents \cup {NoFile}]
          BY <4>2, <1>a DEF WorkspaceType
        <4>. QED BY <4>1, <4>3 DEF Servable, History!Artifacts
      <3>3. \A v \in DOMAIN versions[p] : versions[p][v] # ws[p]
        BY <2>2, <1>c DEF Committed
      <3>4. versions'[p] # versions[p]
        <4>1. versions[p] \in Seq([Paths -> Contents \cup {NoFile, Torn}])
          BY <1>a DEF RowType
        <4>2. versions'[p] = Append(versions[p], ws[p])
          BY <3>1, <1>a DEF RowType
        <4>3. ws[p] \in [Paths -> Contents \cup {NoFile, Torn}]
          BY <1>a DEF WorkspaceType
        <4>4. Len(Append(versions[p], ws[p])) = Len(versions[p]) + 1 /\ Len(versions[p]) \in Nat
          BY <4>1, <4>3
        <4>. QED BY <4>2, <4>4
      <3>5. History!Add(p, ws[p])
        BY <3>1, <3>3, <1>b DEF History!Add
      <3>. QED BY <3>2, <3>4, <3>5, <1>b DEF History!Next
    <2>. QED BY <2>1, <2>2
  <1>3. ASSUME NEW p \in Projects, NEW v \in Numbers(p),
               live' = [live EXCEPT ![p] = v], UNCHANGED versions
        PROVE  Goal
    <2>1. History!GoLive(p, v)
      BY <1>3, <1>b DEF History!GoLive
    <2>2. v \in DOMAIN Readable[p]
      BY <1>3, <1>b, <1>c
    <2>. QED BY <2>1, <2>2 DEF History!Next
  <1>4. ASSUME NEW p \in Projects, NEW v \in 1 .. MaxVersions, Publish(p, v) PROVE Goal
    <2>1. v \in Numbers(p)
      BY <1>4, StoreAssumption DEF Publish, VersionFiles, Servable, Empty
    <2>. QED BY <1>3, <1>4, <2>1 DEF Publish
  <1>5. ASSUME NEW p \in Projects, Rollback(p) PROVE Goal
    <2>1. live[p] - 1 \in Numbers(p)
      BY <1>5, StoreAssumption DEF Rollback, VersionFiles, Servable, Empty
    <2>2. live' = [live EXCEPT ![p] = live[p] - 1] /\ UNCHANGED versions
      BY <1>5 DEF Rollback
    <2>. QED BY <1>3, <2>1, <2>2
  <1>. QED
    BY <1>1, <1>2, <1>4, <1>5
    DEF AloneNext, OtherStep, RunStep, StartRun, RestoreFile, TearFile, EndRestore, ChangeFile,
        BeginCommit, SkipBlob, OpenBlob, WriteBlob, RenameBlob, EndRun, Crash,
        LoseWorkspace, vars, rowVars

LEMMA HistoryInit == Init => History!Init
  <1> SUFFICES ASSUME Init PROVE History!Init
    OBVIOUS
  <1>1. Readable = [p \in Projects |-> <<>>]
    <2>1. IInv
      BY InvInit
    <2>. QED BY <2>1, RowsRead DEF RowsAreRead, Init
  <1>. QED BY <1>1 DEF Init, History!Init

\* Readers see whole, unchanging versions and a page that is one of them:
\* the store implements ArtifactHistory.
THEOREM HistoryKept == AloneSpec => KeepsHistory
  <1> DEFINE Inv == IInv /\ CommitsServable
  <1>1. IInv /\ CommitsServable /\ [AloneNext]_vars => CommitsServable'
    BY ServableStep, AloneIsNext DEF IInv
  <1>2. AloneSpec => []Inv
    BY Inductive, ServableInit, <1>1, PTL DEF AloneSpec
  <1>3. Inv => RowsAreRead
    BY RowsRead
  <1>4. Inv /\ RowsAreRead /\ RowsAreRead' /\ [AloneNext]_vars => [History!Next]_(History!vars)
    BY HistoryStep
  <1>. QED BY <1>2, <1>3, <1>4, HistoryInit, PTL DEF KeepsHistory, History!Spec, AloneSpec
=============================================================================
