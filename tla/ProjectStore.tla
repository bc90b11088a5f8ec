---------------------------- MODULE ProjectStore ----------------------------
(***************************************************************************)
(* The project store, internal/project/store.go, with the workspaces of    *)
(* internal/workspace/local.go and the pointer to the published version of *)
(* internal/publish/publish.go.                                            *)
(*                                                                         *)
(* A version's id is the hash of its manifest, so here a version is its    *)
(* manifest: a function from paths to contents.  Blobs are files of one    *)
(* directory that all projects share; a row is inserted by one transaction *)
(* after the blobs have been written.  Each project has one worker at a    *)
(* time (OneOwnerPerProject of RunCoordinator), named by its project.      *)
(***************************************************************************)
EXTENDS Integers, Sequences, Functions

CONSTANTS
    Projects,
    Paths,        \* paths in a workspace
    Home,         \* the required file, index.html
    Contents,     \* contents of files; a blob is named by its content's hash
    NoFile,       \* no file at this path
    Torn,         \* a content cut short
    MaxVersions   \* bound: rows in `versions`

ASSUME StoreAssumption ==
    /\ Home \in Paths
    /\ NoFile \notin Contents /\ Torn \notin Contents /\ NoFile # Torn
    /\ MaxVersions \in Nat

VARIABLES
    ws,          \* the workspace directory of each project
    phase,       \* what each project's worker is doing
    todo,        \* paths to restore, or contents to store
    blob,        \* of each content, its blob: "none", "short", "whole"
    tmp,         \* the same of the file the blob is written to first
    fd,          \* of each worker: the file it has open for writing
    versions,    \* versions of each project in the order of seq
    live         \* published.version_id, as a number of `versions`, 0 for none

casVars == <<blob, tmp, fd>>
rowVars == <<versions, live>>
vars == <<ws, phase, todo, casVars, rowVars>>

Empty == [f \in Paths |-> NoFile]
Files(m) == {f \in Paths : m[f] # NoFile}
ContentsOf(m) == {m[f] : f \in Files(m)}

\* Profile.ValidateArtifact, the mint gate and the gate of the live pointer.
Servable(m) == m[Home] # NoFile

Closed == [at |-> "none", content |-> NoFile]

\* Version ids that have a row, and the manifest a read finds (empty without).
Numbers(p) == 1 .. Len(versions[p])
VersionFiles(p, v) == IF v \in Numbers(p) THEN versions[p][v] ELSE Empty

Latest(p) == VersionFiles(p, Len(versions[p]))

\* Open: what a reader gets for a blob's name, and for a version's files.
ReadBlob(c) == IF blob[c] = "whole" THEN c ELSE Torn
Served(m) == [f \in Paths |-> IF m[f] = NoFile THEN NoFile ELSE ReadBlob(m[f])]

\* All that can be read, version by version.
Readable == [p \in Projects |-> [v \in Numbers(p) |-> Served(versions[p][v])]]

\* The same content has a row.
Committed(p, m) == \E v \in Numbers(p) : versions[p][v] = m

\* Rows of all projects.
Rows == FoldFunction(LAMBDA vs, n : Len(vs) + n, 0, versions)

-----------------------------------------------------------------------------
Init ==
    /\ ws = [p \in Projects |-> Empty]
    /\ phase = [p \in Projects |-> "idle"]
    /\ todo = [p \in Projects |-> {}]
    /\ blob = [c \in Contents |-> "none"]
    /\ tmp = [c \in Contents |-> "none"]
    /\ fd = [p \in Projects |-> Closed]
    /\ versions = [p \in Projects |-> <<>>]
    /\ live = [p \in Projects |-> 0]

\* The worker enters `to` with this left to do; nothing else changes but what
\* the caller says.
Enter(p, to, work) ==
    /\ phase' = [phase EXCEPT ![p] = to]
    /\ todo' = [todo EXCEPT ![p] = work]

\* Execute: an empty workspace with committed history is rebuilt first.
StartRun(p) ==
    /\ phase[p] = "idle"
    /\ IF ws[p] = Empty /\ versions[p] # <<>>
       THEN Enter(p, "restoring", Files(Latest(p)))
       ELSE Enter(p, "working", {})
    /\ UNCHANGED <<ws, casVars, rowVars>>

\* Materialize: file by file, from the blobs.  A missing blob fails the run.
RestoreFile(p) ==
    /\ phase[p] = "restoring"
    /\ \E f \in todo[p] :
        LET c == Latest(p)[f]
        IN  /\ blob[c] # "none"
            /\ ws' = [ws EXCEPT ![p][f] = ReadBlob(c)]
            /\ Enter(p, phase[p], todo[p] \ {f})
    /\ UNCHANGED <<casVars, rowVars>>

\* The write of a file is cut short, by an error, which fails the run, or with
\* the process: the workspace keeps the stump.
TearFile(p) ==
    /\ phase[p] = "restoring"
    /\ \E f \in todo[p] : ws' = [ws EXCEPT ![p][f] = Torn]
    /\ Enter(p, "idle", {})
    /\ UNCHANGED <<casVars, rowVars>>

\* Fault: the restore ends after the first file.
EndRestoreEarly(p) ==
    /\ phase[p] = "restoring" /\ todo[p] # Files(Latest(p))
    /\ Enter(p, "working", {})
    /\ UNCHANGED <<ws, casVars, rowVars>>

EndRestore(p) ==
    /\ phase[p] = "restoring" /\ todo[p] = {}
    /\ Enter(p, "working", {})
    /\ UNCHANGED <<ws, casVars, rowVars>>

\* write_file and delete_file of the model's tool calls.
ChangeFile(p) ==
    /\ phase[p] = "working"
    /\ \E f \in Paths, c \in Contents \cup {NoFile} :
        c # ws[p][f] /\ ws' = [ws EXCEPT ![p][f] = c]
    /\ UNCHANGED <<phase, todo, casVars, rowVars>>

\* Commit reads the workspace and vets it; a refusal leaves nothing behind.
\* Bounds: MaxVersions, and torn files are not committed on.
BeginCommit(p) ==
    /\ phase[p] = "working" /\ Servable(ws[p])
    /\ Torn \notin ContentsOf(ws[p])
    /\ Committed(p, ws[p]) \/ Rows < MaxVersions
    /\ Enter(p, "storing", ContentsOf(ws[p]))
    /\ UNCHANGED <<ws, casVars, rowVars>>

\* Stat: the blob is there.
SkipBlob(p) ==
    /\ phase[p] = "storing" /\ fd[p] = Closed
    /\ \E c \in todo[p] : blob[c] # "none" /\ Enter(p, "storing", todo[p] \ {c})
    /\ UNCHANGED <<ws, casVars, rowVars>>

\* Fault: the blob is written under its own name.
OpenInPlace(p, c) ==
    /\ phase[p] = "storing" /\ fd[p] = Closed
    /\ c \in todo[p] /\ blob[c] = "none"
    /\ blob' = [blob EXCEPT ![c] = "short"]
    /\ fd' = [fd EXCEPT ![p] = [at |-> "blob", content |-> c]]
    /\ UNCHANGED <<ws, phase, todo, tmp, rowVars>>

\* WriteFile, first half: the temporary file is created or cut to nothing.
OpenBlob(p, c) ==
    /\ phase[p] = "storing" /\ fd[p] = Closed
    /\ c \in todo[p] /\ blob[c] = "none"
    /\ tmp' = [tmp EXCEPT ![c] = "short"]
    /\ fd' = [fd EXCEPT ![p] = [at |-> "tmp", content |-> c]]
    /\ UNCHANGED <<ws, phase, todo, blob, rowVars>>

\* WriteFile, second half: into the file that was opened, wherever another
\* worker's rename has moved it since.
WriteBlob(p) ==
    LET c == fd[p].content
    IN  /\ fd[p].at \in {"tmp", "blob", "gone"}
        /\ tmp' = IF fd[p].at = "tmp" THEN [tmp EXCEPT ![c] = "whole"] ELSE tmp
        /\ blob' = IF fd[p].at = "blob" THEN [blob EXCEPT ![c] = "whole"] ELSE blob
        /\ fd' = [fd EXCEPT ![p].at = "written"]
        /\ UNCHANGED <<ws, phase, todo, rowVars>>

\* Rename replaces a blob that is there and takes the temporary name away from
\* other writers; without a temporary file it fails.
RenameBlob(p) ==
    LET c == fd[p].content
        moved(q) == IF fd[q].content # c THEN fd[q].at
                    ELSE CASE fd[q].at = "tmp" -> "blob"
                           [] fd[q].at = "blob" -> "gone"
                           [] OTHER -> fd[q].at
    IN  /\ phase[p] = "storing" /\ fd[p].at = "written" /\ tmp[c] # "none"
        /\ blob' = [blob EXCEPT ![c] = tmp[c]]
        /\ tmp' = [tmp EXCEPT ![c] = "none"]
        /\ fd' = [q \in Projects |-> IF q = p THEN Closed ELSE [fd[q] EXCEPT !.at = moved(q)]]
        /\ Enter(p, "storing", todo[p] \ {c})
        /\ UNCHANGED <<ws, rowVars>>

\* The transaction: a row, unless the same content has one.
InsertVersion(p) ==
    /\ phase[p] = "storing" /\ todo[p] = {} /\ fd[p] = Closed
    /\ versions' = IF Committed(p, ws[p])
                   THEN versions
                   ELSE [versions EXCEPT ![p] = Append(@, ws[p])]
    /\ Enter(p, "working", {})
    /\ UNCHANGED <<ws, casVars, live>>

\* The run ends, or fails at any point: a refusal, a file or a blob that cannot
\* be read or written, a lost lease.
EndRun(p) ==
    /\ phase[p] # "idle"
    /\ Enter(p, "idle", {})
    /\ fd' = [fd EXCEPT ![p] = Closed]
    /\ UNCHANGED <<ws, blob, tmp, rowVars>>

\* The process dies: files and rows stay as they are.
Crash ==
    /\ \E p \in Projects : phase[p] # "idle"
    /\ phase' = [p \in Projects |-> "idle"]
    /\ todo' = [p \in Projects |-> {}]
    /\ fd' = [p \in Projects |-> Closed]
    /\ UNCHANGED <<ws, blob, tmp, rowVars>>

\* A workspace directory is lost between runs.
LoseWorkspace(p) ==
    /\ phase[p] = "idle" /\ ws[p] # Empty
    /\ ws' = [ws EXCEPT ![p] = Empty]
    /\ UNCHANGED <<phase, todo, casVars, rowVars>>

\* Fault: the version is taken from the client as it is.
PublishUnchecked(p, v) ==
    /\ live[p] # v
    /\ live' = [live EXCEPT ![p] = v]
    /\ UNCHANGED <<ws, phase, todo, casVars, versions>>

\* The version is the client's, known or not; the newest if it names none.
Publish(p, v) ==
    /\ Servable(VersionFiles(p, v)) /\ live[p] # v
    /\ live' = [live EXCEPT ![p] = v]
    /\ UNCHANGED <<ws, phase, todo, casVars, versions>>

\* Fault: a project without a published version is rolled back.
RollbackUnpublished(p) ==
    /\ live[p] # 1
    /\ live' = [live EXCEPT ![p] = @ - 1]
    /\ UNCHANGED <<ws, phase, todo, casVars, versions>>

\* parent_id is the version before; the first has none.
Rollback(p) ==
    /\ live[p] > 1 /\ Servable(VersionFiles(p, live[p] - 1))
    /\ live' = [live EXCEPT ![p] = @ - 1]
    /\ UNCHANGED <<ws, phase, todo, casVars, versions>>

-----------------------------------------------------------------------------
RunStep(p) ==
    \/ StartRun(p) \/ RestoreFile(p) \/ TearFile(p) \/ EndRestore(p) \/ ChangeFile(p)
    \/ BeginCommit(p) \/ SkipBlob(p) \/ WriteBlob(p) \/ RenameBlob(p)
    \/ InsertVersion(p) \/ EndRun(p)

OtherStep ==
    \/ \E p \in Projects : RunStep(p) \/ LoseWorkspace(p) \/ Rollback(p)
    \/ \E p \in Projects, v \in 1 .. MaxVersions : Publish(p, v)
    \/ Crash

Next == OtherStep \/ \E p \in Projects, c \in Contents : OpenBlob(p, c)

Spec == Init /\ [][Next]_vars

\* Environment assumption, not enforced by the code: no two commits write the
\* same blob at the same time.
Alone(p, c) == \A q \in Projects \ {p} : fd[q] = Closed \/ fd[q].content # c

AloneNext ==
    OtherStep \/ \E p \in Projects, c \in Contents : Alone(p, c) /\ OpenBlob(p, c)

AloneSpec == Init /\ [][AloneNext]_vars

-----------------------------------------------------------------------------
TypeOK ==
    /\ ws \in [Projects -> [Paths -> Contents \cup {NoFile, Torn}]]
    /\ phase \in [Projects -> {"idle", "restoring", "working", "storing"}]
    /\ todo \in [Projects -> SUBSET (Paths \cup Contents)]
    /\ blob \in [Contents -> {"none", "short", "whole"}]
    /\ tmp \in [Contents -> {"none", "short", "whole"}]
    /\ fd \in [Projects -> [at : {"none", "tmp", "blob", "gone", "written"},
                            content : Contents \cup {NoFile}]]
    /\ versions \in [Projects -> Seq([Paths -> Contents \cup {NoFile, Torn}])]
    /\ live \in [Projects -> 0 .. MaxVersions]

\* Every version can be rebuilt and served at any time: whatever crashed while
\* it or another project's version was written, its blobs are whole.
VersionsAreWhole ==
    \A p \in Projects : \A v \in Numbers(p) :
        \A c \in ContentsOf(versions[p][v]) : blob[c] = "whole"

\* components.md:165: Materialize reproduces the newest version byte for byte.
RestoreReproduces ==
    [][\A p \in Projects : phase[p] = "restoring" /\ phase'[p] = "working" =>
        ws[p] = Latest(p)]_vars

\* "the live pointer only ever targets one that exists" (components.md:234):
\* whatever workers, crashes and clients do, readers see a history of whole
\* versions that only grows, and a public page that is one of them.
History == INSTANCE ArtifactHistory WITH history <- Readable
KeepsHistory == History!Spec

\* "the project state remains the last committed artifact version" (PRD.md:170):
\* what a commit wrote is the project's latest version.
CommittedIsLatest ==
    [][\A p \in Projects : phase[p] = "storing" /\ phase'[p] = "working" =>
        Latest(p)' = ws[p]]_vars
=============================================================================
