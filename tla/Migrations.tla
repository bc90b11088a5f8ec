----------------------------- MODULE Migrations -----------------------------
(***************************************************************************)
(* Opening the database: migrate of internal/store.  The scripts of         *)
(* migrations/ are numbered without gaps, and user_version is the number of *)
(* the last one applied.  A script's statements are executed one by one and *)
(* commit one by one: no transaction holds them together, or holds them to  *)
(* the new user_version, and none of them may be executed twice (CREATE,    *)
(* ALTER ... ADD, an INSERT of a fixed key).  The server and any number of  *)
(* commands of the command line open the same file, of the same release or  *)
(* of an older one, and any of them may be killed between two statements.   *)
(***************************************************************************)
EXTENDS Integers

CONSTANTS
    Openers,     \* processes
    Scripts,     \* how many scripts the newest release has
    PerScript    \* bound: statements per script

VARIABLES
    userVersion,   \* PRAGMA user_version
    applied,       \* <<script, statement>>, those that have been executed
    opener         \* what each process is doing

vars == <<userVersion, applied, opener>>

Closed == [at |-> "closed", release |-> 0, script |-> 0, done |-> 0]

Init ==
    /\ userVersion = 0
    /\ applied = {}
    /\ opener = [o \in Openers |-> Closed]

\* The SELECT of the version with which migrate begins.
ReadVersion(o, release) ==
    /\ opener[o] = Closed
    /\ opener' = [opener EXCEPT ![o] =
         [at |-> "migrating", release |-> release, script |-> userVersion + 1, done |-> 0]]
    /\ UNCHANGED <<userVersion, applied>>

AtScript(o) == opener[o].at = "migrating" /\ opener[o].script <= opener[o].release

\* Fault: the version is set before the script is executed.
ExecStatementVersionFirst(o) ==
    LET s == <<opener[o].script, opener[o].done + 1>> IN
    /\ AtScript(o) /\ opener[o].done < PerScript
    /\ s \notin applied
    /\ applied' = applied \cup {s}
    /\ opener' = [opener EXCEPT ![o].done = @ + 1]
    /\ userVersion' = opener[o].script

\* The next statement of the script.
ExecStatement(o) ==
    LET s == <<opener[o].script, opener[o].done + 1>> IN
    /\ AtScript(o) /\ opener[o].done < PerScript
    /\ s \notin applied
    /\ applied' = applied \cup {s}
    /\ opener' = [opener EXCEPT ![o].done = @ + 1]
    /\ UNCHANGED userVersion

\* It has been executed before, by a process that was killed or is still at it:
\* the table or the column exists, and Open fails.
RefuseStatement(o) ==
    /\ AtScript(o) /\ opener[o].done < PerScript
    /\ <<opener[o].script, opener[o].done + 1>> \in applied
    /\ opener' = [opener EXCEPT ![o] = Closed]
    /\ UNCHANGED <<userVersion, applied>>

\* PRAGMA user_version, and on to the next script.
SetVersion(o) ==
    /\ AtScript(o) /\ opener[o].done = PerScript
    /\ userVersion' = opener[o].script
    /\ opener' = [opener EXCEPT ![o].script = @ + 1, ![o].done = 0]
    /\ UNCHANGED applied

\* No script is left, or the file is of a newer release: the database is open.
FinishOpen(o) ==
    /\ opener[o].at = "migrating" /\ opener[o].script > opener[o].release
    /\ opener' = [opener EXCEPT ![o].at = "open"]
    /\ UNCHANGED <<userVersion, applied>>

\* The process closes the database, is killed, or meets an error of the disk.
Leave(o) ==
    /\ opener[o] # Closed
    /\ opener' = [opener EXCEPT ![o] = Closed]
    /\ UNCHANGED <<userVersion, applied>>

Next ==
    \E o \in Openers :
        \/ \E release \in 1 .. Scripts : ReadVersion(o, release)
        \/ ExecStatement(o) \/ RefuseStatement(o) \/ SetVersion(o) \/ FinishOpen(o) \/ Leave(o)

Spec == Init /\ [][Next]_vars

\* The version and the statements are of the newest release's scripts.
TypeOK ==
    /\ userVersion \in 0 .. Scripts
    /\ applied \subseteq (1 .. Scripts) \X (1 .. PerScript)
    /\ opener \in [Openers -> [at : {"closed", "migrating", "open"}, release : 0 .. Scripts,
                               script : 0 .. Scripts + 1, done : 0 .. PerScript]]

\* Whoever has the database open finds every table and column its release
\* knows, although other processes migrated the same file at the same time and
\* were killed anywhere (store.go:46).  What is not promised: after such a death
\* inside a script every later Open fails.
OpenSeesWholeSchema ==
    \A o \in Openers : opener[o].at = "open" =>
        (1 .. opener[o].release) \X (1 .. PerScript) \subseteq applied
=============================================================================
