----------------------------- MODULE Migrations -----------------------------
(***************************************************************************)
(* Servers that start against one database (cmd/server/main.go): connect,  *)
(* RunMigrations (internal/repository/postgres/db.go), serve.  Several     *)
(* start at once when a new version is rolled out or the supervisor        *)
(* restarts them.  A server that meets an error exits and is started       *)
(* again.                                                                  *)
(*                                                                         *)
(* A migration is the position of its file in the sorted directory.  What  *)
(* a file does is left out: the model lets every file take effect again.   *)
(* (0006_money_minor_units.sql would fail: it adds columns that are there.)*)
(***************************************************************************)
EXTENDS Integers

CONSTANTS
    Servers,
    NoServer,
    LastFile,   \* number of migration files
    MaxFaults   \* bound on crashes and on failed or lost database calls

ASSUME ServersAssumption == NoServer \notin Servers
ASSUME LastFileAssumption == LastFile \in Nat
ASSUME MaxFaultsAssumption == MaxFaults \in Nat

VARIABLES
    pc,         \* the next step of each server
    file,       \* the file at which the loop of each server is
    applied,    \* how often each file has taken effect
    recorded,   \* schema_migrations
    writer,     \* the server whose open transaction inserted each file name
    faults      \* faults so far

vars == <<pc, file, applied, recorded, writer, faults>>

Files == 1..LastFile

Steps == {"down", "create", "check", "exec", "record", "commit", "up"}

TypeOK ==
    /\ pc \in [Servers -> Steps]
    /\ file \in [Servers -> 1..(LastFile + 1)]
    /\ applied \in [Files -> Nat]
    /\ recorded \subseteq Files
    /\ writer \in [Files -> Servers \cup {NoServer}]
    /\ faults \in 0..MaxFaults

(* An empty database.                                                      *)
Init ==
    /\ pc = [s \in Servers |-> "down"]
    /\ file = [s \in Servers |-> 1]
    /\ applied = [f \in Files |-> 0]
    /\ recorded = {}
    /\ writer = [f \in Files |-> NoServer]
    /\ faults = 0

-----------------------------------------------------------------------------
Goto(s, step) == pc' = [pc EXCEPT ![s] = step]

(* The next turn of the loop.                                              *)
Advance(s) == file' = [file EXCEPT ![s] = @ + 1]

(* The open transaction of a server is rolled back, or ends.               *)
Unlocked(s) == [f \in Files |-> IF writer[f] = s THEN NoServer ELSE writer[f]]

(* Mutant of Exit: an error of one file does not keep the loop from the    *)
(* next.                                                                   *)
ExitContinues(s) ==
    /\ IF pc[s] \in {"exec", "record", "commit"}
       THEN Goto(s, "check") /\ Advance(s)
       ELSE Goto(s, "down") /\ UNCHANGED file
    /\ writer' = Unlocked(s)

(* Any error: rollback, the function returns, the process exits.           *)
Exit(s) ==
    /\ Goto(s, "down")
    /\ writer' = Unlocked(s)
    /\ UNCHANGED file

Fault == faults < MaxFaults /\ faults' = faults + 1

(* The process starts: configuration and Connect.                          *)
Start(s) ==
    /\ pc[s] = "down"
    /\ Goto(s, "create")
    /\ UNCHANGED <<file, applied, recorded, writer, faults>>

(* CREATE TABLE IF NOT EXISTS schema_migrations; the sorted list of files. *)
CreateTable(s) ==
    /\ pc[s] = "create"
    /\ Goto(s, "check")
    /\ file' = [file EXCEPT ![s] = 1]
    /\ UNCHANGED <<applied, recorded, writer, faults>>

(* Mutant of Exists: schema_migrations is not asked.                       *)
ExistsNever(f) == FALSE

(* SELECT EXISTS, outside the transaction that follows.                    *)
Exists(f) == f \in recorded

(* One turn of the loop up to BeginTx, or its end: the server serves.      *)
CheckFile(s) ==
    /\ pc[s] = "check"
    /\ \/ /\ file[s] > LastFile
          /\ Goto(s, "up")
          /\ UNCHANGED file
       \/ /\ file[s] <= LastFile /\ Exists(file[s])
          /\ Advance(s)
          /\ UNCHANGED pc
       \/ /\ file[s] <= LastFile /\ ~Exists(file[s])
          /\ Goto(s, "exec")
          /\ UNCHANGED file
    /\ UNCHANGED <<applied, recorded, writer, faults>>

(* The statements of the file in the transaction.  They may fail if        *)
(* another server applied the file since the check (ADD COLUMN does).      *)
ExecFile(s) ==
    /\ pc[s] = "exec"
    /\ \/ /\ Goto(s, "record")
          /\ UNCHANGED <<file, writer>>
       \/ /\ file[s] \in recorded
          /\ Exit(s)
    /\ UNCHANGED <<applied, recorded, faults>>

(* Mutant of Duplicate: filename is not the primary key.                   *)
DuplicateNever(f) == FALSE

(* The primary key refuses the name.                                       *)
Duplicate(f) == f \in recorded

(* INSERT INTO schema_migrations: waits for another open transaction that  *)
(* inserted the name.                                                      *)
RecordFile(s) ==
    /\ pc[s] = "record"
    /\ writer[file[s]] = NoServer
    /\ \/ /\ Duplicate(file[s])
          /\ Exit(s)
       \/ /\ ~Duplicate(file[s])
          /\ writer' = [writer EXCEPT ![file[s]] = s]
          /\ Goto(s, "commit")
          /\ UNCHANGED file
    /\ UNCHANGED <<applied, recorded, faults>>

(* The file and its record take effect together.                           *)
Effect(s) ==
    /\ applied' = [applied EXCEPT ![file[s]] = @ + 1]
    /\ recorded' = recorded \cup {file[s]}

CommitFile(s) ==
    /\ pc[s] = "commit"
    /\ Effect(s)
    /\ writer' = Unlocked(s)
    /\ Advance(s)
    /\ Goto(s, "check")
    /\ UNCHANGED faults

(* The commit is carried out and its answer lost.                          *)
CommitLost(s) ==
    /\ pc[s] = "commit"
    /\ Fault
    /\ Effect(s)
    /\ Exit(s)

(* A call fails, or the process dies, while it starts or serves.           *)
Crash(s) ==
    /\ pc[s] # "down"
    /\ Fault
    /\ Exit(s)
    /\ UNCHANGED <<applied, recorded>>

(* Every server is up.                                                     *)
Terminating ==
    /\ \A s \in Servers : pc[s] = "up"
    /\ UNCHANGED vars

Step(s) ==
    \/ Start(s) \/ CreateTable(s) \/ CheckFile(s)
    \/ ExecFile(s) \/ RecordFile(s) \/ CommitFile(s)

Next ==
    \/ \E s \in Servers : Step(s) \/ CommitLost(s) \/ Crash(s)
    \/ Terminating

Spec == Init /\ [][Next]_vars

(* Processes run and are restarted, the database answers; faults happen    *)
(* MaxFaults times at most.                                                *)
FairSpec == Spec /\ \A s \in Servers : WF_vars(Step(s))

-----------------------------------------------------------------------------
(* A file takes effect at most once, whichever servers run it at the same  *)
(* time, crash or lose the answer of a commit: the check for it is outside *)
(* the transaction, and nothing makes a file harmless to repeat.           *)
AppliedOnce == \A f \in Files : applied[f] <= 1

(* No file takes effect before the files that are sorted before it, though *)
(* servers that race and exit leave the loop at different files.           *)
AppliedInOrder ==
    \A f, g \in Files : f < g /\ applied[g] > 0 => applied[f] > 0

(* A server that serves has the whole schema.                              *)
ServesMigrated ==
    \A s \in Servers : pc[s] = "up" => \A f \in Files : applied[f] = 1

(* Every server gets up in the end: the one that loses a race exits with   *)
(* an error, and the restart finds the file recorded.                      *)
AllServersServe == <>[](\A s \in Servers : pc[s] = "up")
=============================================================================
