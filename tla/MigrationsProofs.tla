-------------------------- MODULE MigrationsProofs --------------------------
(***************************************************************************)
(* The invariants of Migrations for any number of servers, files and       *)
(* faults.                                                                 *)
(***************************************************************************)
EXTENDS Migrations, TLAPS

-----------------------------------------------------------------------------
(* The inductive invariant.                                                *)

(* A file has taken effect once if it is recorded, and else not.           *)
RecordInv ==
    \A f \in Files : applied[f] = IF f \in recorded THEN 1 ELSE 0

(* A server in the loop has all files before its own behind it; one with   *)
(* an open transaction is not at the end.                                  *)
LoopInv ==
    \A s \in Servers :
        /\ pc[s] \in {"check", "exec", "record", "commit", "up"} =>
              \A f \in Files : f < file[s] => f \in recorded
        /\ pc[s] \in {"exec", "record", "commit"} => file[s] \in Files
        /\ pc[s] = "up" => file[s] = LastFile + 1

(* A server about to commit is the writer of its file, and the name of a   *)
(* file that has a writer is not recorded.                                 *)
WriterInv ==
    /\ \A s \in Servers : pc[s] = "commit" => writer[file[s]] = s
    /\ \A f \in Files : writer[f] # NoServer => f \notin recorded

(* Earlier files are recorded before later ones.                           *)
OrderInv == \A f, g \in Files : f < g /\ g \in recorded => f \in recorded

IInv == TypeOK /\ RecordInv /\ LoopInv /\ WriterInv /\ OrderInv

-----------------------------------------------------------------------------
LEMMA InitIInv == Init => IInv
BY ServersAssumption, LastFileAssumption, MaxFaultsAssumption
   DEF Init, IInv, TypeOK, RecordInv, LoopInv, WriterInv, OrderInv, Files, Steps

(* An exit forgets the open transaction and nothing else.                  *)
LEMMA ExitIInv ==
    ASSUME IInv, NEW s \in Servers, Exit(s), UNCHANGED <<applied, recorded>>,
           faults' \in 0..MaxFaults
    PROVE  IInv'
<1> USE DEF IInv
<1>1. /\ pc'[s] = "down" /\ file' = file
      /\ \A q \in Servers : q # s => pc'[q] = pc[q]
      /\ \A f \in Files : writer'[f] = IF writer[f] = s THEN NoServer ELSE writer[f]
    BY DEF Exit, Goto, Unlocked, TypeOK
<1>2. TypeOK'
    BY LastFileAssumption DEF Exit, Goto, Unlocked, TypeOK, Steps
<1>3. RecordInv' /\ OrderInv'
    BY DEF RecordInv, OrderInv
<1>4. LoopInv'
    BY <1>1 DEF LoopInv
<1>5. WriterInv'
    BY <1>1 DEF WriterInv, LoopInv
<1> QED
    BY <1>2, <1>3, <1>4, <1>5

(* Steps that only move a server between steps before its transaction.     *)
LEMMA StartIInv ==
    ASSUME IInv, NEW s \in Servers, Start(s) \/ CreateTable(s)
    PROVE  IInv'
<1> USE LastFileAssumption DEF IInv
<1>1. /\ UNCHANGED <<applied, recorded, writer, faults>>
      /\ file' \in [Servers -> 1..(LastFile + 1)]
      /\ \A q \in Servers : q # s => file'[q] = file[q]
      /\ pc' \in [Servers -> Steps]
      /\ \A q \in Servers : q # s => pc'[q] = pc[q]
      /\ pc'[s] = "create" \/ (pc'[s] = "check" /\ file'[s] = 1)
    BY DEF Start, CreateTable, Goto, TypeOK, Steps
<1>2. TypeOK'
    BY <1>1 DEF TypeOK
<1>3. RecordInv' /\ OrderInv'
    BY <1>1 DEF RecordInv, OrderInv
<1>4. LoopInv'
    BY <1>1 DEF LoopInv, Files
<1>5. WriterInv'
    BY <1>1 DEF WriterInv
<1> QED
    BY <1>2, <1>3, <1>4, <1>5

LEMMA CheckFileIInv ==
    ASSUME IInv, NEW s \in Servers, CheckFile(s)
    PROVE  IInv'
<1> USE LastFileAssumption DEF IInv
<1>1. /\ UNCHANGED <<applied, recorded, writer, faults>>
      /\ pc[s] = "check" /\ file[s] \in 1..(LastFile + 1)
    BY DEF CheckFile, TypeOK
<1>2. /\ file' \in [Servers -> 1..(LastFile + 1)]
      /\ \A q \in Servers : q # s => file'[q] = file[q]
      /\ pc' \in [Servers -> Steps]
      /\ \A q \in Servers : q # s => pc'[q] = pc[q]
      /\ \/ pc'[s] = "up" /\ file'[s] = file[s] /\ file[s] = LastFile + 1
         \/ pc'[s] = "check" /\ file'[s] = file[s] + 1 /\ file[s] \in recorded
         \/ pc'[s] = "exec" /\ file'[s] = file[s] /\ file[s] \in Files
    <2>0. pc \in [Servers -> Steps] /\ file \in [Servers -> 1..(LastFile + 1)]
        BY DEF TypeOK
    <2>1. CASE file[s] > LastFile /\ Goto(s, "up") /\ UNCHANGED file
        BY <1>1, <2>0, <2>1 DEF Goto, Steps
    <2>2. CASE file[s] <= LastFile /\ Exists(file[s]) /\ Advance(s) /\ UNCHANGED pc
        <3>1. file[s] + 1 \in 1..(LastFile + 1)
            BY <1>1, <2>2
        <3> QED
            BY <1>1, <2>0, <2>2, <3>1 DEF Advance, Exists
    <2>3. CASE file[s] <= LastFile /\ ~Exists(file[s]) /\ Goto(s, "exec") /\ UNCHANGED file
        BY <1>1, <2>0, <2>3 DEF Goto, Steps, Files
    <2> QED
        BY <2>1, <2>2, <2>3 DEF CheckFile
<1>3. TypeOK'
    BY <1>1, <1>2 DEF TypeOK
<1>4. RecordInv' /\ OrderInv'
    BY <1>1 DEF RecordInv, OrderInv
<1>5. LoopInv'
    BY <1>1, <1>2 DEF LoopInv, Files
<1>6. WriterInv'
    BY <1>1, <1>2 DEF WriterInv
<1> QED
    BY <1>3, <1>4, <1>5, <1>6

LEMMA ExecFileIInv ==
    ASSUME IInv, NEW s \in Servers, ExecFile(s)
    PROVE  IInv'
<1> USE DEF IInv
<1>1. CASE Exit(s)
    BY <1>1, ExitIInv DEF ExecFile, TypeOK
<1>2. CASE pc[s] = "exec" /\ Goto(s, "record") /\ UNCHANGED <<file, writer, applied, recorded, faults>>
    <2>1. TypeOK'
        BY <1>2 DEF TypeOK, Goto, Steps
    <2>2. /\ pc'[s] = "record"
          /\ \A q \in Servers : q # s => pc'[q] = pc[q]
        BY <1>2 DEF TypeOK, Goto
    <2>3. RecordInv' /\ OrderInv' /\ LoopInv' /\ WriterInv'
        BY <1>2, <2>2 DEF RecordInv, OrderInv, LoopInv, WriterInv
    <2> QED
        BY <2>1, <2>3
<1> QED
    BY <1>1, <1>2 DEF ExecFile

LEMMA RecordFileIInv ==
    ASSUME IInv, NEW s \in Servers, RecordFile(s)
    PROVE  IInv'
<1> USE DEF IInv
<1>1. CASE Exit(s)
    BY <1>1, ExitIInv DEF RecordFile, TypeOK
<1>2. CASE /\ pc[s] = "record" /\ writer[file[s]] = NoServer /\ ~Duplicate(file[s])
           /\ writer' = [writer EXCEPT ![file[s]] = s]
           /\ Goto(s, "commit") /\ UNCHANGED <<file, applied, recorded, faults>>
    <2>0. file[s] \in Files /\ file[s] \notin recorded
        BY <1>2 DEF LoopInv, Duplicate
    <2>1. TypeOK'
        BY <1>2, <2>0 DEF TypeOK, Goto, Steps
    <2>2. /\ pc'[s] = "commit" /\ writer'[file[s]] = s
          /\ \A q \in Servers : q # s => pc'[q] = pc[q]
          /\ \A f \in Files : f # file[s] => writer'[f] = writer[f]
        BY <1>2, <2>0 DEF TypeOK, Goto
    <2>3. RecordInv' /\ OrderInv' /\ LoopInv'
        BY <1>2, <2>2 DEF RecordInv, OrderInv, LoopInv
    <2>4. WriterInv'
        BY <1>2, <2>0, <2>2, ServersAssumption DEF WriterInv, LoopInv
    <2> QED
        BY <2>1, <2>3, <2>4
<1> QED
    BY <1>1, <1>2 DEF RecordFile

(* What a commit changes, whether or not its answer arrives.               *)
LEMMA CommitIInv ==
    ASSUME IInv, NEW s \in Servers, CommitFile(s) \/ CommitLost(s)
    PROVE  IInv'
<1> USE LastFileAssumption, MaxFaultsAssumption DEF IInv
<1> DEFINE g == file[s]
<1>0. /\ pc[s] = "commit" /\ g \in Files /\ g \notin recorded /\ writer[g] = s
      /\ applied[g] = 0
    BY ServersAssumption DEF CommitFile, CommitLost, LoopInv, WriterInv, RecordInv
<1>1. /\ recorded' = recorded \cup {g}
      /\ applied' \in [Files -> Nat] /\ applied'[g] = 1
      /\ \A f \in Files : f # g => applied'[f] = applied[f]
    BY <1>0 DEF CommitFile, CommitLost, Effect, TypeOK
<1>2. /\ writer' \in [Files -> Servers \cup {NoServer}]
      /\ \A f \in Files : writer'[f] = IF writer[f] = s THEN NoServer ELSE writer[f]
    BY DEF CommitFile, CommitLost, Exit, Unlocked, TypeOK
<1>3. /\ pc' \in [Servers -> Steps] /\ file' \in [Servers -> 1..(LastFile + 1)]
      /\ \A q \in Servers : q # s => pc'[q] = pc[q] /\ file'[q] = file[q]
      /\ \/ pc'[s] = "check" /\ file'[s] = g + 1
         \/ pc'[s] = "down"
    <2>0. pc \in [Servers -> Steps] /\ file \in [Servers -> 1..(LastFile + 1)]
        BY DEF TypeOK
    <2>1. CASE CommitFile(s)
        <3>1. g + 1 \in 1..(LastFile + 1)
            BY <1>0 DEF Files
        <3> QED
            BY <2>0, <2>1, <3>1 DEF CommitFile, Goto, Advance, Steps
    <2>2. CASE CommitLost(s)
        BY <2>0, <2>2 DEF CommitLost, Exit, Goto, Steps
    <2> QED
        BY <2>1, <2>2
<1>4. faults' \in 0..MaxFaults
    BY DEF CommitFile, CommitLost, Fault, TypeOK
<1> HIDE DEF g
<1>5. TypeOK'
    BY <1>0, <1>1, <1>2, <1>3, <1>4 DEF TypeOK
<1>6. RecordInv'
    BY <1>1 DEF RecordInv
<1>7. OrderInv'
    BY <1>0, <1>1 DEF OrderInv, LoopInv, g, Files
<1>8. LoopInv'
    <2>1. g \in 1..LastFile /\ \A f \in Files : f < g => f \in recorded
        BY <1>0 DEF LoopInv, Files, g
    <2>2. pc'[s] = "check" => \A f \in Files : f < file'[s] => f \in recorded'
        BY <1>1, <1>3, <2>1 DEF Files
    <2>3. pc'[s] \in {"check", "down"}
        BY <1>3
    <2> QED
        BY <1>1, <1>3, <2>2, <2>3 DEF LoopInv
<1>9. WriterInv'
    <2>1. \A q \in Servers : pc'[q] = "commit" => q # s /\ pc[q] = "commit" /\ file'[q] = file[q]
        BY <1>3
    <2> QED
        BY <1>0, <1>1, <1>2, <2>1 DEF WriterInv, LoopInv
<1> QED
    BY <1>5, <1>6, <1>7, <1>8, <1>9

LEMMA NextIInv == IInv /\ [Next]_vars => IInv'
<1> SUFFICES ASSUME IInv, [Next]_vars PROVE IInv'
    OBVIOUS
<1>1. ASSUME NEW s \in Servers, Step(s) PROVE IInv'
    BY <1>1, StartIInv, CheckFileIInv, ExecFileIInv, RecordFileIInv, CommitIInv DEF Step
<1>2. ASSUME NEW s \in Servers, Crash(s) PROVE IInv'
    <2>1. faults' \in 0..MaxFaults
        BY <1>2, MaxFaultsAssumption DEF Crash, Fault, IInv, TypeOK
    <2> QED
        BY <1>2, <2>1, ExitIInv DEF Crash
<1>3. CASE UNCHANGED vars
    BY <1>3 DEF vars, IInv, TypeOK, RecordInv, LoopInv, WriterInv, OrderInv
<1> QED
    BY <1>1, <1>2, <1>3, CommitIInv DEF Next, Terminating

THEOREM Invariance == Spec => []IInv
BY InitIInv, NextIInv, PTL DEF Spec

-----------------------------------------------------------------------------
(* The loop of RunMigrations stays within the directory and the database   *)
(* within its types.                                                       *)
THEOREM TypeCorrect == Spec => []TypeOK
<1>1. IInv => TypeOK
    BY DEF IInv
<1> QED
    BY <1>1, Invariance, PTL

(* However many servers start at once and whatever fails, no file takes    *)
(* effect twice.                                                           *)
THEOREM NeverTwice == Spec => []AppliedOnce
<1>1. IInv => AppliedOnce
    BY DEF IInv, RecordInv, AppliedOnce
<1> QED
    BY <1>1, Invariance, PTL

(* Files take effect in their sorted order.                                *)
THEOREM SortedOrder == Spec => []AppliedInOrder
<1>1. IInv => AppliedInOrder
    BY DEF IInv, RecordInv, OrderInv, AppliedInOrder
<1> QED
    BY <1>1, Invariance, PTL

(* A server whose RunMigrations returned without error finds every file in *)
(* effect, once.                                                           *)
THEOREM SchemaComplete == Spec => []ServesMigrated
<1>1. IInv => ServesMigrated
    BY LastFileAssumption DEF IInv, TypeOK, RecordInv, LoopInv, ServesMigrated, Files
<1> QED
    BY <1>1, Invariance, PTL
=============================================================================
