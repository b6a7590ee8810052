----------------------------- MODULE FullBuild -----------------------------
(***************************************************************************)
(* What qz build promises, with or without a cache: each build behaves as a *)
(* full compilation of the project.  Files may change while a build runs,  *)
(* so a build compiles some content each file has had since it began.      *)
(***************************************************************************)
EXTENDS Project

CONSTANTS
    Builders,    \* qz processes working on the project
    Idle, Busy, Failed   \* what a builder shows when it shows no artifact

VARIABLES
    disk,        \* content of every file
    seen,        \* contents each file has had since the builder began
    result       \* the artifact a builder has emitted, or its status

vars == <<disk, seen, result>>

\* The programs the loader may have read: an entry source, and the leaf that a
\* mod.qz of the time named.
Loaded(had) ==
    UNION {{[s \in {Root, leaf} |-> IF s = Root THEN root ELSE text] :
               root \in had[Root] \ {Absent}, text \in had[leaf] \ {Absent}} :
           leaf \in had[Route] \ {Absent}}

Start(b) ==
    /\ result[b] # Busy
    /\ result' = [result EXCEPT ![b] = Busy]
    /\ seen' = [seen EXCEPT ![b] = [f \in Files |-> {disk[f]}]]
    /\ UNCHANGED disk

Emit(b) ==
    /\ result[b] = Busy
    /\ \E prog \in Loaded(seen[b]) :
         \E settings \in seen[b][Manifest], dep \in seen[b][Dep] :
           /\ Accepts(prog) /\ settings # Absent /\ dep # Absent
           /\ result' = [result EXCEPT ![b] = Artifact(Compiled(prog), settings, dep)]
    /\ UNCHANGED <<disk, seen>>

\* A build may fail only for what it could have read.
Refuse(b) ==
    /\ result[b] = Busy
    /\ \/ \E f \in Files : Absent \in seen[b][f]
       \/ \E prog \in Loaded(seen[b]) : ~ Accepts(prog)
    /\ result' = [result EXCEPT ![b] = Failed]
    /\ UNCHANGED <<disk, seen>>

\* The process is killed.
Die(b) ==
    /\ result[b] = Busy
    /\ result' = [result EXCEPT ![b] = Idle]
    /\ UNCHANGED <<disk, seen>>

Write(f, c) ==
    /\ disk' = [disk EXCEPT ![f] = c]
    /\ seen' = [b \in Builders |->
                  IF result[b] = Busy THEN [seen[b] EXCEPT ![f] = @ \union {c}]
                                      ELSE seen[b]]
    /\ UNCHANGED result

Init ==
    /\ disk \in Disks
    /\ seen = [b \in Builders |-> [f \in Files |-> {}]]
    /\ result = [b \in Builders |-> Idle]

Next ==
    \/ \E b \in Builders : Start(b) \/ Emit(b) \/ Refuse(b) \/ Die(b)
    \/ \E f \in Files : \E c \in ContentOf(f) \union {Absent} : Write(f, c)

Spec == Init /\ [][Next]_vars
=============================================================================
