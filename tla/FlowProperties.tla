---------------------------- MODULE FlowProperties ----------------------------
(***************************************************************************)
(* What must hold of the checker's view of a program while the program     *)
(* runs.                                                                   *)
(***************************************************************************)
EXTENDS Execution

(* The places a statement reads at.                                        *)
RECURSIVE ReadsIn(_)
ReadsIn(stmts) ==
    UNION {LET s == stmts[i]
                   own == IF s.op \in {"use", "closure"} THEN {s.at} ELSE {}
               IN  own \cup ReadsIn(s.body) \cup ReadsIn(s.other) \cup ReadsIn(s.final) :
               i \in DOMAIN stmts}

(* A value that is read belongs to the type the checker gave the read.     *)
(* Narrowing follows control flow through branches, loops walked until     *)
(* their head settles, jumps, try and switch, and is forgotten where a     *)
(* write may have happened (narrow.rs, control_flow.rs:175 run_loop, 447   *)
(* check_try_statement, assignment.rs:108): "a narrowing may lose          *)
(* precision and must never invent it".                                    *)
NarrowingNeverInvents ==
    \A r \in read : \E i \in DOMAIN report.reads :
        /\ report.reads[i].at = r.at
        /\ \A j \in DOMAIN report.reads :
              report.reads[j].at = r.at => Belongs(r.value, report.reads[j].type)

(* A loop is walked silently until its head settles and then once for      *)
(* real: every read is checked, and none is reported twice (control_flow.rs*)
(* :186, "what these passes report would otherwise be reported twice").    *)
EachReadCheckedOnce ==
    /\ \A i, j \in DOMAIN report.reads : report.reads[i].at = report.reads[j].at => i = j
    /\ ReadsIn(Program(program).body) \subseteq {report.reads[i].at : i \in DOMAIN report.reads}

(* A statement reported unreachable never runs: a literal test hides no    *)
(* break and no branch that goes on (unreachable_code.rs:183               *)
(* ends_dead_by_rule, support.rs:94 contains_break).                       *)
DeadIsDead ==
    \A r \in read : \A s \in report.dead : r.at \notin ReadsIn(<<s>>)
=============================================================================
