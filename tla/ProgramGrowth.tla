---------------------------- MODULE ProgramGrowth ----------------------------
(***************************************************************************)
(* What a module promises its callers, with nothing said of how or how     *)
(* often it is compiled.  It is a set of signatures, what the definition   *)
(* of each one calls, and a sequence of statements.  It only grows: a form *)
(* is added whole or not at all, a definition is never replaced, and a     *)
(* form calls what was defined before it, so that no function is recursive *)
(* and the calls a statement makes end.                                    *)
(***************************************************************************)
EXTENDS Sequences

CONSTANT Given      \* the signatures every module begins with

VARIABLES known, uses, program
vars == <<known, uses, program>>

Init == known = Given /\ uses = {} /\ program = << >>

\* A signature that was not known gets a definition.
Define ==
  /\ program' = program
  /\ \E s \in known' \ known :
       /\ known' = known \union {s}
       /\ uses \subseteq uses'
       /\ \A u \in uses' \ uses : u[1] = s /\ u[2] \in known

\* A statement that calls what is known.
State ==
  /\ UNCHANGED <<known, uses>>
  /\ \E callees \in SUBSET known : program' = Append(program, callees)

Next == Define \/ State

Spec == Init /\ [][Next]_vars
=============================================================================
