----------------------------- MODULE LexicalScope -----------------------------
(***************************************************************************)
(* What a stack of scopes promises, with nothing said of how names are     *)
(* searched for: an environment says which declaration each name means,    *)
(* entering a scope copies the environment in force, declaring a name      *)
(* changes the innermost environment only, and leaving a scope brings back *)
(* exactly the environment that was in force when it was entered.          *)
(***************************************************************************)
EXTENDS Integers, Sequences

CONSTANTS
  Names,
  ArgumentLists,  \* the sequences of names a scope may open with
  Undeclared

VARIABLE envs       \* a non-empty stack of environments, the innermost last

Outermost == [x \in Names |-> Undeclared]

Init == envs = <<Outermost>>

\* A scope opens and declares args[1], args[2], ... in this order: of two
\* arguments with one name the later is meant.
Enter(args) ==
  LET stack   == envs
      current == stack[Len(stack)]
      last(x) == CHOOSE j \in DOMAIN args :
                   /\ args[j] = x
                   /\ \A k \in DOMAIN args : args[k] = x => k <= j
      meaning(x) == IF \E j \in DOMAIN args : args[j] = x THEN last(x) ELSE current[x]
  IN  envs' = Append(stack, [x \in Names |-> meaning(x)])

\* x is declared at a site no name means yet.
Declare(x) ==
  LET stack == envs
      after == envs'
      site  == after[Len(after)][x]
  IN  /\ Len(stack) > 1 /\ Len(after) = Len(stack)
      /\ site > 0
      /\ \A k \in DOMAIN stack, y \in Names : stack[k][y] # site
      /\ after = [stack EXCEPT ![Len(stack)][x] = site]

Leave ==
  LET stack == envs IN
  /\ Len(stack) > 1
  /\ envs' = SubSeq(stack, 1, Len(stack) - 1)

\* An error abandons the unit with every scope it had open.
Abandon == envs' = <<Outermost>>

Next ==
  \/ \E args \in ArgumentLists : Enter(args)
  \/ \E x \in Names : Declare(x)
  \/ Leave
  \/ Abandon

Spec == Init /\ [][Next]_envs
=============================================================================
